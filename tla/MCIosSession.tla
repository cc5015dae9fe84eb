---------------------------- MODULE MCIosSession ----------------------------
(* An instance of IosSession for TLC: a room of its own beside the peer's.  *)
EXTENDS IosSession

CONSTANTS own, peers
=============================================================================
