-------------------------- MODULE MCClientSession --------------------------
(* Instances of ClientSession for TLC: two files are queued, and one is    *)
(* named on the command line.                                              *)
EXTENDS ClientSession

CONSTANTS f, g, h

MCNoStartFiles == <<>>

MCStartFiles == <<h>>
============================================================================
