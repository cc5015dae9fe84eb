------------------------- MODULE MCSignalingServer -------------------------
(* Instances of SignalingServer for TLC: one name that comes back on a    *)
(* second socket, and others with one socket each.                        *)
EXTENDS SignalingServer

CONSTANTS a, b, a1, a2, b1, r1, r2

MCOwner == [s \in Sockets |-> IF s \in {a1, a2} THEN a ELSE b]
============================================================================
