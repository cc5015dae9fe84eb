---------------------------- MODULE MCServerPort ----------------------------
(* An instance of ServerPort for TLC: one name with two connections and     *)
(* another with one.                                                        *)
EXTENDS ServerPort

CONSTANTS a, b, a1, a2, b1

MCOwner == [s \in Sockets |-> IF s \in {a1, a2} THEN a ELSE b]
=============================================================================
