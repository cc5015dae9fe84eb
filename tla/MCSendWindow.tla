---------------------------- MODULE MCSendWindow ----------------------------
(* An instance of SendWindow for TLC: a file of several messages, one that  *)
(* ends with a short message, an empty one and one that cannot be opened.   *)
EXTENDS SendWindow

CONSTANTS big, odd, empty, gone

MCSize == [f \in Files |-> CASE f = big -> 8 [] f = odd -> 3 [] f = empty -> 0 [] OTHER -> 2]
=============================================================================
