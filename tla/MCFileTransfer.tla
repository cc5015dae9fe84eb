--------------------------- MODULE MCFileTransfer ---------------------------
(* Instances of FileTransfer for TLC.  Alice sends a file of two          *)
(* messages, another file to the same destination, an empty file and the   *)
(* first one again; bob sends one of her files.                             *)
EXTENDS FileTransfer

CONSTANTS alice, bob, t1, t2, t3, t4, t5, d1, d2, d3, f0, f1, f2

MCFrom == [t \in Transfers |-> IF t = t5 THEN bob ELSE alice]

(* Every sender has destinations of its own. *)
MCDest == [t \in Transfers |-> CASE t = t3 -> d2 [] t = t5 -> d3 [] OTHER -> d1]

(* The senders meet on one destination. *)
MCSharedDest == [t \in Transfers |-> IF t = t3 THEN d2 ELSE d1]

MCSource == [t \in Transfers |-> CASE t \in {t2, t5} -> f2 [] t = t3 -> f0 [] OTHER -> f1]

MCLength == [f \in {f0, f1, f2} |-> CASE f = f0 -> 0 [] f = f1 -> 3 [] f = f2 -> 1]
============================================================================
