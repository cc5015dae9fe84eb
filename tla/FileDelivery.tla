---------------------------- MODULE FileDelivery ----------------------------
(***************************************************************************)
(* What a receiving client promises about the files beneath its directory: *)
(* each file is missing, or holds the leading pieces of one offered file   *)
(* in order; one transfer at a time writes it, a new transfer starts from  *)
(* the empty file, and a transfer lets go of it only when it is whole.     *)
(***************************************************************************)
EXTENDS Integers, Sequences

CONSTANTS
    Transfers,  \* the offers made to the receiver, each with its own uuid
    Dest,       \* the destination file of each transfer
    Source,     \* the contents each transfer is to carry
    Length,     \* the offered size of each source
    MaxMessage, \* the largest piece sent as one data-channel message
    Missing,    \* the file does not exist
    NoTransfer  \* nobody writes the file

Dests == {Dest[t] : t \in Transfers}

(* The messages a source of this length is cut into. *)
Cut(src, len) ==
    [i \in 1 .. (len + MaxMessage - 1) \div MaxMessage |->
        LET at == (i - 1) * MaxMessage
        IN  [src |-> src, at |-> at,
             len |-> IF len - at < MaxMessage THEN len - at ELSE MaxMessage]]

Whole(src) == Cut(src, Length[src])

VARIABLES
    disk,       \* the contents of each destination: Missing or a sequence of pieces
    writer      \* the transfer that has each destination open

vars == <<disk, writer>>

Init ==
    /\ disk = [d \in Dests |-> Missing]
    /\ writer = [d \in Dests |-> NoTransfer]

(* Some transfer starts on d; an empty one is whole at once. *)
Begins(d) ==
    /\ disk'[d] = <<>>
    /\ \E t \in Transfers :
          /\ Dest[t] = d
          /\ writer'[d] = IF Whole(Source[t]) = <<>> THEN NoTransfer ELSE t

(* Only the last piece is missing. *)
AlmostWhole(d) == Len(disk[d]) + 1 = Len(Whole(Source[writer[d]]))

(* The writer appends its next piece, and lets go of d after the last one. *)
Extends(d) ==
    /\ writer[d] # NoTransfer
    /\ disk'[d] = SubSeq(Whole(Source[writer[d]]), 1, Len(disk[d]) + 1)
    /\ writer'[d] = IF AlmostWhole(d) THEN NoTransfer ELSE writer[d]

(* The last piece is written and another transfer starts over it at once. *)
Replaces(d) == writer[d] # NoTransfer /\ AlmostWhole(d) /\ Begins(d)

DestStep(d) ==
    \/ writer[d] = NoTransfer /\ Begins(d)
    \/ Extends(d)
    \/ Replaces(d)

Next == \A d \in Dests : DestStep(d) \/ (disk'[d] = disk[d] /\ writer'[d] = writer[d])

Spec == Init /\ [][Next]_vars
============================================================================
