---------------------------- MODULE FileTransfer ----------------------------
(***************************************************************************)
(* File transfer from several sending clients to one receiving client      *)
(* (src/src/WebRTCClient.cpp): offers and their answers through the        *)
(* signalling server, the worker thread that streams accepted files over   *)
(* the data channel, and the receiver's queue of incoming files.           *)
(*                                                                         *)
(* Nothing on the data channel says which file a chunk belongs to.  The    *)
(* receiver writes chunks into the front of its queue until the offered    *)
(* size is reached, and relies on three queues staying in step: its own,   *)
(* the answers on their way back, and the sender's queue of accepted files.*)
(***************************************************************************)
EXTENDS Integers, Sequences, FiniteSets, SequencesExt

CONSTANTS
    Senders,    \* the (peer, room) keys of the sending clients
    Transfers,  \* offers, one per uuid
    From,       \* the sender of each transfer
    Dest,       \* the destination path of each transfer at the receiver
    Source,     \* the contents each transfer is to carry
    Length,     \* the size of each source when it is offered
    MaxMessage, \* --maxMessageSize, the size of the worker's read buffer
    Missing,    \* a destination that does not exist
    NoTransfer, \* an idle worker, a file nobody writes
    Faults      \* which of the faults below may happen

AllFaults == {"unreadable",  \* the sender cannot lock or open an accepted file
              "resized",     \* the file changed size since it was offered
              "locked",      \* another program holds the destination
              "write",       \* writing a chunk fails
              "drop"}        \* a sender loses its connections and reconnects

ASSUME ConstantsAssumption ==
    /\ From \in [Transfers -> Senders]
    /\ MaxMessage \in Nat \ {0}
    /\ \A t \in Transfers : Length[Source[t]] \in Nat
    /\ NoTransfer \notin Transfers
    /\ Faults \subseteq AllFaults

VARIABLES
    offered,    \* transfers the sender has offered
    pending,    \* m_pendingOffers of all senders
    toReceiver, \* file_offer messages on their way, per sender
    toSender,   \* file_accept and file_reject messages on their way, per sender
    fileQ,      \* the data channel's queue of accepted files, per sender
    worker,     \* the file the worker thread reads and the messages it sent of it
    wire,       \* chunks sent on the data channel and not received
    incoming,   \* m_incomingFiles at the receiver, per sender
    disk,       \* the contents of each destination, in pieces
    saved       \* what each transfer's file held when its stream was closed

vars == <<offered, pending, toReceiver, toSender, fileQ, worker, wire, incoming, disk, saved>>
senderVars == <<offered, pending, toReceiver, fileQ, worker>>
receiverVars == <<incoming, disk, saved>>

----------------------------------------------------------------------------
Dests == {Dest[t] : t \in Transfers}

(* The number of messages that carry this many bytes. *)
Messages(len) == (len + MaxMessage - 1) \div MaxMessage

(* The messages the worker's read loop cuts a file of this length into. *)
Cut(src, len) ==
    [i \in 1 .. Messages(len) |->
        LET at == (i - 1) * MaxMessage
        IN  [src |-> src, at |-> at,
             len |-> IF len - at < MaxMessage THEN len - at ELSE MaxMessage]]

Whole(src) == Cut(src, Length[src])

Idle == [t |-> NoTransfer, len |-> 0, sent |-> 0]

----------------------------------------------------------------------------
(* Mutated forms of definitions below, used to test the properties.        *)

(* the position of a stream that is not open *)
EntryNoPosition(t) == [t |-> t, got |-> -1, open |-> FALSE]

(* push_front for push_back *)
EnqueuedFront(q, e) == <<e>> \o q

(* the size of the queue is looked at before the file is pushed *)
StartsAloneBeforePush(q) == Len(q) = 0

(* std::ios::trunc left out *)
OpenedAppending(content) == IF content = Missing THEN <<>> ELSE content

(* no lock on the destination *)
ContendedNever(s, d) == FALSE

----------------------------------------------------------------------------
(* The receiver's queue of incoming files *)

(* An incoming file as OnFileOffer queues it. *)
Entry(t) == [t |-> t, got |-> 0, open |-> FALSE]

Enqueued(q, e) == Append(q, e)

(* OnFileOffer starts a file at once when nothing is queued before it. *)
StartsAlone(q) == Len(q) = 1

Complete(e, got) == got >= Length[Source[e.t]]

(* A destination after it has been opened. *)
Opened(content) == <<>>

(* The destination is locked by the file another sender is sending. *)
Contended(s, d) ==
    \E o \in Senders \ {s} :
        incoming[o] # <<>> /\ Head(incoming[o]).open /\ Dest[Head(incoming[o]).t] = d

(* The queue once its first k files are done with and the next is open. *)
Started(q, k) ==
    [i \in 1 .. Len(q) - k |->
        IF i = 1 THEN [q[k + 1] EXCEPT !.open = TRUE] ELSE q[k + i]]

(* StartNextIncoming on sender s's queue q of closed files, the disk and the *)
(* saved files being as given.  The first k files are passed over: those it  *)
(* is refused the lock of or cannot open are dropped, and an empty one is    *)
(* complete as soon as it is created.  The next file, if any, is opened.     *)
StartNextIncoming(s, q, disk0, saved0) ==
    \E k \in 0 .. Len(q), refused \in SUBSET (1 .. Len(q)) :
        /\ refused \subseteq 1 .. k
        /\ \A i \in 1 .. k : Contended(s, Dest[q[i].t]) => i \in refused
        /\ \A i \in refused : Contended(s, Dest[q[i].t]) \/ "locked" \in Faults
        /\ \A i \in (1 .. k) \ refused : Length[Source[q[i].t]] = 0
        /\ k < Len(q) => /\ ~Contended(s, Dest[q[k + 1].t])
                         /\ Length[Source[q[k + 1].t]] > 0
        /\ incoming' = [incoming EXCEPT ![s] = Started(q, k)]
        /\ LET opened == ((1 .. k) \ refused) \cup (IF k < Len(q) THEN {k + 1} ELSE {})
           IN  disk' = [d \in Dests |-> IF \E i \in opened : Dest[q[i].t] = d
                                        THEN Opened(disk0[d]) ELSE disk0[d]]
        /\ saved' = [t \in Transfers |-> IF \E i \in (1 .. k) \ refused : q[i].t = t
                                         THEN <<>> ELSE saved0[t]]

(* OnFileOffer's test of an existing file's CRC, contents for checksum. *)
Duplicate(t) == disk[Dest[t]] = Whole(Source[t])

(* OnFileOffer, with SendFileAccept or SendFileReject.  The offer is        *)
(* accepted also when StartNextIncoming just dropped its file.              *)
OnFileOffer(s) ==
    /\ toReceiver[s] # <<>>
    /\ toReceiver' = [toReceiver EXCEPT ![s] = Tail(@)]
    /\ LET t == Head(toReceiver[s])
           q == Enqueued(incoming[s], Entry(t))
       IN  /\ toSender' = [toSender EXCEPT ![s] = Append(@, [t |-> t, accept |-> ~Duplicate(t)])]
           /\ IF Duplicate(t)
              THEN UNCHANGED receiverVars
              ELSE IF StartsAlone(q)
              THEN StartNextIncoming(s, q, disk, saved)
              ELSE /\ incoming' = [incoming EXCEPT ![s] = q]
                   /\ UNCHANGED <<disk, saved>>
    /\ UNCHANGED <<offered, pending, fileQ, worker, wire>>

(* The stream of the front file is closed on this content and the next starts. *)
CloseFront(s, content) ==
    LET e == Head(incoming[s])
    IN  StartNextIncoming(s, Tail(incoming[s]),
                          [disk EXCEPT ![Dest[e.t]] = content],
                          [saved EXCEPT ![e.t] = content])

(* A chunk written into the front file: it goes on, or the file is closed   *)
(* because it has reached or passed its size, or because the write failed.  *)
WriteChunk(s, c) ==
    LET e == Head(incoming[s])
        got == e.got + c.len
        content == Append(disk[Dest[e.t]], c)
    IN  \/ "write" \in Faults /\ CloseFront(s, disk[Dest[e.t]])
        \/ Complete(e, got) /\ CloseFront(s, content)
        \/ /\ ~Complete(e, got)
           /\ incoming' = [incoming EXCEPT ![s] = [@ EXCEPT ![1].got = got]]
           /\ disk' = [disk EXCEPT ![Dest[e.t]] = content]
           /\ UNCHANGED saved

(* OnIncomingChunk: without an open file at the front the chunk is dropped. *)
OnIncomingChunk(s) ==
    /\ wire[s] # <<>>
    /\ wire' = [wire EXCEPT ![s] = Tail(@)]
    /\ IF incoming[s] # <<>> /\ Head(incoming[s]).open
       THEN WriteChunk(s, Head(wire[s]))
       ELSE UNCHANGED receiverVars
    /\ UNCHANGED <<senderVars, toSender>>

----------------------------------------------------------------------------
(* The sender *)

Init ==
    /\ offered = {}
    /\ pending = {}
    /\ toReceiver = [s \in Senders |-> <<>>]
    /\ toSender = [s \in Senders |-> <<>>]
    /\ fileQ = [s \in Senders |-> <<>>]
    /\ worker = [s \in Senders |-> Idle]
    /\ wire = [s \in Senders |-> <<>>]
    /\ incoming = [s \in Senders |-> <<>>]
    /\ disk = [d \in Dests |-> Missing]
    /\ saved = [t \in Transfers |-> Missing]

(* SendFileOffer: the offer is registered under its uuid and sent. *)
SendFileOffer(t) ==
    /\ t \notin offered
    /\ offered' = offered \cup {t}
    /\ pending' = pending \cup {t}
    /\ toReceiver' = [toReceiver EXCEPT ![From[t]] = Append(@, t)]
    /\ UNCHANGED <<toSender, fileQ, worker, wire, receiverVars>>

(* OnFileAccept: TakePendingOffer, then the file goes to the worker's queue, *)
(* or nowhere when a drop has left no data channel.                          *)
OnFileAccept(s) ==
    /\ toSender[s] # <<>> /\ Head(toSender[s]).accept
    /\ toSender' = [toSender EXCEPT ![s] = Tail(@)]
    /\ LET t == Head(toSender[s]).t
       IN  /\ pending' = pending \ {t}
           /\ \/ t \in pending /\ fileQ' = [fileQ EXCEPT ![s] = Append(@, t)]
              \/ (t \notin pending \/ "drop" \in Faults) /\ UNCHANGED fileQ
    /\ UNCHANGED <<offered, toReceiver, worker, wire, receiverVars>>

(* OnFileReject: TakePendingOffer, nothing to send. *)
OnFileReject(s) ==
    /\ toSender[s] # <<>> /\ ~Head(toSender[s]).accept
    /\ toSender' = [toSender EXCEPT ![s] = Tail(@)]
    /\ pending' = pending \ {Head(toSender[s]).t}
    /\ UNCHANGED <<offered, toReceiver, fileQ, worker, wire, receiverVars>>

(* The lengths the worker may find a file to have. *)
ReadLengths(src) ==
    {Length[src]} \cup (IF "resized" \in Faults THEN {Length[src] - 1, Length[src] + 1} \cap Nat
                        ELSE {})

(* The worker takes the next accepted file; one it cannot open it skips. *)
TakeFile(s) ==
    /\ worker[s] = Idle /\ fileQ[s] # <<>>
    /\ fileQ' = [fileQ EXCEPT ![s] = Tail(@)]
    /\ \/ \E len \in ReadLengths(Source[Head(fileQ[s])]) :
             worker' = [worker EXCEPT ![s] = [t |-> Head(fileQ[s]), len |-> len, sent |-> 0]]
       \/ "unreadable" \in Faults /\ UNCHANGED worker
    /\ UNCHANGED <<offered, pending, toReceiver, toSender, wire, receiverVars>>

(* The worker reads a buffer and sends it. *)
SendChunk(s) ==
    LET w == worker[s]
        pieces == Cut(Source[w.t], w.len)
    IN  /\ w # Idle /\ w.sent < Len(pieces)
        /\ wire' = [wire EXCEPT ![s] = Append(@, pieces[w.sent + 1])]
        /\ worker' = [worker EXCEPT ![s].sent = @ + 1]
        /\ UNCHANGED <<offered, pending, toReceiver, toSender, fileQ, receiverVars>>

(* The end of the file: SendFileComplete, which the receiver only logs. *)
FinishFile(s) ==
    /\ worker[s] # Idle
    /\ worker[s].sent = Len(Cut(Source[worker[s].t], worker[s].len))
    /\ worker' = [worker EXCEPT ![s] = Idle]
    /\ UNCHANGED <<offered, pending, toReceiver, toSender, fileQ, wire, receiverVars>>

(* OnMessageClose of a sender, which clears its data channels, and the new  *)
(* channel of the session that follows.  m_pendingOffers is kept, and so is *)
(* all of the receiver's m_incomingFiles.  Offers the server has passed on  *)
(* may still arrive.                                                        *)
Drop(s) ==
    /\ "drop" \in Faults
    /\ toReceiver' \in {toReceiver, [toReceiver EXCEPT ![s] = <<>>]}
    /\ toSender' = [toSender EXCEPT ![s] = <<>>]
    /\ fileQ' = [fileQ EXCEPT ![s] = <<>>]
    /\ worker' = [worker EXCEPT ![s] = Idle]
    /\ wire' = [wire EXCEPT ![s] = <<>>]
    /\ UNCHANGED <<offered, pending, receiverVars>>

----------------------------------------------------------------------------
SenderStep(s) == OnFileAccept(s) \/ OnFileReject(s) \/ TakeFile(s) \/ SendChunk(s) \/ FinishFile(s)

ReceiverStep(s) == OnFileOffer(s) \/ OnIncomingChunk(s)

Next ==
    \/ \E t \in Transfers : SendFileOffer(t)
    \/ \E s \in Senders : SenderStep(s) \/ ReceiverStep(s) \/ Drop(s)

Spec == Init /\ [][Next]_vars

(* The callback threads and the worker threads keep running. *)
FairSpec ==
    /\ Spec
    /\ \A s \in Senders :
          /\ WF_vars(OnFileAccept(s)) /\ WF_vars(OnFileReject(s))
          /\ WF_vars(TakeFile(s) \/ SendChunk(s) \/ FinishFile(s))
          /\ WF_vars(OnFileOffer(s)) /\ WF_vars(OnIncomingChunk(s))

----------------------------------------------------------------------------
(* Properties *)

Piece == [src : {Source[t] : t \in Transfers}, at : Nat, len : Nat]

Contents == Seq(Piece) \cup {Missing}

(* The variables have the types of the queues and files they stand for. *)
TypeOK ==
    /\ offered \subseteq Transfers
    /\ pending \subseteq Transfers
    /\ toReceiver \in [Senders -> Seq(Transfers)]
    /\ toSender \in [Senders -> Seq([t : Transfers, accept : BOOLEAN])]
    /\ fileQ \in [Senders -> Seq(Transfers)]
    /\ worker \in [Senders -> [t : Transfers, len : Nat, sent : Nat] \cup {Idle}]
    /\ wire \in [Senders -> Seq(Piece)]
    /\ incoming \in [Senders -> Seq([t : Transfers, got : Nat, open : BOOLEAN])]
    /\ disk \in [Dests -> Contents]
    /\ saved \in [Transfers -> Contents]

(* Of a sender's incoming files the front one, and only it, is open: what   *)
(* OnFileOffer's test of the queue's size and OnIncomingChunk's use of the  *)
(* front rest on.                                                           *)
FrontOnlyOpen ==
    \A s \in Senders : \A i \in DOMAIN incoming[s] : incoming[s][i].open <=> i = 1

(* Two senders never write the same destination (FileLock, Acquire before   *)
(* the stream is opened).                                                   *)
OneWriterPerFile ==
    \A s, o \in Senders :
        /\ s # o
        /\ incoming[s] # <<>> /\ Head(incoming[s]).open
        /\ incoming[o] # <<>> /\ Head(incoming[o]).open
        => Dest[Head(incoming[s]).t] # Dest[Head(incoming[o]).t]

(* A file is closed holding exactly what was offered. *)
SavedAsOffered ==
    \A t \in Transfers : saved[t] # Missing => saved[t] = Whole(Source[t])

(* The pieces of a file after the first n. *)
RestOf(t, n) ==
    LET w == Whole(Source[t]) IN SubSeq(w, n + 1, Len(w))

(* What is left of the worker's file. *)
InHand(s) == IF worker[s] = Idle THEN <<>> ELSE RestOf(worker[s].t, worker[s].sent)

(* The pieces of the files of a queue, of those that answers accept, and   *)
(* those a queue of incoming files waits for.                              *)
Queued(q) == FlattenSeq([i \in DOMAIN q |-> Whole(Source[q[i]])])

Granted(m) == IF m.accept THEN Whole(Source[m.t]) ELSE <<>>

Accepted(q) == FlattenSeq([i \in DOMAIN q |-> Granted(q[i])])

Awaited(q) == FlattenSeq([i \in DOMAIN q |-> RestOf(q[i].t, Messages(q[i].got))])

(* What a sender has accepted to send, in order: the chunks on the channel, *)
(* the rest of the worker's file, its queue, and the accepts on their way.  *)
Coming(s) == wire[s] \o InHand(s) \o Queued(fileQ[s]) \o Accepted(toSender[s])

(* What the receiver waits for from a sender, in order. *)
Expected(s) == Awaited(incoming[s])

(* What is on its way from a sender is exactly what the receiver's queue    *)
(* waits for, piece by piece, although no chunk names its file.             *)
StreamAligned == \A s \in Senders : Coming(s) = Expected(s)

(* The transfer that has each destination open. *)
Writer ==
    [d \in Dests |->
        LET busy == {s \in Senders : incoming[s] # <<>> /\ Dest[Head(incoming[s]).t] = d}
        IN  IF busy = {} THEN NoTransfer ELSE Head(incoming[CHOOSE s \in busy : TRUE]).t]

Delivery == INSTANCE FileDelivery WITH writer <- Writer

(* The transfer protocol delivers files as FileDelivery promises. *)
Delivers == Delivery!Spec

(* Every offer that is on its way to the receiver ends with the offered     *)
(* file in place: received, or found there already.                         *)
OfferEndsInFile ==
    \A t \in Transfers :
        t \in Range(toReceiver[From[t]])
            ~> (saved[t] # Missing \/ disk[Dest[t]] = Whole(Source[t]))
============================================================================
