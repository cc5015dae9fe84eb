------------------------- MODULE FileTransferProofs -------------------------
(* What the transfer protocol guarantees at the receiver whatever files    *)
(* are sent and whichever faults happen.                                   *)
EXTENDS FileTransfer, StreamLemmas

(* A file of any length is cut into a natural number of messages. *)
LEMMA MessagesNat ==
    ASSUME NEW len \in Nat
    PROVE  /\ Messages(len) \in Nat
           /\ Messages(len) * MaxMessage <= len + MaxMessage - 1
BY ConstantsAssumption DEF Messages

(* Multiplication by a natural number is monotone. *)
LEMMA TimesMonotone ==
    ASSUME NEW a \in Nat, NEW b \in Nat, a <= b, NEW m \in Nat
    PROVE  a * m <= b * m
OBVIOUS

(* The read loop cuts a file into well-formed pieces. *)
LEMMA CutType ==
    ASSUME NEW t \in Transfers, NEW len \in Nat
    PROVE  Cut(Source[t], len) \in Seq(Piece)
<1> USE ConstantsAssumption
<1> DEFINE piece(i) ==
              [src |-> Source[t], at |-> (i - 1) * MaxMessage,
               len |-> IF len - (i - 1) * MaxMessage < MaxMessage
                       THEN len - (i - 1) * MaxMessage ELSE MaxMessage]
<1>1. ASSUME NEW i \in 1 .. Messages(len)
      PROVE  piece(i) \in Piece
  <2>1. Messages(len) \in Nat /\ Messages(len) * MaxMessage <= len + MaxMessage - 1
    BY MessagesNat
  <2>2. i - 1 \in Nat /\ i \in Nat /\ i <= Messages(len)
    BY <2>1
  <2>3. i * MaxMessage <= Messages(len) * MaxMessage
    BY <2>1, <2>2, TimesMonotone
  <2>4. (i - 1) * MaxMessage \in Nat /\ i * MaxMessage \in Nat
    BY <2>2
  <2>5. (i - 1) * MaxMessage = i * MaxMessage - MaxMessage
    BY <2>2
  <2>6. Messages(len) * MaxMessage \in Nat
    BY <2>1
  <2>7. (i - 1) * MaxMessage <= len
    BY <2>1, <2>3, <2>4, <2>5, <2>6
  <2>8. QED
    BY <2>4, <2>7 DEF Piece
<1>2. Cut(Source[t], len) = [i \in 1 .. Messages(len) |-> piece(i)]
  BY DEF Cut
<1>3. Messages(len) \in Nat
  BY MessagesNat
<1> HIDE DEF piece
<1>4. QED
  BY <1>1, <1>2, <1>3

----------------------------------------------------------------------------
IncomingFile == [t : Transfers, got : Nat, open : BOOLEAN]

(* Dropping the first k files of a queue of closed files and opening the   *)
(* next leaves exactly the front open.                                     *)
LEMMA StartedShape ==
    ASSUME NEW q \in Seq(IncomingFile), NEW k \in 0 .. Len(q),
           \A i \in DOMAIN q : ~q[i].open
    PROVE  /\ Started(q, k) \in Seq(IncomingFile)
           /\ \A i \in DOMAIN Started(q, k) : Started(q, k)[i].open <=> i = 1
           /\ k = Len(q) => Started(q, k) = <<>>
           /\ k < Len(q) => Started(q, k) # <<>> /\ Head(Started(q, k)).t = q[k + 1].t
<1> DEFINE file(i) == IF i = 1 THEN [q[k + 1] EXCEPT !.open = TRUE] ELSE q[k + i]
<1>1. Len(q) \in Nat /\ Len(q) - k \in Nat
  OBVIOUS
<1>2. ASSUME NEW i \in 1 .. Len(q) - k
      PROVE  /\ file(i) \in IncomingFile
             /\ file(i).open <=> i = 1
             /\ i = 1 => file(i).t = q[k + 1].t
  <2>1. k + i \in DOMAIN q /\ (i = 1 => k + 1 \in DOMAIN q)
    OBVIOUS
  <2>2. q[k + i] \in IncomingFile
    BY <2>1
  <2>3. QED
    BY <2>1, <2>2 DEF IncomingFile
<1>3. Started(q, k) = [i \in 1 .. Len(q) - k |-> file(i)]
  BY DEF Started
<1> HIDE DEF file
<1>4. Started(q, k) \in Seq(IncomingFile) /\ Len(Started(q, k)) = Len(q) - k
  BY <1>1, <1>2, <1>3
<1>5. \A i \in DOMAIN Started(q, k) : Started(q, k)[i].open <=> i = 1
  BY <1>1, <1>2, <1>3
<1>6. k = Len(q) => Started(q, k) = <<>>
  BY <1>4
<1>7. ASSUME k < Len(q)
      PROVE  Started(q, k) # <<>> /\ Head(Started(q, k)).t = q[k + 1].t
  <2>1. 1 \in 1 .. Len(q) - k
    BY <1>1, <1>7
  <2>2. Len(Started(q, k)) > 0 /\ Head(Started(q, k)) = Started(q, k)[1]
    BY <1>4, <1>7
  <2>3. file(1).t = q[k + 1].t
    BY <1>2, <2>1
  <2>4. Started(q, k)[1] = file(1)
    BY <1>3, <2>1
  <2>5. QED
    BY <2>2, <2>3, <2>4
<1>8. QED
  BY <1>4, <1>5, <1>6, <1>7

(* The destination of a sender's front file exists. *)
FrontExists ==
    \A s \in Senders :
        incoming[s] # <<>> => disk[Dest[Head(incoming[s]).t]] \in Seq(Piece)

(* The strengthening of OneWriterPerFile that is inductive. *)
Inv == TypeOK /\ FrontOnlyOpen /\ FrontExists /\ OneWriterPerFile

(* What every step of the receiver does for sender s: only s's queue        *)
(* changes, its front alone is open, the destination of the front exists,   *)
(* and the front is the one it was or one no other sender has open.         *)
QueueStep(s) ==
    /\ incoming' \in [Senders -> Seq(IncomingFile)]
    /\ disk' \in [Dests -> Contents]
    /\ saved' \in [Transfers -> Contents]
    /\ \A o \in Senders \ {s} : incoming'[o] = incoming[o]
    /\ \A i \in DOMAIN incoming'[s] : incoming'[s][i].open <=> i = 1
    /\ \A d \in Dests : disk[d] \in Seq(Piece) => disk'[d] \in Seq(Piece)
    /\ incoming'[s] # <<>> =>
          /\ disk'[Dest[Head(incoming'[s]).t]] \in Seq(Piece)
          /\ \/ ~Contended(s, Dest[Head(incoming'[s]).t])
             \/ incoming[s] # <<>> /\ Head(incoming'[s]).t = Head(incoming[s]).t

(* Every step of StartNextIncoming on a queue of closed files keeps the    *)
(* types, leaves exactly the front of the queue open, and opens a          *)
(* destination only when no other sender has it open.                      *)
LEMMA StartNextShape ==
    ASSUME TypeOK, NEW s \in Senders, NEW q \in Seq(IncomingFile),
           \A i \in DOMAIN q : ~q[i].open,
           NEW disk0 \in [Dests -> Contents], NEW saved0 \in [Transfers -> Contents],
           \A d \in Dests : disk[d] \in Seq(Piece) => disk0[d] \in Seq(Piece),
           StartNextIncoming(s, q, disk0, saved0)
    PROVE  QueueStep(s)
<1>1. PICK k \in 0 .. Len(q), refused \in SUBSET (1 .. Len(q)) :
         /\ k < Len(q) => ~Contended(s, Dest[q[k + 1].t])
         /\ incoming' = [incoming EXCEPT ![s] = Started(q, k)]
         /\ disk' = [d \in Dests |->
                        IF \E i \in ((1 .. k) \ refused) \cup (IF k < Len(q) THEN {k + 1} ELSE {}) :
                              Dest[q[i].t] = d
                        THEN Opened(disk0[d]) ELSE disk0[d]]
         /\ saved' = [t \in Transfers |-> IF \E i \in (1 .. k) \ refused : q[i].t = t
                                          THEN <<>> ELSE saved0[t]]
  BY Zenon DEF StartNextIncoming
<1>2. /\ Started(q, k) \in Seq(IncomingFile)
      /\ \A i \in DOMAIN Started(q, k) : Started(q, k)[i].open <=> i = 1
      /\ k = Len(q) => Started(q, k) = <<>>
      /\ k < Len(q) => Started(q, k) # <<>> /\ Head(Started(q, k)).t = q[k + 1].t
  BY StartedShape
<1>3. <<>> \in Seq(Piece) /\ <<>> \in Contents
  BY DEF Contents
<1>4. disk' \in [Dests -> Contents]
  BY <1>1, <1>3 DEF Opened
<1>5. saved' \in [Transfers -> Contents]
  BY <1>1, <1>3
<1>6. incoming' \in [Senders -> Seq(IncomingFile)] /\ incoming'[s] = Started(q, k)
  BY <1>1, <1>2 DEF TypeOK, IncomingFile
<1>7. \A o \in Senders \ {s} : incoming'[o] = incoming[o]
  BY <1>1 DEF TypeOK
<1>8. \A d \in Dests : disk[d] \in Seq(Piece) => disk'[d] \in Seq(Piece)
  BY <1>1, <1>3 DEF Opened
<1>9. ASSUME incoming'[s] # <<>>
      PROVE  /\ disk'[Dest[Head(incoming'[s]).t]] \in Seq(Piece)
             /\ ~Contended(s, Dest[Head(incoming'[s]).t])
  <2>1. Len(q) \in Nat /\ k < Len(q)
    BY <1>2, <1>6, <1>9
  <2>2. Head(incoming'[s]).t = q[k + 1].t
    BY <1>2, <1>6, <2>1
  <2>3. k + 1 \in DOMAIN q
    BY <2>1
  <2>4. Dest[q[k + 1].t] \in Dests
    <3>1. q[k + 1] \in IncomingFile
      BY <2>3
    <3>2. q[k + 1].t \in Transfers
      BY <3>1 DEF IncomingFile
    <3>3. QED
      BY <3>2 DEF Dests
  <2>5. disk'[Dest[q[k + 1].t]] = <<>>
    <3> DEFINE d == Dest[q[k + 1].t]
               opened == ((1 .. k) \ refused) \cup (IF k < Len(q) THEN {k + 1} ELSE {})
    <3>1. \E i \in opened : Dest[q[i].t] = d
      BY <2>1
    <3>2. disk'[d] = IF \E i \in opened : Dest[q[i].t] = d THEN Opened(disk0[d]) ELSE disk0[d]
      BY <1>1, <2>4, Zenon
    <3>3. QED
      BY <3>1, <3>2 DEF Opened
  <2>6. QED
    BY <1>1, <1>3, <2>1, <2>2, <2>5
<1>10. QED
  BY <1>2, <1>4, <1>5, <1>6, <1>7, <1>8, <1>9 DEF QueueStep

----------------------------------------------------------------------------
(* The queue behind the front, whose file has just been closed. *)
LEMMA TailShape ==
    ASSUME NEW q \in Seq(IncomingFile), q # <<>>,
           \A i \in DOMAIN q : q[i].open <=> i = 1
    PROVE  /\ Tail(q) \in Seq(IncomingFile)
           /\ \A i \in DOMAIN Tail(q) : ~Tail(q)[i].open
           /\ Head(q) \in IncomingFile
           /\ Head(q).open
<1>1. Tail(q) \in Seq(IncomingFile) /\ Len(Tail(q)) = Len(q) - 1 /\ Len(q) > 0
  OBVIOUS
<1>2. \A i \in DOMAIN Tail(q) : Tail(q)[i] = q[i + 1] /\ i + 1 \in DOMAIN q /\ i + 1 # 1
  BY <1>1
<1>3. Head(q) = q[1] /\ 1 \in DOMAIN q
  BY <1>1
<1>4. QED
  BY <1>1, <1>2, <1>3

(* The front file of a sender: its type, and what its destination holds. *)
LEMMA FrontShape ==
    ASSUME Inv, NEW s \in Senders, incoming[s] # <<>>
    PROVE  /\ incoming[s] \in Seq(IncomingFile)
           /\ Head(incoming[s]) \in IncomingFile
           /\ Dest[Head(incoming[s]).t] \in Dests
           /\ disk[Dest[Head(incoming[s]).t]] \in Seq(Piece)
<1>1. incoming[s] \in Seq(IncomingFile)
  BY DEF Inv, TypeOK, IncomingFile
<1>2. Head(incoming[s]) \in IncomingFile
  BY <1>1, TailShape DEF Inv, FrontOnlyOpen
<1>3. QED
  BY <1>1, <1>2 DEF IncomingFile, Dests, Inv, FrontExists

(* Closing the front file. *)
LEMMA CloseFrontStep ==
    ASSUME Inv, NEW s \in Senders, NEW content \in Seq(Piece),
           incoming[s] # <<>>, CloseFront(s, content)
    PROVE  QueueStep(s)
<1> DEFINE e == Head(incoming[s])
           disk0 == [disk EXCEPT ![Dest[e.t]] = content]
           saved0 == [saved EXCEPT ![e.t] = content]
<1>1. incoming[s] \in Seq(IncomingFile) /\ e \in IncomingFile
  BY FrontShape
<1>2. /\ Tail(incoming[s]) \in Seq(IncomingFile)
      /\ \A i \in DOMAIN Tail(incoming[s]) : ~Tail(incoming[s])[i].open
  BY <1>1, TailShape DEF Inv, FrontOnlyOpen
<1>3. disk0 \in [Dests -> Contents] /\ saved0 \in [Transfers -> Contents]
  BY <1>1 DEF Inv, TypeOK, IncomingFile, Contents
<1>4. \A d \in Dests : disk[d] \in Seq(Piece) => disk0[d] \in Seq(Piece)
  BY DEF Inv, TypeOK
<1>5. StartNextIncoming(s, Tail(incoming[s]), disk0, saved0)
  BY DEF CloseFront
<1> HIDE DEF disk0, saved0, e
<1>6. QED
  BY <1>2, <1>3, <1>4, <1>5, StartNextShape DEF Inv

(* Writing a chunk into the open front file. *)
LEMMA WriteChunkStep ==
    ASSUME Inv, NEW s \in Senders, NEW c \in Piece,
           incoming[s] # <<>>, WriteChunk(s, c)
    PROVE  QueueStep(s)
<1> DEFINE e == Head(incoming[s])
           got == e.got + c.len
           content == Append(disk[Dest[e.t]], c)
           q == [incoming[s] EXCEPT ![1].got = got]
<1>1. /\ incoming[s] \in Seq(IncomingFile)
      /\ e \in IncomingFile
      /\ Dest[e.t] \in Dests
      /\ disk[Dest[e.t]] \in Seq(Piece)
  BY FrontShape
<1>2. content \in Seq(Piece)
  BY <1>1
<1>3. CASE CloseFront(s, disk[Dest[e.t]])
  BY <1>1, <1>3, CloseFrontStep
<1>4. CASE CloseFront(s, content)
  BY <1>2, <1>4, CloseFrontStep
<1>5. CASE /\ incoming' = [incoming EXCEPT ![s] = q]
           /\ disk' = [disk EXCEPT ![Dest[e.t]] = content]
           /\ UNCHANGED saved
  <2>1. got \in Nat
    BY <1>1 DEF IncomingFile, Piece
  <2>2. e = incoming[s][1] /\ 1 \in DOMAIN incoming[s]
    BY <1>1
  <2>3. q \in Seq(IncomingFile) /\ DOMAIN q = DOMAIN incoming[s] /\ q # <<>>
    BY <1>1, <2>1, <2>2 DEF IncomingFile
  <2>4. \A i \in DOMAIN q : q[i].open = incoming[s][i].open /\ q[i].t = incoming[s][i].t
    BY <1>1, <2>3 DEF IncomingFile
  <2>5. Head(q).t = e.t
    <3>1. 1 \in DOMAIN q
      BY <2>2, <2>3, Zenon
    <3>2. q[1].t = incoming[s][1].t
      BY <2>4, <3>1, Zenon
    <3> HIDE DEF q, e
    <3>3. Head(q) = q[1]
      BY <2>3
    <3>4. QED
      BY <2>2, <3>2, <3>3, Zenon
  <2> HIDE DEF q, content, e
  <2>6. incoming' \in [Senders -> Seq(IncomingFile)] /\ incoming'[s] = q
    BY <1>5, <2>3 DEF Inv, TypeOK, IncomingFile
  <2>7. \A o \in Senders \ {s} : incoming'[o] = incoming[o]
    BY <1>5 DEF Inv, TypeOK
  <2>8. /\ disk' \in [Dests -> Contents]
        /\ disk'[Dest[e.t]] \in Seq(Piece)
        /\ \A d \in Dests : disk[d] \in Seq(Piece) => disk'[d] \in Seq(Piece)
    BY <1>1, <1>2, <1>5 DEF Inv, TypeOK, Contents
  <2>9. saved' \in [Transfers -> Contents]
    BY <1>5 DEF Inv, TypeOK
  <2>10. \A i \in DOMAIN incoming'[s] : incoming'[s][i].open <=> i = 1
    BY <2>3, <2>4, <2>6 DEF Inv, FrontOnlyOpen
  <2>11. QED
    BY <2>5, <2>6, <2>7, <2>8, <2>9, <2>10 DEF QueueStep, e
<1>6. QED
  BY <1>3, <1>4, <1>5 DEF WriteChunk

(* Handling an offer. *)
LEMMA OnFileOfferStep ==
    ASSUME Inv, NEW s \in Senders, OnFileOffer(s), ~UNCHANGED receiverVars
    PROVE  QueueStep(s)
<1> DEFINE t == Head(toReceiver[s])
           q == Append(incoming[s], Entry(t))
<1>1. t \in Transfers
  BY DEF OnFileOffer, Inv, TypeOK
<1>2. Entry(t) \in IncomingFile /\ ~Entry(t).open
  BY <1>1 DEF Entry, IncomingFile
<1>3. incoming[s] \in Seq(IncomingFile)
  BY DEF Inv, TypeOK, IncomingFile
<1>4. PICK n \in Nat : n = Len(incoming[s])
  BY <1>3
<1>5. /\ q \in Seq(IncomingFile)
      /\ Len(q) = n + 1
      /\ DOMAIN q = 1 .. n + 1
      /\ q[n + 1] = Entry(t)
      /\ \A i \in 1 .. n : i \in DOMAIN incoming[s] /\ q[i] = incoming[s][i]
  BY <1>2, <1>3, <1>4
<1> HIDE DEF q, t
<1>6. CASE Len(q) = 1 /\ StartNextIncoming(s, q, disk, saved)
  <2>1. n = 0
    <3>1. n + 1 = 1
      BY <1>5, <1>6, Zenon
    <3>2. QED
      BY <3>1
  <2>2. \A i \in DOMAIN q : ~q[i].open
    <3>1. DOMAIN q = {1} /\ q[1] = Entry(t)
      BY <1>5, <2>1
    <3>2. QED
      BY <1>2, <3>1
  <2>3. QED
    BY <1>5, <1>6, <2>2, StartNextShape DEF Inv, TypeOK
<1>7. CASE /\ Len(q) # 1
           /\ incoming' = [incoming EXCEPT ![s] = q]
           /\ UNCHANGED <<disk, saved>>
  <2>1. n > 0
    <3>1. n + 1 # 1
      BY <1>5, <1>7, Zenon
    <3>2. QED
      BY <3>1
  <2>2. \A i \in DOMAIN q : q[i].open <=> i = 1
    BY <1>2, <1>5, <2>1 DEF Inv, FrontOnlyOpen
  <2>3. incoming[s] # <<>> /\ Head(incoming[s]) = incoming[s][1]
    BY <1>3, <1>4, <2>1
  <2>4. Head(q) = Head(incoming[s])
    <3>1. Head(q) = q[1] /\ q[1] = incoming[s][1]
      BY <1>5, <2>1
    <3>2. QED
      BY <2>3, <3>1
  <2>5. incoming' \in [Senders -> Seq(IncomingFile)] /\ incoming'[s] = q
    BY <1>5, <1>7 DEF Inv, TypeOK, IncomingFile
  <2>6. \A o \in Senders \ {s} : incoming'[o] = incoming[o]
    BY <1>7 DEF Inv, TypeOK
  <2>7. disk[Dest[Head(incoming[s]).t]] \in Seq(Piece)
    BY <2>3 DEF Inv, FrontExists
  <2>8. QED
    BY <1>7, <2>2, <2>3, <2>4, <2>5, <2>6, <2>7 DEF QueueStep, Inv, TypeOK
<1>8. QED
  BY <1>6, <1>7 DEF OnFileOffer, StartsAlone, Enqueued, q, t

(* A step of the receiver for one sender keeps the invariant. *)
LEMMA QueueStepKeeps ==
    ASSUME Inv, NEW s \in Senders, QueueStep(s)
    PROVE  FrontOnlyOpen' /\ FrontExists' /\ OneWriterPerFile'
<1>1. FrontOnlyOpen'
  BY DEF QueueStep, Inv, FrontOnlyOpen
<1>2. ASSUME NEW o \in Senders, incoming'[o] # <<>>
      PROVE  disk'[Dest[Head(incoming'[o]).t]] \in Seq(Piece)
  <2>1. CASE o = s
    BY <1>2, <2>1 DEF QueueStep
  <2>2. CASE o # s
    <3>1. incoming'[o] = incoming[o]
      BY <2>2 DEF QueueStep
    <3>2. /\ Dest[Head(incoming[o]).t] \in Dests
          /\ disk[Dest[Head(incoming[o]).t]] \in Seq(Piece)
      BY <1>2, <3>1, FrontShape
    <3>3. QED
      BY <3>1, <3>2 DEF QueueStep
  <2>3. QED
    BY <2>1, <2>2
<1>3. FrontExists'
  BY <1>2 DEF FrontExists
(* A new front of s meets no open file of another sender. *)
<1>4. ASSUME NEW o \in Senders, o # s, incoming'[s] # <<>>, incoming'[o] # <<>>
      PROVE  Dest[Head(incoming'[s]).t] # Dest[Head(incoming'[o]).t]
  <2>1. incoming'[o] = incoming[o] /\ incoming[o] # <<>>
    BY <1>4 DEF QueueStep
  <2>2. incoming[o] \in Seq(IncomingFile) /\ Head(incoming[o]).open
    BY <2>1, FrontShape, TailShape DEF Inv, FrontOnlyOpen
  <2>3. CASE ~Contended(s, Dest[Head(incoming'[s]).t])
    BY <1>4, <2>1, <2>2, <2>3 DEF Contended
  <2>4. CASE incoming[s] # <<>> /\ Head(incoming'[s]).t = Head(incoming[s]).t
    <3>1. Head(incoming[s]).open
      BY <2>4, FrontShape, TailShape DEF Inv, FrontOnlyOpen
    <3>2. Dest[Head(incoming[s]).t] # Dest[Head(incoming[o]).t]
      BY <1>4, <2>1, <2>2, <2>4, <3>1 DEF Inv, OneWriterPerFile
    <3>3. QED
      BY <2>1, <2>4, <3>2
  <2>5. QED
    BY <1>4, <2>3, <2>4 DEF QueueStep
<1>5. OneWriterPerFile'
  <2> SUFFICES ASSUME NEW x \in Senders, NEW y \in Senders, x # y,
                      incoming'[x] # <<>>, incoming'[y] # <<>>
               PROVE  Dest[Head(incoming'[x]).t] # Dest[Head(incoming'[y]).t]
    BY DEF OneWriterPerFile
  <2>1. CASE x = s
    BY <1>4, <2>1
  <2>2. CASE y = s
    BY <1>4, <2>2
  <2>3. CASE x # s /\ y # s
    <3>1. incoming'[x] = incoming[x] /\ incoming'[y] = incoming[y]
      BY <2>3 DEF QueueStep
    <3>2. Head(incoming[x]).open /\ Head(incoming[y]).open
      BY <3>1, FrontShape, TailShape DEF Inv, FrontOnlyOpen
    <3>3. QED
      BY <3>1, <3>2 DEF Inv, OneWriterPerFile
  <2>4. QED
    BY <2>1, <2>2, <2>3
<1>6. QED
  BY <1>1, <1>3, <1>5

(* A step that leaves the receiver's variables alone keeps what they say.  *)
LEMMA ReceiverUnchanged ==
    ASSUME Inv, UNCHANGED receiverVars
    PROVE  FrontOnlyOpen' /\ FrontExists' /\ OneWriterPerFile'
BY DEF Inv, receiverVars, FrontOnlyOpen, FrontExists, OneWriterPerFile

----------------------------------------------------------------------------
(* The types of the sender's and the network's variables. *)
SenderTypes ==
    /\ offered \subseteq Transfers
    /\ pending \subseteq Transfers
    /\ toReceiver \in [Senders -> Seq(Transfers)]
    /\ toSender \in [Senders -> Seq([t : Transfers, accept : BOOLEAN])]
    /\ fileQ \in [Senders -> Seq(Transfers)]
    /\ worker \in [Senders -> [t : Transfers, len : Nat, sent : Nat] \cup {Idle}]
    /\ wire \in [Senders -> Seq(Piece)]

(* The initial state satisfies the invariant. *)
LEMMA InitInv == Init => Inv
<1> SUFFICES ASSUME Init PROVE Inv
  OBVIOUS
<1>1. TypeOK
  BY DEF Init, TypeOK, Contents, Idle
<1>2. FrontOnlyOpen /\ FrontExists /\ OneWriterPerFile
  BY DEF Init, FrontOnlyOpen, FrontExists, OneWriterPerFile
<1>3. QED
  BY <1>1, <1>2 DEF Inv

(* Sending an offer. *)
LEMMA SendFileOfferTypes ==
    ASSUME Inv, NEW t \in Transfers, SendFileOffer(t)
    PROVE  SenderTypes' /\ UNCHANGED receiverVars
<1>1. From[t] \in Senders
  BY ConstantsAssumption
<1>2. toReceiver' \in [Senders -> Seq(Transfers)]
  BY <1>1 DEF SendFileOffer, Inv, TypeOK
<1>3. QED
  BY <1>2 DEF SendFileOffer, Inv, TypeOK, SenderTypes, receiverVars

(* The answers to an offer. *)
LEMMA AnswerTypes ==
    ASSUME Inv, NEW s \in Senders, OnFileAccept(s) \/ OnFileReject(s)
    PROVE  SenderTypes' /\ UNCHANGED receiverVars
<1> DEFINE Answer == [t : Transfers, accept : BOOLEAN]
           m == Head(toSender[s])
<1>1. toSender \in [Senders -> Seq(Answer)] /\ toSender[s] # <<>>
  BY DEF OnFileAccept, OnFileReject, Inv, TypeOK
<1> HIDE DEF Answer
<1>2. m \in Answer /\ Tail(toSender[s]) \in Seq(Answer)
  BY <1>1
<1>3. m.t \in Transfers
  BY <1>2 DEF Answer
<1> HIDE DEF m
<1>4. toSender' = [toSender EXCEPT ![s] = Tail(toSender[s])]
  BY DEF OnFileAccept, OnFileReject
<1>5. toSender' \in [Senders -> Seq(Answer)]
  BY <1>1, <1>2, <1>4
<1>6. fileQ' = fileQ \/ fileQ' = [fileQ EXCEPT ![s] = Append(fileQ[s], m.t)]
  BY DEF OnFileAccept, OnFileReject, m
<1>7. fileQ' \in [Senders -> Seq(Transfers)]
  <2>1. fileQ \in [Senders -> Seq(Transfers)]
    BY DEF Inv, TypeOK
  <2>2. Append(fileQ[s], m.t) \in Seq(Transfers)
    BY <1>3, <2>1
  <2>3. QED
    BY <1>6, <2>1, <2>2
<1>8. pending' = pending \ {m.t}
  BY DEF OnFileAccept, OnFileReject, m
<1>9. UNCHANGED <<offered, toReceiver, worker, wire, receiverVars>>
  BY DEF OnFileAccept, OnFileReject
<1>10. QED
  BY <1>5, <1>7, <1>8, <1>9 DEF Answer, Inv, TypeOK, SenderTypes

(* The worker thread. *)
LEMMA WorkerTypes ==
    ASSUME Inv, NEW s \in Senders, TakeFile(s) \/ SendChunk(s) \/ FinishFile(s)
    PROVE  SenderTypes' /\ UNCHANGED receiverVars
<1> DEFINE Job == [t : Transfers, len : Nat, sent : Nat] \cup {Idle}
<1>1. CASE TakeFile(s)
  <2>1. Head(fileQ[s]) \in Transfers /\ Tail(fileQ[s]) \in Seq(Transfers)
    BY <1>1 DEF TakeFile, Inv, TypeOK
  <2>2. Length[Source[Head(fileQ[s])]] \in Nat
    BY <2>1, ConstantsAssumption
  <2>3. \A len \in ReadLengths(Source[Head(fileQ[s])]) : len \in Nat
    BY <2>2 DEF ReadLengths
  <2>4. worker' \in [Senders -> Job]
    <3>1. worker \in [Senders -> Job]
      BY DEF Inv, TypeOK
    <3>2. CASE UNCHANGED worker
      BY <3>1, <3>2
    <3>3. ASSUME NEW len \in ReadLengths(Source[Head(fileQ[s])]),
                 worker' = [worker EXCEPT ![s] = [t |-> Head(fileQ[s]), len |-> len, sent |-> 0]]
          PROVE  worker' \in [Senders -> Job]
      <4>1. [t |-> Head(fileQ[s]), len |-> len, sent |-> 0] \in Job
        BY <2>1, <2>3
      <4> HIDE DEF Job
      <4>2. QED
        BY <3>1, <3>3, <4>1
    <3>4. QED
      BY <1>1, <3>2, <3>3 DEF TakeFile
  <2>5. fileQ' \in [Senders -> Seq(Transfers)]
    BY <1>1, <2>1 DEF TakeFile, Inv, TypeOK
  <2>6. QED
    BY <1>1, <2>4, <2>5 DEF TakeFile, Inv, TypeOK, SenderTypes, receiverVars
<1>2. CASE SendChunk(s)
  <2> DEFINE w == worker[s]
             pieces == Cut(Source[w.t], w.len)
  <2>1. w \in [t : Transfers, len : Nat, sent : Nat]
    BY <1>2 DEF SendChunk, Inv, TypeOK
  <2>2. w.t \in Transfers /\ w.len \in Nat /\ w.sent \in Nat
    BY <2>1
  <2>3. pieces \in Seq(Piece)
    BY <2>2, CutType
  <2>4. w.sent + 1 \in DOMAIN pieces
    BY <1>2, <2>2, <2>3 DEF SendChunk
  <2>5. pieces[w.sent + 1] \in Piece
    BY <2>3, <2>4
  <2> HIDE DEF pieces
  <2>6. wire' \in [Senders -> Seq(Piece)]
    BY <1>2, <2>5 DEF SendChunk, Inv, TypeOK, pieces
  <2>7. worker' \in [Senders -> Job]
    <3>1. [w EXCEPT !.sent = @ + 1] \in Job
      BY <2>1, <2>2
    <3>2. worker \in [Senders -> Job]
      BY DEF Inv, TypeOK
    <3>3. worker' = [worker EXCEPT ![s] = [w EXCEPT !.sent = @ + 1]]
      BY <1>2 DEF SendChunk
    <3> HIDE DEF Job, w
    <3>4. QED
      BY <3>1, <3>2, <3>3
  <2>8. QED
    BY <1>2, <2>6, <2>7 DEF SendChunk, Inv, TypeOK, SenderTypes, receiverVars
<1>3. CASE FinishFile(s)
  <2>1. Idle \in Job
    BY DEF Idle
  <2>2. worker' \in [Senders -> Job]
    BY <1>3, <2>1 DEF FinishFile, Inv, TypeOK
  <2>3. QED
    BY <1>3, <2>2 DEF FinishFile, Inv, TypeOK, SenderTypes, receiverVars
<1>4. QED
  BY <1>1, <1>2, <1>3

(* The receiver handling an offer or a chunk. *)
LEMMA ReceiverTypes ==
    ASSUME Inv, NEW s \in Senders, OnFileOffer(s) \/ OnIncomingChunk(s)
    PROVE  SenderTypes'
<1>1. CASE OnFileOffer(s)
  <2> DEFINE Answer == [t : Transfers, accept : BOOLEAN]
             t == Head(toReceiver[s])
  <2>1. toReceiver[s] \in Seq(Transfers) /\ toReceiver[s] # <<>>
    BY <1>1 DEF OnFileOffer, Inv, TypeOK
  <2>2. t \in Transfers /\ Tail(toReceiver[s]) \in Seq(Transfers)
    BY <2>1
  <2>3. [t |-> t, accept |-> ~Duplicate(t)] \in Answer
    BY <2>2 DEF Duplicate
  <2>4. toSender \in [Senders -> Seq(Answer)]
    BY DEF Inv, TypeOK
  <2>5. toSender' = [toSender EXCEPT ![s] = Append(@, [t |-> t, accept |-> ~Duplicate(t)])]
    BY <1>1 DEF OnFileOffer
  <2> HIDE DEF Answer
  <2>6. toSender' \in [Senders -> Seq(Answer)]
    BY <2>3, <2>4, <2>5
  <2>7. toReceiver' \in [Senders -> Seq(Transfers)]
    BY <1>1, <2>2 DEF OnFileOffer, Inv, TypeOK
  <2>8. UNCHANGED <<offered, pending, fileQ, worker, wire>>
    BY <1>1 DEF OnFileOffer
  <2>9. QED
    BY <2>6, <2>7, <2>8 DEF Answer, Inv, TypeOK, SenderTypes
<1>2. CASE OnIncomingChunk(s)
  <2>1. wire[s] \in Seq(Piece) /\ wire[s] # <<>>
    BY <1>2 DEF OnIncomingChunk, Inv, TypeOK
  <2>2. wire' \in [Senders -> Seq(Piece)]
    BY <1>2, <2>1 DEF OnIncomingChunk, Inv, TypeOK
  <2>3. QED
    BY <1>2, <2>2 DEF OnIncomingChunk, senderVars, Inv, TypeOK, SenderTypes
<1>3. QED
  BY <1>1, <1>2

(* What the receiver does to its queues, in either of its handlers. *)
LEMMA ReceiverStepShape ==
    ASSUME Inv, NEW s \in Senders, ReceiverStep(s)
    PROVE  UNCHANGED receiverVars \/ QueueStep(s)
<1>1. CASE OnFileOffer(s)
  BY <1>1, OnFileOfferStep
<1>2. CASE OnIncomingChunk(s) /\ ~UNCHANGED receiverVars
  <2>1. wire[s] # <<>> /\ wire[s] \in Seq(Piece)
    BY <1>2 DEF OnIncomingChunk, Inv, TypeOK
  <2>2. Head(wire[s]) \in Piece
    BY <2>1
  <2>3. incoming[s] # <<>> /\ WriteChunk(s, Head(wire[s]))
    BY <1>2 DEF OnIncomingChunk
  <2>4. QED
    BY <2>2, <2>3, WriteChunkStep
<1>3. QED
  BY <1>1, <1>2 DEF ReceiverStep

(* A lost connection empties the sender's queues. *)
LEMMA DropTypes ==
    ASSUME Inv, NEW s \in Senders, Drop(s)
    PROVE  SenderTypes' /\ UNCHANGED receiverVars
<1> DEFINE Answer == [t : Transfers, accept : BOOLEAN]
           Job == [t : Transfers, len : Nat, sent : Nat] \cup {Idle}
<1>1. Idle \in Job
  BY DEF Idle
<1> HIDE DEF Answer, Job
<1>2. toReceiver' \in [Senders -> Seq(Transfers)]
  <2>1. toReceiver' = toReceiver \/ toReceiver' = [toReceiver EXCEPT ![s] = <<>>]
    BY DEF Drop
  <2>2. toReceiver \in [Senders -> Seq(Transfers)] /\ <<>> \in Seq(Transfers)
    BY DEF Inv, TypeOK
  <2>3. QED
    BY <2>1, <2>2
<1>3. toSender' \in [Senders -> Seq(Answer)]
  <2>1. toSender' = [toSender EXCEPT ![s] = <<>>] /\ <<>> \in Seq(Answer)
    BY DEF Drop
  <2>2. toSender \in [Senders -> Seq(Answer)]
    BY DEF Inv, TypeOK, Answer
  <2>3. QED
    BY <2>1, <2>2
<1>4. fileQ' \in [Senders -> Seq(Transfers)]
  BY DEF Drop, Inv, TypeOK
<1>5. worker' \in [Senders -> Job]
  BY <1>1 DEF Drop, Inv, TypeOK, Job
<1>6. wire' \in [Senders -> Seq(Piece)]
  BY DEF Drop, Inv, TypeOK
<1>7. UNCHANGED <<offered, pending, receiverVars>>
  BY DEF Drop
<1>8. QED
  BY <1>2, <1>3, <1>4, <1>5, <1>6, <1>7 DEF Inv, TypeOK, SenderTypes, Answer, Job

(* The types of all variables, put together from a step's parts. *)
LEMMA TypesTogether ==
    ASSUME Inv, SenderTypes',
           UNCHANGED receiverVars \/ \E s \in Senders : QueueStep(s)
    PROVE  Inv'
<1>1. CASE UNCHANGED receiverVars
  <2>1. TypeOK'
    BY <1>1 DEF receiverVars, Inv, TypeOK, SenderTypes
  <2>2. QED
    BY <1>1, <2>1, ReceiverUnchanged DEF Inv
<1>2. ASSUME NEW s \in Senders, QueueStep(s)
      PROVE  Inv'
  <2>1. TypeOK'
    BY <1>2 DEF QueueStep, IncomingFile, TypeOK, SenderTypes
  <2>2. QED
    BY <1>2, <2>1, QueueStepKeeps DEF Inv
<1>3. QED
  BY <1>1, <1>2

----------------------------------------------------------------------------
(* Every step keeps the strengthened invariant. *)
LEMMA InvStep ==
    ASSUME Inv, [Next]_vars
    PROVE  Inv'
<1>1. ASSUME NEW t \in Transfers, SendFileOffer(t) PROVE Inv'
  BY <1>1, SendFileOfferTypes, TypesTogether
<1>2. ASSUME NEW s \in Senders, SenderStep(s) PROVE Inv'
  BY <1>2, AnswerTypes, WorkerTypes, TypesTogether DEF SenderStep
<1>3. ASSUME NEW s \in Senders, ReceiverStep(s) PROVE Inv'
  BY <1>3, ReceiverTypes, ReceiverStepShape, TypesTogether DEF ReceiverStep
<1>4. ASSUME NEW s \in Senders, Drop(s) PROVE Inv'
  BY <1>4, DropTypes, TypesTogether
<1>5. CASE UNCHANGED vars
  <2>1. SenderTypes' /\ UNCHANGED receiverVars
    BY <1>5 DEF vars, receiverVars, SenderTypes, Inv, TypeOK
  <2>2. QED
    BY <2>1, TypesTogether
<1>6. QED
  BY <1>1, <1>2, <1>3, <1>4, <1>5 DEF Next

(* The strengthened invariant holds in every reachable state, whichever    *)
(* faults happen.                                                          *)
THEOREM Invariance == Spec => []Inv
<1>1. Init => Inv
  BY InitInv
<1>2. Inv /\ [Next]_vars => Inv'
  BY InvStep
<1>3. QED
  BY <1>1, <1>2, PTL DEF Spec

(* Every variable keeps its type in every behaviour. *)
THEOREM TypeCorrect == Spec => []TypeOK
<1>1. Inv => TypeOK
  BY DEF Inv
<1>2. QED
  BY <1>1, Invariance, PTL

(* OnIncomingChunk always finds the front of a sender's queue open, and     *)
(* OnFileOffer never leaves a second file open behind it.                   *)
THEOREM OnlyFrontOpen == Spec => []FrontOnlyOpen
<1>1. Inv => FrontOnlyOpen
  BY DEF Inv
<1>2. QED
  BY <1>1, Invariance, PTL

(* No two senders ever write one destination at the same time. *)
THEOREM SingleWriter == Spec => []OneWriterPerFile
<1>1. Inv => OneWriterPerFile
  BY DEF Inv
<1>2. QED
  BY <1>1, Invariance, PTL

----------------------------------------------------------------------------
(* The remaining theorems are about transfers nothing goes wrong with, as  *)
(* far as the model can tell: no faults, and no two senders with files of  *)
(* one destination, of which the receiver would drop the second one.       *)
OwnFiles == \A t, u \in Transfers : From[t] # From[u] => Dest[t] # Dest[u]

Intact == Faults = {} /\ OwnFiles

(* Each offer of s is on its way once, in its queue of offers or in that   *)
(* of answers, and is one of those pending.                                *)
Once(s, offers, answers, open) ==
    /\ \A i \in DOMAIN offers : offers[i] \in open /\ From[offers[i]] = s
    /\ \A i \in DOMAIN answers : answers[i].t \in open /\ From[answers[i].t] = s
    /\ \A i, j \in DOMAIN offers : offers[i] = offers[j] => i = j
    /\ \A i, j \in DOMAIN answers : answers[i].t = answers[j].t => i = j
    /\ \A i \in DOMAIN offers, j \in DOMAIN answers : offers[i] # answers[j].t

OffersOnce ==
    /\ pending \subseteq offered
    /\ \A s \in Senders : Once(s, toReceiver[s], toSender[s], pending)

(* The worker reads a file of the offered size and no further.             *)
WorkerInStep ==
    \A s \in Senders : worker[s] # Idle =>
        /\ worker[s].len = Length[Source[worker[s].t]]
        /\ worker[s].sent <= Messages(worker[s].len)

(* What the receiver has counted of the front file is a number of whole    *)
(* messages, less than the file, and what the disk has of it.              *)
Counted(e) ==
    /\ e.got = Messages(e.got) * MaxMessage
    /\ e.got < Length[Source[e.t]]
    /\ disk[Dest[e.t]] = SubSeq(Whole(Source[e.t]), 1, Messages(e.got))

(* The files of a sender are its own; of those behind the front nothing    *)
(* has come.                                                               *)
QueueInStep ==
    \A s \in Senders : \A i \in DOMAIN incoming[s] :
        /\ From[incoming[s][i].t] = s
        /\ IF i = 1 THEN Counted(incoming[s][i]) ELSE incoming[s][i].got = 0

(* The strengthening of StreamAligned that is inductive. *)
IntactInv ==
    Inv /\ OffersOnce /\ WorkerInStep /\ QueueInStep /\ StreamAligned /\ SavedAsOffered

----------------------------------------------------------------------------
(* The quotient is the number between the multiples. *)
LEMMA Quotient ==
    ASSUME NEW a \in Nat, NEW b \in Nat \ {0}, NEW q \in Nat, q * b <= a, a < q * b + b
    PROVE  a \div b = q
<1>1. a = b * (a \div b) + (a % b) /\ a % b \in 0 .. b - 1 /\ a \div b \in Nat
  OBVIOUS
<1> DEFINE d == a \div b
<1> HIDE DEF d
<1>2. d \in Nat /\ b * d <= a /\ a < b * d + b
  BY <1>1 DEF d
<1>3. CASE d <= q - 1
  <2>1. d * b <= (q - 1) * b
    BY <1>2, <1>3, TimesMonotone
  <2>2. QED
    BY <1>2, <2>1
<1>4. CASE d >= q + 1
  <2>1. (q + 1) * b <= d * b
    BY <1>2, <1>4, TimesMonotone
  <2>2. QED
    BY <1>2, <2>1
<1>5. d = q
  BY <1>2, <1>3, <1>4
<1>6. QED
  BY <1>5 DEF d

(* A number of whole messages is as many messages. *)
LEMMA MessagesOfWhole ==
    ASSUME NEW n \in Nat
    PROVE  Messages(n * MaxMessage) = n
<1> DEFINE b == MaxMessage
           p == n * b
<1>1. b \in Nat \ {0} /\ p \in Nat
  BY ConstantsAssumption
<1> HIDE DEF b, p
<1>2. p + b - 1 \in Nat /\ p <= p + b - 1 /\ p + b - 1 < p + b
  BY <1>1
<1>3. (p + b - 1) \div b = n
  BY <1>1, <1>2, Quotient DEF p
<1>4. QED
  BY <1>3 DEF Messages, p, b

(* An empty file is sent without a message. *)
LEMMA NoMessages == Messages(0) = 0
<1>1. Messages(0 * MaxMessage) = 0
  BY MessagesOfWhole
<1>2. 0 * MaxMessage = 0
  BY ConstantsAssumption
<1>3. QED
  BY <1>1, <1>2

(* A file has an n-th message after the first n as long as these do not    *)
(* hold all of it.                                                         *)
LEMMA MessagesLeft ==
    ASSUME NEW n \in Nat, NEW len \in Nat
    PROVE  n < Messages(len) <=> n * MaxMessage < len
<1> DEFINE b == MaxMessage
           k == Messages(len)
           a == len + b - 1
<1>1. b \in Nat \ {0}
  BY ConstantsAssumption
<1>2. k \in Nat /\ k * b <= a /\ a < k * b + b
  <2>1. a \in Nat /\ k = a \div b
    BY <1>1 DEF Messages
  <2> HIDE DEF a, k, b
  <2>2. a = b * (a \div b) + (a % b) /\ a % b \in 0 .. b - 1 /\ a \div b \in Nat
    BY <1>1, <2>1
  <2>3. QED
    BY <1>1, <2>1, <2>2
<1> HIDE DEF b, k
<1>3. ASSUME n < k
      PROVE  n * b < len
  <2>1. n + 1 <= k /\ n + 1 \in Nat
    BY <1>2, <1>3
  <2>2. (n + 1) * b <= k * b
    BY <1>1, <1>2, <2>1, TimesMonotone
  <2>3. QED
    BY <1>1, <1>2, <2>2
<1>4. ASSUME n >= k
      PROVE  n * b >= len
  <2>1. k * b <= n * b
    BY <1>1, <1>2, <1>4, TimesMonotone
  <2>2. QED
    BY <1>1, <1>2, <2>1
<1>5. n * b \in Nat
  BY <1>1
<1>6. QED
  BY <1>2, <1>3, <1>4, <1>5 DEF b, k

(* The n-th message after the first n, and what the receiver has counted   *)
(* when it has come.                                                       *)
LEMMA NextPiece ==
    ASSUME NEW t \in Transfers, NEW len \in Nat, NEW n \in Nat, n < Messages(len)
    PROVE  /\ Cut(Source[t], len)[n + 1].len \in Nat
           /\ n * MaxMessage + Cut(Source[t], len)[n + 1].len >= len <=> n + 1 = Messages(len)
           /\ n * MaxMessage + Cut(Source[t], len)[n + 1].len < len =>
                 n * MaxMessage + Cut(Source[t], len)[n + 1].len = (n + 1) * MaxMessage
<1> DEFINE b == MaxMessage
           k == Messages(len)
           p == n * b
           c == Cut(Source[t], len)[n + 1].len
<1>1. b \in Nat \ {0} /\ k \in Nat /\ p \in Nat
  BY ConstantsAssumption, MessagesNat
<1>2. n + 1 \in 1 .. k
  BY <1>1
<1>3. c = IF len - p < b THEN len - p ELSE b
  BY <1>2 DEF Cut
<1>4. p < len
  BY MessagesLeft
<1>5. n + 1 < k <=> (n + 1) * b < len
  BY MessagesLeft
<1>6. (n + 1) * b = p + b
  BY <1>1
<1> HIDE DEF b, k, p, c
<1>7. c \in Nat /\ (p + c >= len <=> n + 1 = k) /\ (p + c < len => p + c = (n + 1) * b)
  BY <1>1, <1>2, <1>3, <1>4, <1>5, <1>6
<1>8. QED
  BY <1>7 DEF b, k, p, c

(* The read loop cuts a file of any length into messages that follow one    *)
(* another from its first byte to its last, each of at least one byte and   *)
(* of no more than --maxMessageSize: a file whose pieces are all there, in  *)
(* order, is there byte by byte.                                            *)
THEOREM CutCoversFile ==
    ASSUME NEW src, NEW len \in Nat
    PROVE  /\ Messages(len) = 0 <=> len = 0
           /\ \A i \in 1 .. Messages(len) :
                 /\ Cut(src, len)[i].len \in 1 .. MaxMessage
                 /\ i = 1 => Cut(src, len)[i].at = 0
                 /\ i < Messages(len) =>
                       Cut(src, len)[i + 1].at = Cut(src, len)[i].at + Cut(src, len)[i].len
                 /\ i = Messages(len) => Cut(src, len)[i].at + Cut(src, len)[i].len = len
<1> DEFINE b == MaxMessage
           k == Messages(len)
<1>1. b \in Nat \ {0} /\ k \in Nat
  BY ConstantsAssumption, MessagesNat
<1>2. k = 0 <=> len = 0
  <2>1. 0 < k <=> 0 * b < len
    BY MessagesLeft
  <2>2. 0 * b = 0
    BY <1>1
  <2> HIDE DEF b, k
  <2>3. QED
    BY <1>1, <2>1, <2>2
<1>3. ASSUME NEW i \in 1 .. k
      PROVE  /\ Cut(src, len)[i].len \in 1 .. b
             /\ i = 1 => Cut(src, len)[i].at = 0
             /\ i < k => Cut(src, len)[i + 1].at = Cut(src, len)[i].at + Cut(src, len)[i].len
             /\ i = k => Cut(src, len)[i].at + Cut(src, len)[i].len = len
  <2> DEFINE p == (i - 1) * b
             r == i * b
             x == Cut(src, len)[i].len
             y == Cut(src, len)[i].at
  <2>1. i \in Nat /\ i - 1 \in Nat /\ i - 1 < k
    BY <1>1
  <2>2. p < len /\ (i < k <=> r < len)
    BY <2>1, MessagesLeft
  <2>3. r = p + b /\ p \in Nat
    BY <1>1, <2>1
  <2>4. y = p /\ x = IF len - p < b THEN len - p ELSE b
    BY DEF Cut
  <2>5. i = 1 => p = 0
    BY <1>1
  <2>6. i < k => Cut(src, len)[i + 1].at = r
    <3>1. ASSUME i < k
          PROVE  Cut(src, len)[i + 1].at = ((i + 1) - 1) * b
      <4>1. i + 1 \in 1 .. k
        BY <1>1, <2>1, <3>1
      <4>2. QED
        BY <4>1 DEF Cut
    <3>2. (i + 1) - 1 = i
      BY <2>1
    <3>3. QED
      BY <3>1, <3>2
  <2>7. i = k => ~(i < k)
    BY <1>1
  <2> HIDE DEF b, k, p, r, x, y
  <2>8. x \in 1 .. b /\ (i < k => r = p + x) /\ (i = k => p + x = len)
    BY <1>1, <2>2, <2>3, <2>4, <2>7
  <2>9. QED
    BY <2>4, <2>5, <2>6, <2>8 DEF x, y
<1>4. QED
  BY <1>2, <1>3 DEF b, k

(* The pieces of a file and those after the first n. *)
LEMMA WholeType ==
    ASSUME NEW t \in Transfers
    PROVE  /\ Length[Source[t]] \in Nat
           /\ Whole(Source[t]) \in Seq(Piece)
           /\ Len(Whole(Source[t])) = Messages(Length[Source[t]])
           /\ Messages(Length[Source[t]]) \in Nat
<1>1. Length[Source[t]] \in Nat
  BY ConstantsAssumption
<1>2. Messages(Length[Source[t]]) \in Nat
  BY <1>1, MessagesNat
<1>3. Whole(Source[t]) \in Seq(Piece)
  BY <1>1, CutType DEF Whole
<1>4. DOMAIN Whole(Source[t]) = 1 .. Messages(Length[Source[t]])
  BY DEF Whole, Cut
<1>5. Len(Whole(Source[t])) = Messages(Length[Source[t]])
  BY <1>2, <1>3, <1>4
<1>6. QED
  BY <1>1, <1>2, <1>3, <1>5

LEMMA RestOfFacts ==
    ASSUME NEW t \in Transfers, NEW n \in Nat
    PROVE  /\ RestOf(t, n) \in Seq(Piece)
           /\ n >= Messages(Length[Source[t]]) => RestOf(t, n) = <<>>
           /\ n = 0 => RestOf(t, n) = Whole(Source[t])
           /\ n < Messages(Length[Source[t]]) =>
                 RestOf(t, n) = <<Whole(Source[t])[n + 1]>> \o RestOf(t, n + 1)
<1> DEFINE w == Whole(Source[t])
<1>1. w \in Seq(Piece) /\ Len(w) = Messages(Length[Source[t]]) /\ Len(w) \in Nat
  BY WholeType
<1> HIDE DEF w
<1>2. SubSeq(w, n + 1, Len(w)) \in Seq(Piece)
  <2>1. \A i \in n + 1 .. Len(w) : w[i] \in Piece
    BY <1>1
  <2>2. QED
    BY <1>1, <2>1, SubSeqProperties
<1>3. n >= Len(w) => SubSeq(w, n + 1, Len(w)) = <<>>
  BY <1>1, SubSeqEmpty
<1>4. n = 0 => SubSeq(w, n + 1, Len(w)) = w
  BY <1>1, SubSeqFull
<1>5. ASSUME n < Len(w)
      PROVE  SubSeq(w, n + 1, Len(w)) = <<w[n + 1]>> \o SubSeq(w, n + 1 + 1, Len(w))
  <2>1. n + 1 \in 1 .. Len(w) /\ Len(w) \in n + 1 .. Len(w)
    BY <1>1, <1>5
  <2>2. QED
    BY <1>1, <2>1, SubSeqRecursiveFirst
<1>6. QED
  BY <1>1, <1>2, <1>3, <1>4, <1>5 DEF RestOf, w

----------------------------------------------------------------------------
(* The streams of the three queues. *)
Reply == [t : Transfers, accept : BOOLEAN]

WholeOf == [t \in Transfers |-> Whole(Source[t])]

GrantedOf == [m \in Reply |-> Granted(m)]

RestOfFile == [e \in IncomingFile |-> RestOf(e.t, Messages(e.got))]

(* The files queued for a worker. *)
LEMMA QueuedFacts ==
    ASSUME NEW q \in Seq(Transfers)
    PROVE  /\ Queued(q) \in Seq(Piece)
           /\ \A t \in Transfers : Queued(Append(q, t)) = Queued(q) \o Whole(Source[t])
           /\ q # <<>> => Queued(q) = Whole(Source[Head(q)]) \o Queued(Tail(q))
<1>1. WholeOf \in Streams(Piece, Transfers)
  BY WholeType DEF WholeOf, Streams
<1>2. ASSUME NEW p \in Seq(Transfers)
      PROVE  Queued(p) = Stream(WholeOf, p)
  <2>1. \A i \in DOMAIN p : p[i] \in Transfers
    OBVIOUS
  <2>2. [i \in DOMAIN p |-> Whole(Source[p[i]])] = [i \in DOMAIN p |-> WholeOf[p[i]]]
    BY <2>1 DEF WholeOf
  <2>3. QED
    BY <2>2 DEF Queued, Stream, Parts
<1>3. Stream(WholeOf, q) \in Seq(Piece)
  BY <1>1, StreamType
<1>4. ASSUME NEW t \in Transfers
      PROVE  Queued(Append(q, t)) = Queued(q) \o Whole(Source[t])
  <2>1. Stream(WholeOf, Append(q, t)) = Stream(WholeOf, q) \o WholeOf[t]
    BY <1>1, StreamAppended
  <2>2. Append(q, t) \in Seq(Transfers)
    OBVIOUS
  <2>3. QED
    BY <1>2, <2>1, <2>2 DEF WholeOf
<1>5. ASSUME q # <<>>
      PROVE  Queued(q) = Whole(Source[Head(q)]) \o Queued(Tail(q))
  <2>1. Stream(WholeOf, q) = WholeOf[Head(q)] \o Stream(WholeOf, Tail(q))
    BY <1>1, <1>5, StreamHeadTail
  <2>2. Tail(q) \in Seq(Transfers) /\ Head(q) \in Transfers
    BY <1>5
  <2>3. QED
    BY <1>2, <2>1, <2>2 DEF WholeOf
<1>6. QED
  BY <1>2, <1>3, <1>4, <1>5

(* The answers on their way to a sender. *)
LEMMA AcceptedFacts ==
    ASSUME NEW q \in Seq(Reply)
    PROVE  /\ Accepted(q) \in Seq(Piece)
           /\ \A m \in Reply : Accepted(Append(q, m)) = Accepted(q) \o Granted(m)
           /\ q # <<>> => Accepted(q) = Granted(Head(q)) \o Accepted(Tail(q))
<1>1. GrantedOf \in Streams(Piece, Reply)
  <2>1. ASSUME NEW m \in Reply
        PROVE  Granted(m) \in Seq(Piece)
    <3>1. m.t \in Transfers
      BY DEF Reply
    <3>2. QED
      BY <3>1, WholeType DEF Granted
  <2>2. QED
    BY <2>1 DEF GrantedOf, Streams
<1>2. ASSUME NEW p \in Seq(Reply)
      PROVE  Accepted(p) = Stream(GrantedOf, p)
  <2>1. \A i \in DOMAIN p : p[i] \in Reply
    OBVIOUS
  <2>2. [i \in DOMAIN p |-> Granted(p[i])] = [i \in DOMAIN p |-> GrantedOf[p[i]]]
    BY <2>1 DEF GrantedOf
  <2>3. QED
    BY <2>2 DEF Accepted, Stream, Parts
<1>3. Stream(GrantedOf, q) \in Seq(Piece)
  BY <1>1, StreamType
<1>4. ASSUME NEW m \in Reply
      PROVE  Accepted(Append(q, m)) = Accepted(q) \o Granted(m)
  <2>1. Stream(GrantedOf, Append(q, m)) = Stream(GrantedOf, q) \o GrantedOf[m]
    BY <1>1, StreamAppended
  <2>2. Append(q, m) \in Seq(Reply)
    OBVIOUS
  <2>3. QED
    BY <1>2, <2>1, <2>2 DEF GrantedOf
<1>5. ASSUME q # <<>>
      PROVE  Accepted(q) = Granted(Head(q)) \o Accepted(Tail(q))
  <2>1. Stream(GrantedOf, q) = GrantedOf[Head(q)] \o Stream(GrantedOf, Tail(q))
    BY <1>1, <1>5, StreamHeadTail
  <2>2. Tail(q) \in Seq(Reply) /\ Head(q) \in Reply
    BY <1>5
  <2>3. QED
    BY <1>2, <2>1, <2>2 DEF GrantedOf
<1>6. QED
  BY <1>2, <1>3, <1>4, <1>5

(* What a queue of incoming files waits for is a stream. *)
LEMMA AwaitedStream ==
    /\ RestOfFile \in Streams(Piece, IncomingFile)
    /\ \A p \in Seq(IncomingFile) : Awaited(p) = Stream(RestOfFile, p)
<1>1. RestOfFile \in Streams(Piece, IncomingFile)
  <2>1. ASSUME NEW e \in IncomingFile
        PROVE  RestOf(e.t, Messages(e.got)) \in Seq(Piece)
    <3>1. e.t \in Transfers /\ e.got \in Nat
      BY DEF IncomingFile
    <3>2. QED
      BY <3>1, MessagesNat, RestOfFacts
  <2>2. QED
    BY <2>1 DEF RestOfFile, Streams
<1>2. ASSUME NEW p \in Seq(IncomingFile)
      PROVE  Awaited(p) = Stream(RestOfFile, p)
  <2>1. \A i \in DOMAIN p : p[i] \in IncomingFile
    OBVIOUS
  <2>2. [i \in DOMAIN p |-> RestOf(p[i].t, Messages(p[i].got))]
          = [i \in DOMAIN p |-> RestOfFile[p[i]]]
    BY <2>1 DEF RestOfFile
  <2>3. QED
    BY <2>2 DEF Awaited, Stream, Parts
<1>3. QED
  BY <1>1, <1>2

(* The receiver's queue of incoming files. *)
LEMMA AwaitedFacts ==
    ASSUME NEW q \in Seq(IncomingFile)
    PROVE  /\ Awaited(q) \in Seq(Piece)
           /\ \A e \in IncomingFile :
                 Awaited(Append(q, e)) = Awaited(q) \o RestOf(e.t, Messages(e.got))
           /\ q # <<>> =>
                 Awaited(q) = RestOf(Head(q).t, Messages(Head(q).got)) \o Awaited(Tail(q))
<1>1. RestOfFile \in Streams(Piece, IncomingFile)
  BY AwaitedStream
<1>2. ASSUME NEW p \in Seq(IncomingFile)
      PROVE  Awaited(p) = Stream(RestOfFile, p)
  BY AwaitedStream
<1>3. Stream(RestOfFile, q) \in Seq(Piece)
  BY <1>1, StreamType
<1>4. ASSUME NEW e \in IncomingFile
      PROVE  Awaited(Append(q, e)) = Awaited(q) \o RestOf(e.t, Messages(e.got))
  <2>1. Stream(RestOfFile, Append(q, e)) = Stream(RestOfFile, q) \o RestOfFile[e]
    BY <1>1, StreamAppended
  <2>2. Append(q, e) \in Seq(IncomingFile)
    OBVIOUS
  <2>3. QED
    BY <1>2, <2>1, <2>2 DEF RestOfFile
<1>5. ASSUME q # <<>>
      PROVE  Awaited(q) = RestOf(Head(q).t, Messages(Head(q).got)) \o Awaited(Tail(q))
  <2>1. Stream(RestOfFile, q) = RestOfFile[Head(q)] \o Stream(RestOfFile, Tail(q))
    BY <1>1, <1>5, StreamHeadTail
  <2>2. Tail(q) \in Seq(IncomingFile) /\ Head(q) \in IncomingFile
    BY <1>5
  <2>3. QED
    BY <1>2, <2>1, <2>2 DEF RestOfFile
<1>6. QED
  BY <1>2, <1>3, <1>4, <1>5

(* Empty files at the front of the queue, and the opening of the next, make *)
(* no difference to what it waits for.                                      *)
LEMMA StartedAwaits ==
    ASSUME NEW q \in Seq(IncomingFile), NEW k \in 0 .. Len(q),
           \A i \in DOMAIN q : ~q[i].open,
           \A i \in 1 .. k : Length[Source[q[i].t]] = 0
    PROVE  Awaited(Started(q, k)) = Awaited(q)
<1> DEFINE r == Started(q, k)
<1>1. RestOfFile \in Streams(Piece, IncomingFile)
  BY AwaitedStream
<1>2. ASSUME NEW p \in Seq(IncomingFile)
      PROVE  Awaited(p) = Stream(RestOfFile, p)
  BY AwaitedStream
<1>3. r \in Seq(IncomingFile)
  BY StartedShape
<1>4. Len(r) = Len(q) - k /\ \A i \in 1 .. Len(r) : RestOfFile[r[i]] = RestOfFile[q[k + i]]
  <2>1. Len(q) - k \in Nat
    OBVIOUS
  <2>2. Len(r) = Len(q) - k /\ DOMAIN r = 1 .. Len(q) - k
    BY <1>3, <2>1 DEF Started
  <2>3. ASSUME NEW i \in 1 .. Len(q) - k
        PROVE  RestOfFile[r[i]] = RestOfFile[q[k + i]]
    <3>1. k + i \in DOMAIN q /\ i \in DOMAIN r /\ (i = 1 => k + i = k + 1)
      BY <2>2
    <3>2. q[k + i] \in IncomingFile /\ r[i] \in IncomingFile
      BY <1>3, <3>1
    <3>3. r[i].t = q[k + i].t /\ r[i].got = q[k + i].got
      <4>1. r[i] = IF i = 1 THEN [q[k + 1] EXCEPT !.open = TRUE] ELSE q[k + i]
        BY DEF Started
      <4>2. QED
        BY <3>1, <3>2, <4>1 DEF IncomingFile
    <3>4. QED
      BY <3>2, <3>3 DEF RestOfFile
  <2>4. QED
    BY <2>2, <2>3
<1>5. ASSUME NEW i \in 1 .. k
      PROVE  RestOfFile[q[i]] = <<>>
  <2>1. q[i] \in IncomingFile
    BY <1>5
  <2>2. q[i].t \in Transfers /\ q[i].got \in Nat /\ Length[Source[q[i].t]] = 0
    BY <2>1 DEF IncomingFile
  <2>3. Messages(q[i].got) \in Nat /\ Messages(q[i].got) >= Messages(Length[Source[q[i].t]])
    <3>1. Messages(q[i].got) \in Nat
      BY <2>2, MessagesNat
    <3>2. Messages(Length[Source[q[i].t]]) = 0
      BY <2>2, NoMessages, Zenon
    <3>3. QED
      BY <3>1, <3>2
  <2>4. RestOf(q[i].t, Messages(q[i].got)) = <<>>
    BY <2>2, <2>3, RestOfFacts
  <2>5. QED
    BY <2>1, <2>4 DEF RestOfFile
<1> HIDE DEF r
<1>6. Stream(RestOfFile, r) = Stream(RestOfFile, q)
  <2>1. Len(q) - Len(r) = k
    <3>1. Len(q) \in Nat /\ Len(r) = Len(q) - k
      BY <1>4
    <3>2. QED
      BY <3>1
  <2>2. \A i \in 1 .. Len(q) - Len(r) : RestOfFile[q[i]] = <<>>
    BY <1>5, <2>1
  <2>3. \A i \in 1 .. Len(r) : RestOfFile[r[i]] = RestOfFile[q[Len(q) - Len(r) + i]]
    BY <1>4, <2>1
  <2>4. Len(q) - Len(r) \in Nat
    BY <2>1
  <2>5. QED
    BY <1>1, <1>3, <2>2, <2>3, <2>4, StreamSkip
<1>7. QED
  BY <1>2, <1>3, <1>6 DEF r

----------------------------------------------------------------------------
(* Offers and answers *)

(* A new offer. *)
LEMMA OnceOffered ==
    ASSUME NEW s \in Senders, NEW offers \in Seq(Transfers), NEW answers \in Seq(Reply),
           NEW open \in SUBSET Transfers, Once(s, offers, answers, open),
           NEW t \in Transfers, t \notin open, From[t] = s
    PROVE  Once(s, Append(offers, t), answers, open \cup {t})
<1> DEFINE r == Append(offers, t)
           n == Len(offers)
<1>1. /\ n \in Nat /\ DOMAIN r = 1 .. n + 1 /\ DOMAIN offers = 1 .. n
      /\ r[n + 1] = t /\ \A i \in 1 .. n : r[i] = offers[i]
  OBVIOUS
<1> HIDE DEF r, n
<1>2. \A i \in 1 .. n + 1 : i \in 1 .. n \/ i = n + 1
  BY <1>1
<1>3. \A i \in 1 .. n : offers[i] \in open /\ offers[i] # t
  BY <1>1 DEF Once
<1>4. \A i \in DOMAIN r : r[i] \in open \cup {t} /\ From[r[i]] = s
  BY <1>1, <1>2 DEF Once
<1>5. \A i, j \in DOMAIN r : r[i] = r[j] => i = j
  BY <1>1, <1>2, <1>3 DEF Once
<1>6. \A i \in DOMAIN r, j \in DOMAIN answers : r[i] # answers[j].t
  BY <1>1, <1>2 DEF Once
<1>7. QED
  BY <1>4, <1>5, <1>6 DEF Once, r

(* An offer that is answered. *)
LEMMA OnceAnswered ==
    ASSUME NEW s \in Senders, NEW offers \in Seq(Transfers), NEW answers \in Seq(Reply),
           NEW open \in SUBSET Transfers, Once(s, offers, answers, open),
           offers # <<>>, NEW m \in Reply, m.t = Head(offers)
    PROVE  Once(s, Tail(offers), Append(answers, m), open)
<1> DEFINE r == Tail(offers)
           u == Append(answers, m)
           n == Len(offers)
           k == Len(answers)
<1>1. /\ n \in Nat /\ n >= 1 /\ DOMAIN r = 1 .. n - 1 /\ DOMAIN offers = 1 .. n
      /\ m.t = offers[1] /\ \A i \in 1 .. n - 1 : r[i] = offers[i + 1]
  OBVIOUS
<1>2. /\ k \in Nat /\ DOMAIN u = 1 .. k + 1 /\ DOMAIN answers = 1 .. k
      /\ u[k + 1] = m /\ \A i \in 1 .. k : u[i] = answers[i]
  OBVIOUS
<1> HIDE DEF r, u, n, k
<1>3. \A i \in 1 .. k + 1 : i \in 1 .. k \/ i = k + 1
  BY <1>2
<1>4. 1 \in DOMAIN offers /\ \A i \in DOMAIN r : i + 1 \in DOMAIN offers /\ i + 1 # 1
  BY <1>1
<1>5. ASSUME NEW i \in DOMAIN r
      PROVE  r[i] \in open /\ From[r[i]] = s /\ r[i] # m.t
  <2>1. r[i] = offers[i + 1] /\ i + 1 \in DOMAIN offers /\ i + 1 # 1
    BY <1>1, <1>4
  <2>2. offers[i + 1] # offers[1]
    BY <1>4, <2>1 DEF Once
  <2>3. offers[i + 1] \in open /\ From[offers[i + 1]] = s
    BY <2>1 DEF Once
  <2>4. QED
    BY <1>1, <2>1, <2>2, <2>3
<1>6. ASSUME NEW i \in DOMAIN r, NEW j \in DOMAIN r, r[i] = r[j]
      PROVE  i = j
  <2>1. /\ r[i] = offers[i + 1] /\ i + 1 \in DOMAIN offers
        /\ r[j] = offers[j + 1] /\ j + 1 \in DOMAIN offers
    BY <1>1, <1>4
  <2>2. i + 1 = j + 1
    BY <1>6, <2>1 DEF Once
  <2>3. i \in Nat /\ j \in Nat
    BY <1>1
  <2>4. QED
    BY <2>2, <2>3
<1>7. \A i \in DOMAIN u : u[i].t \in open /\ From[u[i].t] = s
  BY <1>1, <1>2, <1>3, <1>4 DEF Once
<1>8. ASSUME NEW i \in DOMAIN answers
      PROVE  u[i].t # m.t
  <2>1. offers[1] # answers[i].t
    BY <1>4 DEF Once
  <2>2. QED
    BY <1>1, <1>2, <2>1
<1>9. \A i, j \in DOMAIN u : u[i].t = u[j].t => i = j
  BY <1>2, <1>3, <1>8 DEF Once
<1>10. ASSUME NEW i \in DOMAIN r, NEW j \in DOMAIN u
       PROVE  r[i] # u[j].t
  <2>1. r[i] = offers[i + 1] /\ i + 1 \in DOMAIN offers
    BY <1>1, <1>4
  <2>2. j \in DOMAIN answers => offers[i + 1] # answers[j].t
    BY <2>1 DEF Once
  <2>3. QED
    BY <1>2, <1>3, <1>5, <2>1, <2>2
<1>11. QED
  BY <1>5, <1>6, <1>7, <1>9, <1>10 DEF Once, r, u

(* An answer that is read: its offer is pending no more. *)
LEMMA OnceTaken ==
    ASSUME NEW s \in Senders, NEW offers \in Seq(Transfers), NEW answers \in Seq(Reply),
           NEW open \in SUBSET Transfers, Once(s, offers, answers, open), answers # <<>>
    PROVE  Once(s, offers, Tail(answers), open \ {Head(answers).t})
<1> DEFINE u == Tail(answers)
           k == Len(answers)
           t == Head(answers).t
<1>1. /\ k \in Nat /\ k >= 1 /\ DOMAIN u = 1 .. k - 1 /\ DOMAIN answers = 1 .. k
      /\ t = answers[1].t /\ \A i \in 1 .. k - 1 : u[i] = answers[i + 1]
  OBVIOUS
<1> HIDE DEF u, k, t
<1>2. 1 \in 1 .. k /\ \A i \in 1 .. k - 1 : i + 1 \in 1 .. k /\ i + 1 # 1
  BY <1>1
<1>3. \A i \in DOMAIN u : u[i].t \in open \ {t} /\ From[u[i].t] = s
  BY <1>1, <1>2 DEF Once
<1>4. ASSUME NEW i \in DOMAIN u, NEW j \in DOMAIN u, u[i].t = u[j].t
      PROVE  i = j
  <2>1. /\ u[i] = answers[i + 1] /\ i + 1 \in DOMAIN answers
        /\ u[j] = answers[j + 1] /\ j + 1 \in DOMAIN answers
    BY <1>1, <1>2
  <2>2. i + 1 = j + 1
    BY <1>4, <2>1 DEF Once
  <2>3. i \in Nat /\ j \in Nat
    BY <1>1
  <2>4. QED
    BY <2>2, <2>3
<1>5. \A i \in DOMAIN offers : offers[i] \in open \ {t} /\ From[offers[i]] = s
  BY <1>1, <1>2 DEF Once
<1>6. \A i \in DOMAIN offers, j \in DOMAIN u : offers[i] # u[j].t
  BY <1>1, <1>2 DEF Once
<1>7. QED
  BY <1>3, <1>4, <1>5, <1>6 DEF Once, u, t

(* The offers of another sender. *)
LEMMA OnceOther ==
    ASSUME NEW s \in Senders, NEW offers, NEW answers, NEW open,
           Once(s, offers, answers, open), NEW t, From[t] # s
    PROVE  Once(s, offers, answers, open \ {t}) /\ Once(s, offers, answers, open \cup {t})
BY DEF Once

(* The first of the answers belongs to its sender and is pending. *)
LEMMA OnceFirst ==
    ASSUME NEW s \in Senders, NEW offers \in Seq(Transfers), NEW answers \in Seq(Reply),
           NEW open, Once(s, offers, answers, open)
    PROVE  /\ offers # <<>> => Head(offers) \in open /\ From[Head(offers)] = s
           /\ answers # <<>> => Head(answers).t \in open /\ From[Head(answers).t] = s
<1>1. offers # <<>> => 1 \in DOMAIN offers /\ Head(offers) = offers[1]
  OBVIOUS
<1>2. answers # <<>> => 1 \in DOMAIN answers /\ Head(answers) = answers[1]
  OBVIOUS
<1>3. QED
  BY <1>1, <1>2 DEF Once

(* Every step keeps each offer in one place. *)
LEMMA OffersOnceStep ==
    ASSUME TypeOK, Faults = {}, OffersOnce, [Next]_vars
    PROVE  OffersOnce'
<1>1. /\ toReceiver \in [Senders -> Seq(Transfers)]
      /\ toSender \in [Senders -> Seq(Reply)]
      /\ pending \in SUBSET Transfers
      /\ \A s \in Senders : Once(s, toReceiver[s], toSender[s], pending)
      /\ pending \subseteq offered
  BY DEF TypeOK, OffersOnce, Reply
<1>2. ASSUME NEW t \in Transfers, SendFileOffer(t)
      PROVE  OffersOnce'
  <2>1. /\ pending' = pending \cup {t} /\ offered' = offered \cup {t} /\ t \notin pending
        /\ toReceiver' = [toReceiver EXCEPT ![From[t]] = Append(toReceiver[From[t]], t)]
        /\ toSender' = toSender
    BY <1>1, <1>2 DEF SendFileOffer
  <2>2. From[t] \in Senders
    BY ConstantsAssumption
  <2>3. ASSUME NEW s \in Senders
        PROVE  Once(s, toReceiver'[s], toSender'[s], pending')
    <3>1. CASE s = From[t]
      BY <1>1, <2>1, <3>1, OnceOffered
    <3>2. CASE s # From[t]
      BY <1>1, <2>1, <3>2, OnceOther
    <3>3. QED
      BY <3>1, <3>2
  <2>4. QED
    BY <1>1, <2>1, <2>3 DEF OffersOnce
<1>3. ASSUME NEW s \in Senders, OnFileAccept(s) \/ OnFileReject(s)
      PROVE  OffersOnce'
  <2> DEFINE t == Head(toSender[s]).t
  <2>1. /\ toSender[s] # <<>> /\ pending' = pending \ {t}
        /\ toSender' = [toSender EXCEPT ![s] = Tail(toSender[s])]
        /\ UNCHANGED <<offered, toReceiver>>
    BY <1>3 DEF OnFileAccept, OnFileReject
  <2>2. From[t] = s
    BY <1>1, <2>1, OnceFirst
  <2>3. ASSUME NEW o \in Senders
        PROVE  Once(o, toReceiver'[o], toSender'[o], pending')
    <3>1. CASE o = s
      BY <1>1, <2>1, <3>1, OnceTaken
    <3>2. CASE o # s
      <4>1. From[t] # o /\ toSender'[o] = toSender[o] /\ toReceiver'[o] = toReceiver[o]
        BY <1>1, <2>1, <2>2, <3>2
      <4> HIDE DEF t
      <4>2. Once(o, toReceiver[o], toSender[o], pending \ {t})
        BY <1>1, <4>1, OnceOther
      <4>3. QED
        BY <2>1, <4>1, <4>2
    <3>3. QED
      BY <3>1, <3>2
  <2>4. QED
    BY <1>1, <2>1, <2>3 DEF OffersOnce
<1>4. ASSUME NEW s \in Senders, OnFileOffer(s)
      PROVE  OffersOnce'
  <2> DEFINE t == Head(toReceiver[s])
             m == [t |-> t, accept |-> ~Duplicate(t)]
  <2>1. /\ toReceiver[s] # <<>>
        /\ toReceiver' = [toReceiver EXCEPT ![s] = Tail(toReceiver[s])]
        /\ toSender' = [toSender EXCEPT ![s] = Append(toSender[s], m)]
        /\ UNCHANGED <<offered, pending>>
    BY <1>4 DEF OnFileOffer
  <2>2. m \in Reply /\ m.t = Head(toReceiver[s])
    <3>1. t \in Transfers
      BY <1>1, <2>1
    <3>2. QED
      BY <3>1 DEF Reply, Duplicate
  <2> HIDE DEF m, t
  <2>3. ASSUME NEW o \in Senders
        PROVE  Once(o, toReceiver'[o], toSender'[o], pending')
    <3>1. CASE o = s
      <4>1. toReceiver'[s] = Tail(toReceiver[s]) /\ toSender'[s] = Append(toSender[s], m)
        BY <1>1, <2>1
      <4>2. Once(s, Tail(toReceiver[s]), Append(toSender[s], m), pending)
        BY <1>1, <2>1, <2>2, OnceAnswered
      <4>3. QED
        BY <2>1, <3>1, <4>1, <4>2
    <3>2. CASE o # s
      BY <1>1, <2>1, <3>2
    <3>3. QED
      BY <3>1, <3>2
  <2>4. QED
    BY <1>1, <2>1, <2>3 DEF OffersOnce
<1>5. CASE UNCHANGED <<offered, pending, toReceiver, toSender>>
  BY <1>1, <1>5 DEF OffersOnce
<1>6. ASSUME NEW s \in Senders, TakeFile(s) \/ SendChunk(s) \/ FinishFile(s) \/ OnIncomingChunk(s)
      PROVE  UNCHANGED <<offered, pending, toReceiver, toSender>>
  BY <1>6 DEF TakeFile, SendChunk, FinishFile, OnIncomingChunk, senderVars
<1>7. \A s \in Senders : ~Drop(s)
  BY DEF Drop
<1>8. QED
  BY <1>2, <1>3, <1>4, <1>5, <1>6, <1>7 DEF Next, vars, SenderStep, ReceiverStep

----------------------------------------------------------------------------
(* StartNextIncoming when nothing goes wrong *)

(* No file is contended: those other senders have open are their own. *)
LEMMA NotContended ==
    ASSUME TypeOK, OwnFiles, QueueInStep, NEW s \in Senders,
           NEW t \in Transfers, From[t] = s
    PROVE  ~Contended(s, Dest[t])
<1> SUFFICES ASSUME NEW o \in Senders \ {s}, incoming[o] # <<>>,
                    Dest[Head(incoming[o]).t] = Dest[t]
             PROVE  FALSE
  BY DEF Contended
<1>1. incoming[o] \in Seq(IncomingFile)
  BY DEF TypeOK, IncomingFile
<1>2. 1 \in DOMAIN incoming[o] /\ Head(incoming[o]) = incoming[o][1]
      /\ incoming[o][1] \in IncomingFile
  BY <1>1
<1>3. From[Head(incoming[o]).t] = o
  BY <1>2 DEF QueueInStep
<1>4. Head(incoming[o]).t \in Transfers
  BY <1>2 DEF IncomingFile
<1>5. QED
  BY <1>3, <1>4 DEF OwnFiles

(* The step taken after k empty files. *)
StartsAfter(s, q, k, disk0, saved0) ==
    /\ \A i \in 1 .. k : Length[Source[q[i].t]] = 0
    /\ k < Len(q) => Length[Source[q[k + 1].t]] > 0
    /\ incoming' = [incoming EXCEPT ![s] = Started(q, k)]
    /\ disk' = [d \in Dests |-> IF \E i \in 1 .. Len(q) : i <= k + 1 /\ Dest[q[i].t] = d
                                THEN <<>> ELSE disk0[d]]
    /\ saved' = [t \in Transfers |-> IF \E i \in 1 .. k : q[i].t = t
                                     THEN <<>> ELSE saved0[t]]

(* The files StartNextIncoming passes over are the empty ones, and no other. *)
LEMMA StartsAfterEmpty ==
    ASSUME TypeOK, Intact, QueueInStep, NEW s \in Senders, NEW q \in Seq(IncomingFile),
           \A i \in DOMAIN q : From[q[i].t] = s,
           NEW disk0, NEW saved0, StartNextIncoming(s, q, disk0, saved0)
    PROVE  \E k \in 0 .. Len(q) : StartsAfter(s, q, k, disk0, saved0)
<1>1. PICK k \in 0 .. Len(q), refused \in SUBSET (1 .. Len(q)) :
         /\ refused \subseteq 1 .. k
         /\ \A i \in refused : Contended(s, Dest[q[i].t]) \/ "locked" \in Faults
         /\ \A i \in (1 .. k) \ refused : Length[Source[q[i].t]] = 0
         /\ k < Len(q) => Length[Source[q[k + 1].t]] > 0
         /\ incoming' = [incoming EXCEPT ![s] = Started(q, k)]
         /\ disk' = [d \in Dests |->
                        IF \E i \in ((1 .. k) \ refused) \cup (IF k < Len(q) THEN {k + 1} ELSE {}) :
                              Dest[q[i].t] = d
                        THEN Opened(disk0[d]) ELSE disk0[d]]
         /\ saved' = [t \in Transfers |-> IF \E i \in (1 .. k) \ refused : q[i].t = t
                                          THEN <<>> ELSE saved0[t]]
  BY Zenon DEF StartNextIncoming
<1>2. refused = {}
  <2>1. ASSUME NEW i \in 1 .. Len(q)
        PROVE  ~Contended(s, Dest[q[i].t])
    <3>1. i \in DOMAIN q /\ q[i] \in IncomingFile
      OBVIOUS
    <3>2. q[i].t \in Transfers /\ From[q[i].t] = s
      BY <3>1 DEF IncomingFile
    <3>3. QED
      BY <3>2, NotContended DEF Intact
  <2>2. QED
    BY <1>1, <2>1 DEF Intact
<1>3. (1 .. k) \ refused = 1 .. k
  BY <1>2
<1>4. (1 .. k) \cup (IF k < Len(q) THEN {k + 1} ELSE {}) = {i \in 1 .. Len(q) : i <= k + 1}
  <2>1. Len(q) \in Nat
    OBVIOUS
  <2>2. QED
    BY <2>1
<1>5. \A d \in Dests :
         (\E i \in ((1 .. k) \ refused) \cup (IF k < Len(q) THEN {k + 1} ELSE {}) :
              Dest[q[i].t] = d)
         <=> \E i \in 1 .. Len(q) : i <= k + 1 /\ Dest[q[i].t] = d
  BY <1>3, <1>4
<1>6. disk' = [d \in Dests |-> IF \E i \in 1 .. Len(q) : i <= k + 1 /\ Dest[q[i].t] = d
                               THEN <<>> ELSE disk0[d]]
  BY <1>1, <1>5 DEF Opened
<1>7. saved' = [t \in Transfers |-> IF \E i \in 1 .. k : q[i].t = t THEN <<>> ELSE saved0[t]]
  BY <1>1, <1>3
<1>8. \A i \in 1 .. k : Length[Source[q[i].t]] = 0
  BY <1>1, <1>3
<1>9. StartsAfter(s, q, k, disk0, saved0)
  BY <1>1, <1>6, <1>7, <1>8, Zenon DEF StartsAfter
<1>10. QED
  BY <1>9

(* What the queue waits for is empty when the queue is, and all of a new file. *)
LEMMA AwaitedNew ==
    /\ Awaited(<<>>) = <<>>
    /\ \A t \in Transfers :
          /\ Entry(t) \in IncomingFile /\ ~Entry(t).open /\ Entry(t).t = t /\ Entry(t).got = 0
          /\ RestOf(Entry(t).t, Messages(Entry(t).got)) = Whole(Source[t])
<1>1. Awaited(<<>>) = <<>>
  BY FlattenEmpty DEF Awaited
<1>2. ASSUME NEW t \in Transfers
      PROVE  /\ Entry(t) \in IncomingFile /\ ~Entry(t).open /\ Entry(t).t = t /\ Entry(t).got = 0
             /\ RestOf(Entry(t).t, Messages(Entry(t).got)) = Whole(Source[t])
  <2>1. Entry(t) \in IncomingFile /\ ~Entry(t).open /\ Entry(t).t = t /\ Entry(t).got = 0
    BY DEF Entry, IncomingFile
  <2>2. RestOf(t, 0) = Whole(Source[t])
    BY RestOfFacts
  <2>3. QED
    BY <2>1, <2>2, NoMessages
<1>3. QED
  BY <1>1, <1>2

(* A queue of files of s of which nothing has come. *)
Untouched(s, q) ==
    \A i \in DOMAIN q : ~q[i].open /\ From[q[i].t] = s /\ q[i].got = 0

(* A disk that differs from the one there is in files of s alone. *)
DiffersFor(s, disk0) ==
    \A t \in Transfers : From[t] # s => disk0[Dest[t]] = disk[Dest[t]]

(* After the step, every queue is in step with its files. *)
LEMMA StartsInStep ==
    ASSUME TypeOK, Intact, QueueInStep, NEW s \in Senders, NEW q \in Seq(IncomingFile),
           Untouched(s, q), NEW disk0, DiffersFor(s, disk0),
           NEW saved0, NEW k \in 0 .. Len(q), StartsAfter(s, q, k, disk0, saved0)
    PROVE  QueueInStep'
<1>1. incoming \in [Senders -> Seq(IncomingFile)]
  BY DEF TypeOK, IncomingFile
<1>2. incoming' = [incoming EXCEPT ![s] = Started(q, k)]
  BY DEF StartsAfter
<1>3. \A d \in Dests : disk'[d] = IF \E i \in 1 .. Len(q) : i <= k + 1 /\ Dest[q[i].t] = d
                                  THEN <<>> ELSE disk0[d]
  BY DEF StartsAfter
<1>4. \A t \in Transfers : Dest[t] \in Dests
  BY DEF Dests
<1>5. ASSUME NEW t \in Transfers, From[t] # s
      PROVE  disk'[Dest[t]] = disk[Dest[t]]
  <2>1. ASSUME NEW i \in 1 .. Len(q)
        PROVE  Dest[q[i].t] # Dest[t]
    <3>1. i \in DOMAIN q /\ q[i] \in IncomingFile
      OBVIOUS
    <3>2. q[i].t \in Transfers /\ From[q[i].t] = s
      BY <3>1 DEF IncomingFile, Untouched
    <3>3. QED
      BY <1>5, <3>2 DEF Intact, OwnFiles
  <2>2. disk'[Dest[t]] = disk0[Dest[t]]
    BY <1>3, <1>4, <2>1
  <2>3. QED
    BY <1>5, <2>2 DEF DiffersFor
<1>6. ASSUME NEW o \in Senders, o # s, NEW i \in DOMAIN incoming'[o]
      PROVE  /\ From[incoming'[o][i].t] = o
             /\ IF i = 1 THEN Counted(incoming[o][i])' ELSE incoming'[o][i].got = 0
  <2>1. incoming'[o] = incoming[o]
    BY <1>1, <1>2, <1>6
  <2>2. i \in DOMAIN incoming[o]
    BY <1>6, <2>1
  <2> DEFINE e == incoming[o][i]
  <2>3. From[e.t] = o /\ (IF i = 1 THEN Counted(e) ELSE e.got = 0)
    BY <2>2 DEF QueueInStep
  <2>4. e \in IncomingFile
    BY <1>1, <2>2
  <2>5. e.t \in Transfers
    BY <2>4 DEF IncomingFile
  <2>6. disk'[Dest[e.t]] = disk[Dest[e.t]]
    BY <1>5, <1>6, <2>3, <2>5
  <2>7. Counted(e) => Counted(incoming[o][i])'
    BY <2>1, <2>6 DEF Counted
  <2>8. QED
    BY <2>1, <2>3, <2>7
<1>7. ASSUME NEW i \in DOMAIN incoming'[s]
      PROVE  /\ From[incoming'[s][i].t] = s
             /\ IF i = 1 THEN Counted(incoming[s][i])' ELSE incoming'[s][i].got = 0
  <2> DEFINE e == incoming'[s][i]
             n == Len(q)
  <2>1. n \in Nat /\ incoming'[s] = Started(q, k)
    BY <1>1, <1>2
  <2>2. i \in 1 .. n - k
    BY <1>7, <2>1 DEF Started
  <2>3. e = IF i = 1 THEN [q[k + 1] EXCEPT !.open = TRUE] ELSE q[k + i]
    BY <2>1, <2>2 DEF Started
  <2>4. k + i \in DOMAIN q /\ k + i \in 1 .. n /\ (i = 1 => k + i = k + 1) /\ k < n
    BY <2>1, <2>2
  <2>5. q[k + i] \in IncomingFile
    BY <2>4
  <2>6. e.t = q[k + i].t /\ e.got = 0 /\ e.t \in Transfers /\ From[e.t] = s
    <3>1. q[k + i].got = 0 /\ From[q[k + i].t] = s /\ q[k + i].t \in Transfers
      BY <2>4, <2>5 DEF Untouched, IncomingFile
    <3>2. e.t = q[k + i].t /\ e.got = q[k + i].got
      BY <2>3, <2>4, <2>5 DEF IncomingFile
    <3>3. QED
      BY <3>1, <3>2
  <2>7. ASSUME i = 1
        PROVE  Counted(incoming[s][i])'
    <3>1. Messages(e.got) = 0 /\ e.got = Messages(e.got) * MaxMessage
      <4>1. Messages(e.got) = 0
        BY <2>6, NoMessages
      <4>2. 0 * MaxMessage = 0
        BY ConstantsAssumption
      <4>3. QED
        BY <2>6, <4>1, <4>2
    <3>2. Length[Source[e.t]] > 0
      BY <2>4, <2>6, <2>7 DEF StartsAfter
    <3>3. disk'[Dest[e.t]] = <<>>
      <4>1. k + i \in 1 .. Len(q) /\ k + i <= k + 1
        BY <2>1, <2>4, <2>7
      <4>2. QED
        BY <1>3, <1>4, <2>6, <4>1
    <3>4. SubSeq(Whole(Source[e.t]), 1, 0) = <<>>
      BY <2>6, WholeType, SubSeqEmpty
    <3>5. QED
      BY <2>6, <3>1, <3>2, <3>3, <3>4 DEF Counted
  <2>8. QED
    BY <2>6, <2>7
<1>8. QED
  BY <1>6, <1>7 DEF QueueInStep

(* After the step, s waits for what its queue waits for, and the others for *)
(* what they did.                                                           *)
LEMMA StartsExpects ==
    ASSUME TypeOK, NEW s \in Senders, NEW q \in Seq(IncomingFile), Untouched(s, q),
           NEW disk0, NEW saved0, NEW k \in 0 .. Len(q), StartsAfter(s, q, k, disk0, saved0)
    PROVE  /\ Expected(s)' = Awaited(q)
           /\ \A o \in Senders : o # s => Expected(o)' = Expected(o)
<1>1. incoming' = [incoming EXCEPT ![s] = Started(q, k)]
  BY DEF StartsAfter
<1>2. incoming \in [Senders -> Seq(IncomingFile)]
  BY DEF TypeOK, IncomingFile
<1>3. incoming'[s] = Started(q, k) /\ \A o \in Senders : o # s => incoming'[o] = incoming[o]
  BY <1>1, <1>2
<1>4. Awaited(Started(q, k)) = Awaited(q)
  <2>1. \A i \in DOMAIN q : ~q[i].open
    BY DEF Untouched
  <2>2. \A i \in 1 .. k : Length[Source[q[i].t]] = 0
    BY DEF StartsAfter
  <2>3. QED
    BY <2>1, <2>2, StartedAwaits
<1>5. QED
  BY <1>3, <1>4 DEF Expected

(* An empty file has no pieces, and no other file has none. *)
LEMMA EmptyWhole ==
    ASSUME NEW t \in Transfers
    PROVE  Whole(Source[t]) = <<>> <=> Length[Source[t]] = 0
<1> DEFINE len == Length[Source[t]]
           w == Whole(Source[t])
<1>1. len \in Nat /\ w \in Seq(Piece) /\ Len(w) = Messages(len) /\ Messages(len) \in Nat
  BY WholeType
<1>2. 0 < Messages(len) <=> 0 * MaxMessage < len
  BY <1>1, MessagesLeft
<1>3. 0 * MaxMessage = 0
  BY ConstantsAssumption
<1> HIDE DEF len, w
<1>4. Messages(len) = 0 <=> len = 0
  BY <1>1, <1>2, <1>3
<1>5. QED
  BY <1>1, <1>4 DEF len, w

(* The files the step closes are closed as they were offered. *)
LEMMA StartsSaved ==
    ASSUME NEW s \in Senders, NEW q \in Seq(IncomingFile), NEW disk0, NEW saved0,
           \A t \in Transfers : saved0[t] # Missing => saved0[t] = Whole(Source[t]),
           NEW k \in 0 .. Len(q), StartsAfter(s, q, k, disk0, saved0)
    PROVE  SavedAsOffered'
<1> SUFFICES ASSUME NEW t \in Transfers, saved'[t] # Missing
             PROVE  saved'[t] = Whole(Source[t])
  BY DEF SavedAsOffered
<1>1. saved'[t] = IF \E i \in 1 .. k : q[i].t = t THEN <<>> ELSE saved0[t]
  BY DEF StartsAfter
<1>2. ASSUME NEW i \in 1 .. k, q[i].t = t
      PROVE  Whole(Source[t]) = <<>>
  <2>1. Length[Source[t]] = 0
    BY <1>2 DEF StartsAfter
  <2>2. QED
    BY <2>1, EmptyWhole
<1>3. QED
  BY <1>1, <1>2

----------------------------------------------------------------------------
(* The sender's steps *)

(* What is coming from a sender is a sequence of pieces. *)
LEMMA ComingTypes ==
    ASSUME TypeOK, NEW s \in Senders
    PROVE  /\ wire[s] \in Seq(Piece)
           /\ InHand(s) \in Seq(Piece)
           /\ fileQ[s] \in Seq(Transfers) /\ Queued(fileQ[s]) \in Seq(Piece)
           /\ toSender[s] \in Seq(Reply) /\ Accepted(toSender[s]) \in Seq(Piece)
           /\ incoming[s] \in Seq(IncomingFile) /\ Awaited(incoming[s]) \in Seq(Piece)
           /\ worker[s] # Idle => /\ worker[s].t \in Transfers /\ worker[s].len \in Nat
                                  /\ worker[s].sent \in Nat
<1>1. /\ wire[s] \in Seq(Piece) /\ fileQ[s] \in Seq(Transfers)
      /\ toSender[s] \in Seq(Reply) /\ incoming[s] \in Seq(IncomingFile)
  BY DEF TypeOK, Reply, IncomingFile
<1>2. worker[s] # Idle => /\ worker[s].t \in Transfers /\ worker[s].len \in Nat
                          /\ worker[s].sent \in Nat
  <2>1. worker[s] # Idle => worker[s] \in [t : Transfers, len : Nat, sent : Nat]
    BY DEF TypeOK
  <2>2. QED
    BY <2>1
<1>3. InHand(s) \in Seq(Piece)
  <2>1. CASE worker[s] = Idle
    BY <2>1 DEF InHand
  <2>2. CASE worker[s] # Idle
    <3>1. RestOf(worker[s].t, worker[s].sent) \in Seq(Piece)
      BY <1>2, <2>2, RestOfFacts
    <3>2. QED
      BY <2>2, <3>1 DEF InHand
  <2>3. QED
    BY <2>1, <2>2
<1>4. QED
  BY <1>1, <1>2, <1>3, QueuedFacts, AcceptedFacts, AwaitedFacts

(* A step that leaves a sender's queues alone changes nothing of what is   *)
(* coming from it, nor, if it leaves its incoming files, of what is        *)
(* expected.                                                               *)
LEMMA ComingUnchanged ==
    ASSUME NEW s \in Senders, wire'[s] = wire[s], worker'[s] = worker[s],
           fileQ'[s] = fileQ[s], toSender'[s] = toSender[s]
    PROVE  Coming(s)' = Coming(s)
BY DEF Coming, InHand

(* A file moves from an answer to the queue of accepted files, from there   *)
(* to the worker, and piece by piece to the channel: nothing that is coming *)
(* is lost or changes its place.                                            *)
Associates(a, b, c) == (a \o b) \o c = a \o (b \o c)

ToQueue(a, b, c, d, w) == a \o b \o (c \o w) \o d = a \o b \o c \o (w \o d)

ToWorker(a, c, d, w) == a \o w \o c \o d = a \o <<>> \o (w \o c) \o d

ToWire(a, b, c, d, x) == Append(a, x) \o b \o c \o d = a \o (<<x>> \o b) \o c \o d

LEMMA Association ==
    ASSUME NEW a \in Seq(Piece), NEW b \in Seq(Piece), NEW c \in Seq(Piece)
    PROVE  Associates(a, b, c) /\ a \o b \in Seq(Piece)
<1>1. (a \o b) \o c = a \o (b \o c)
  BY ConcatAssociative
<1>2. a \o b \in Seq(Piece)
  OBVIOUS
<1>3. QED
  BY <1>1, <1>2 DEF Associates

LEMMA MovedToQueue ==
    ASSUME NEW a \in Seq(Piece), NEW b \in Seq(Piece), NEW c \in Seq(Piece),
           NEW d \in Seq(Piece), NEW w \in Seq(Piece)
    PROVE  ToQueue(a, b, c, d, w)
<1> DEFINE ab == a \o b
           abc == ab \o c
<1>1. ab \in Seq(Piece) /\ abc \in Seq(Piece)
  OBVIOUS
<1> HIDE DEF ab, abc
<1>2. Associates(ab, c, w) /\ Associates(abc, w, d)
  BY <1>1, Association
<1>3. abc \o w = ab \o (c \o w)
  BY <1>2 DEF Associates, abc
<1>4. (abc \o w) \o d = abc \o (w \o d)
  BY <1>2 DEF Associates
<1>5. (ab \o (c \o w)) \o d = abc \o (w \o d)
  BY <1>3, <1>4
<1>6. QED
  BY <1>5 DEF ab, abc, ToQueue

LEMMA MovedToWorker ==
    ASSUME NEW a \in Seq(Piece), NEW c \in Seq(Piece), NEW d \in Seq(Piece), NEW w \in Seq(Piece)
    PROVE  ToWorker(a, c, d, w)
<1>1. a \o <<>> = a
  BY ConcatEmptySeq
<1>2. (a \o w) \o c = a \o (w \o c)
  BY Association DEF Associates
<1>3. QED
  BY <1>1, <1>2 DEF ToWorker

LEMMA MovedToWire ==
    ASSUME NEW a \in Seq(Piece), NEW b \in Seq(Piece), NEW c, NEW d, NEW x \in Piece
    PROVE  ToWire(a, b, c, d, x)
<1>1. <<x>> \in Seq(Piece) /\ Append(a, x) = a \o <<x>>
  BY AppendIsConcat
<1>2. (a \o <<x>>) \o b = a \o (<<x>> \o b)
  BY <1>1, Association DEF Associates
<1>3. QED
  BY <1>1, <1>2 DEF ToWire

(* An answer is read: an accepted file goes to the queue, and no other.    *)
LEMMA AnswerComing ==
    ASSUME TypeOK, Faults = {}, OffersOnce, NEW s \in Senders,
           OnFileAccept(s) \/ OnFileReject(s)
    PROVE  Coming(s)' = Coming(s)
<1> DEFINE m == Head(toSender[s])
           a == Accepted(Tail(toSender[s]))
           w == Whole(Source[m.t])
<1>1. /\ wire[s] \in Seq(Piece) /\ InHand(s) \in Seq(Piece)
      /\ fileQ[s] \in Seq(Transfers) /\ Queued(fileQ[s]) \in Seq(Piece)
      /\ toSender[s] \in Seq(Reply) /\ toSender[s] # <<>>
      /\ toReceiver[s] \in Seq(Transfers)
  BY ComingTypes DEF OnFileAccept, OnFileReject, TypeOK
<1>2. m \in Reply /\ m.t \in Transfers /\ Tail(toSender[s]) \in Seq(Reply)
  <2>1. m \in Reply /\ Tail(toSender[s]) \in Seq(Reply)
    BY <1>1
  <2>2. QED
    BY <2>1 DEF Reply
<1>3. Accepted(toSender[s]) = Granted(m) \o a /\ a \in Seq(Piece) /\ w \in Seq(Piece)
  BY <1>1, <1>2, AcceptedFacts, WholeType
<1>4. toSender'[s] = Tail(toSender[s]) /\ wire' = wire /\ worker' = worker
  BY DEF OnFileAccept, OnFileReject, TypeOK
<1>5. Coming(s)' = wire[s] \o InHand(s) \o Queued(fileQ'[s]) \o a
  BY <1>4 DEF Coming, InHand
<1>6. Coming(s) = wire[s] \o InHand(s) \o Queued(fileQ[s]) \o (Granted(m) \o a)
  BY <1>3 DEF Coming
<1>7. CASE OnFileAccept(s)
  <2>1. m.accept /\ Granted(m) = w
    BY <1>7 DEF OnFileAccept, Granted
  <2>2. m.t \in pending
    <3>1. Once(s, toReceiver[s], toSender[s], pending)
      BY DEF OffersOnce
    <3>2. QED
      BY <1>1, <3>1, OnceFirst
  <2>3. fileQ' = [fileQ EXCEPT ![s] = Append(fileQ[s], m.t)]
    BY <1>7, <2>2 DEF OnFileAccept
  <2>4. fileQ'[s] = Append(fileQ[s], m.t)
    BY <2>3 DEF TypeOK
  <2>5. Queued(fileQ'[s]) = Queued(fileQ[s]) \o w
    BY <1>1, <1>2, <2>4, QueuedFacts
  <2>6. wire[s] \o InHand(s) \o (Queued(fileQ[s]) \o w) \o a
          = wire[s] \o InHand(s) \o Queued(fileQ[s]) \o (w \o a)
    <3> HIDE DEF a, w
    <3>1. ToQueue(wire[s], InHand(s), Queued(fileQ[s]), a, w)
      BY <1>1, <1>3, MovedToQueue
    <3>2. QED
      BY <3>1 DEF ToQueue
  <2> HIDE DEF a, w
  <2>7. QED
    BY <1>5, <1>6, <2>1, <2>5, <2>6
<1>8. CASE OnFileReject(s)
  <2>1. Granted(m) = <<>> /\ fileQ' = fileQ
    BY <1>8 DEF OnFileReject, Granted
  <2>2. <<>> \o a = a
    BY <1>3, ConcatEmptySeq
  <2>3. QED
    BY <1>5, <1>6, <2>1, <2>2
<1>9. QED
  BY <1>7, <1>8

(* The worker takes a file: it is in hand from its first piece on. *)
LEMMA TakeComing ==
    ASSUME TypeOK, Faults = {}, NEW s \in Senders, TakeFile(s)
    PROVE  /\ Coming(s)' = Coming(s)
           /\ worker' = [worker EXCEPT ![s] = [t |-> Head(fileQ[s]),
                             len |-> Length[Source[Head(fileQ[s])]], sent |-> 0]]
           /\ Head(fileQ[s]) \in Transfers
<1> DEFINE t == Head(fileQ[s])
           job == [t |-> t, len |-> Length[Source[t]], sent |-> 0]
           w == Whole(Source[t])
           r == Queued(Tail(fileQ[s]))
           a == Accepted(toSender[s])
<1>1. /\ wire[s] \in Seq(Piece) /\ a \in Seq(Piece)
      /\ fileQ[s] \in Seq(Transfers) /\ fileQ[s] # <<>> /\ worker[s] = Idle
  BY ComingTypes DEF TakeFile
<1>2. t \in Transfers /\ Tail(fileQ[s]) \in Seq(Transfers)
  BY <1>1
<1>3. Queued(fileQ[s]) = w \o r /\ r \in Seq(Piece) /\ w \in Seq(Piece)
  BY <1>1, <1>2, QueuedFacts, WholeType
<1>4. /\ fileQ' = [fileQ EXCEPT ![s] = Tail(fileQ[s])]
      /\ worker' = [worker EXCEPT ![s] = job]
      /\ UNCHANGED <<toSender, wire>>
  BY DEF TakeFile, ReadLengths
<1>5. fileQ'[s] = Tail(fileQ[s]) /\ worker'[s] = job
  BY <1>4 DEF TypeOK
<1>6. job # Idle
  BY <1>2, ConstantsAssumption DEF Idle
<1>7. InHand(s) = <<>>
  BY <1>1 DEF InHand
<1>8. InHand(s)' = w
  <2>1. RestOf(t, 0) = w
    BY <1>2, RestOfFacts
  <2>2. InHand(s)' = RestOf(worker'[s].t, worker'[s].sent)
    BY <1>5, <1>6 DEF InHand
  <2>3. QED
    BY <1>5, <2>1, <2>2
<1>9. Coming(s)' = wire[s] \o w \o r \o a
  BY <1>4, <1>5, <1>8 DEF Coming
<1>10. Coming(s) = wire[s] \o <<>> \o (w \o r) \o a
  BY <1>3, <1>7 DEF Coming
<1> HIDE DEF w, r, a
<1>11. wire[s] \o w \o r \o a = wire[s] \o <<>> \o (w \o r) \o a
  <2>1. ToWorker(wire[s], r, a, w)
    BY <1>1, <1>3, MovedToWorker
  <2>2. QED
    BY <2>1 DEF ToWorker
<1>12. QED
  BY <1>2, <1>4, <1>9, <1>10, <1>11

(* A piece is sent. *)
LEMMA SendComing ==
    ASSUME TypeOK, WorkerInStep, NEW s \in Senders, SendChunk(s)
    PROVE  /\ Coming(s)' = Coming(s)
           /\ worker' = [worker EXCEPT ![s] = [worker[s] EXCEPT !.sent = @ + 1]]
           /\ worker[s] \in [t : Transfers, len : Nat, sent : Nat]
           /\ worker[s].sent + 1 <= Messages(worker[s].len)
<1> DEFINE j == worker[s]
           t == worker[s].t
           n == worker[s].sent
           w == Whole(Source[t])
           x == w[n + 1]
           r == RestOf(t, n + 1)
           q == Queued(fileQ[s])
           a == Accepted(toSender[s])
<1>1. /\ wire[s] \in Seq(Piece) /\ q \in Seq(Piece) /\ a \in Seq(Piece)
      /\ j # Idle /\ t \in Transfers /\ n \in Nat
      /\ j \in [t : Transfers, len : Nat, sent : Nat]
  BY ComingTypes DEF SendChunk, TypeOK
<1>2. j.len = Length[Source[t]]
  BY <1>1 DEF WorkerInStep
<1>3. /\ Cut(Source[t], j.len) = w /\ w \in Seq(Piece)
      /\ Len(w) = Messages(j.len) /\ Messages(j.len) \in Nat
  BY <1>1, <1>2, WholeType DEF Whole
<1>4. /\ n < Len(w)
      /\ wire' = [wire EXCEPT ![s] = Append(wire[s], x)]
      /\ worker' = [worker EXCEPT ![s] = [j EXCEPT !.sent = @ + 1]]
      /\ UNCHANGED <<toSender, fileQ>>
  BY <1>3 DEF SendChunk
<1>5. n + 1 <= Messages(j.len) /\ n + 1 \in 1 .. Len(w)
  BY <1>1, <1>3, <1>4
<1>6. x \in Piece
  BY <1>3, <1>5
<1>7. InHand(s) = <<x>> \o r /\ r \in Seq(Piece)
  <2>1. n < Messages(Length[Source[t]])
    BY <1>1, <1>2, <1>3, <1>4
  <2>2. RestOf(t, n) = <<x>> \o r
    BY <1>1, <2>1, RestOfFacts
  <2>3. n + 1 \in Nat
    BY <1>1
  <2>4. r \in Seq(Piece)
    BY <1>1, <2>3, RestOfFacts
  <2>5. QED
    BY <1>1, <2>2, <2>4 DEF InHand
<1>8. wire'[s] = Append(wire[s], x) /\ worker'[s] = [j EXCEPT !.sent = @ + 1]
  BY <1>4 DEF TypeOK
<1>9. worker'[s].t = t /\ worker'[s].sent = n + 1
  BY <1>1, <1>8
<1>10. InHand(s)' = r
  <2>1. worker'[s] # Idle
    BY <1>1, <1>9, ConstantsAssumption DEF Idle
  <2>2. InHand(s)' = RestOf(worker'[s].t, worker'[s].sent)
    BY <2>1 DEF InHand
  <2>3. QED
    BY <1>9, <2>2
<1>11. Coming(s)' = Append(wire[s], x) \o r \o q \o a
  BY <1>4, <1>8, <1>10 DEF Coming
<1>12. Coming(s) = wire[s] \o (<<x>> \o r) \o q \o a
  BY <1>7 DEF Coming
<1> HIDE DEF x, r, q, a
<1>13. Append(wire[s], x) \o r \o q \o a = wire[s] \o (<<x>> \o r) \o q \o a
  <2>1. ToWire(wire[s], r, q, a, x)
    BY <1>1, <1>6, <1>7, MovedToWire
  <2>2. QED
    BY <2>1 DEF ToWire
<1>14. QED
  BY <1>1, <1>4, <1>5, <1>11, <1>12, <1>13

(* The file in hand is done with when all of it has been sent. *)
LEMMA FinishComing ==
    ASSUME TypeOK, WorkerInStep, NEW s \in Senders, FinishFile(s)
    PROVE  Coming(s)' = Coming(s)
<1>1. /\ worker[s] # Idle /\ worker[s].t \in Transfers /\ worker[s].sent \in Nat
      /\ worker[s].len = Length[Source[worker[s].t]]
  BY ComingTypes DEF FinishFile, WorkerInStep
<1>2. Len(Cut(Source[worker[s].t], worker[s].len)) = Messages(Length[Source[worker[s].t]])
  BY <1>1, WholeType DEF Whole
<1>3. worker[s].sent = Messages(Length[Source[worker[s].t]])
  BY <1>2 DEF FinishFile
<1>4. InHand(s) = <<>>
  <2> DEFINE t == worker[s].t
             n == worker[s].sent
  <2>0. t \in Transfers /\ n \in Nat /\ n >= Messages(Length[Source[t]])
    BY <1>1, <1>3
  <2> HIDE DEF t, n
  <2>1. RestOf(t, n) = <<>>
    BY <2>0, RestOfFacts
  <2>2. QED
    BY <1>1, <2>1 DEF InHand, t, n
<1>5. InHand(s)' = <<>>
  <2>1. worker'[s] = Idle
    BY DEF FinishFile, TypeOK
  <2>2. QED
    BY <2>1 DEF InHand
<1>6. QED
  BY <1>4, <1>5 DEF FinishFile, Coming

(* The worker reads files of the offered size, and no further.             *)
LEMMA WorkerInStepStep ==
    ASSUME TypeOK, Faults = {}, WorkerInStep, [Next]_vars
    PROVE  WorkerInStep'
<1>1. CASE UNCHANGED worker
  BY <1>1 DEF WorkerInStep
<1>2. ASSUME NEW s \in Senders, TakeFile(s)
      PROVE  WorkerInStep'
  <2> DEFINE t == Head(fileQ[s])
             job == [t |-> t, len |-> Length[Source[t]], sent |-> 0]
  <2>1. worker' = [worker EXCEPT ![s] = job] /\ t \in Transfers
    BY <1>2, TakeComing
  <2>2. job.len = Length[Source[job.t]] /\ job.sent <= Messages(job.len)
    <3>1. Messages(Length[Source[t]]) \in Nat
      BY <2>1, WholeType
    <3>2. QED
      BY <3>1
  <2> HIDE DEF job, t
  <2>3. worker'[s] = job /\ \A o \in Senders : o # s => worker'[o] = worker[o]
    BY <2>1 DEF TypeOK
  <2>4. QED
    BY <2>2, <2>3 DEF WorkerInStep
<1>3. ASSUME NEW s \in Senders, SendChunk(s)
      PROVE  WorkerInStep'
  <2> DEFINE job == [worker[s] EXCEPT !.sent = @ + 1]
  <2>1. /\ worker' = [worker EXCEPT ![s] = job]
        /\ worker[s] \in [t : Transfers, len : Nat, sent : Nat]
        /\ worker[s].sent + 1 <= Messages(worker[s].len)
    BY <1>3, SendComing
  <2>2. worker[s] # Idle
    BY <1>3 DEF SendChunk
  <2>3. job.len = Length[Source[job.t]] /\ job.sent <= Messages(job.len)
    <3>1. job.len = worker[s].len /\ job.t = worker[s].t /\ job.sent = worker[s].sent + 1
      BY <2>1
    <3>2. QED
      BY <2>1, <2>2, <3>1 DEF WorkerInStep
  <2> HIDE DEF job
  <2>4. worker'[s] = job /\ \A o \in Senders : o # s => worker'[o] = worker[o]
    BY <2>1 DEF TypeOK
  <2>5. QED
    BY <2>3, <2>4 DEF WorkerInStep
<1>4. ASSUME NEW s \in Senders, FinishFile(s)
      PROVE  WorkerInStep'
  <2>1. worker'[s] = Idle /\ \A o \in Senders : o # s => worker'[o] = worker[o]
    BY <1>4 DEF FinishFile, TypeOK
  <2>2. QED
    BY <2>1 DEF WorkerInStep
<1>5. ASSUME NEW s \in Senders,
             OnFileAccept(s) \/ OnFileReject(s) \/ OnFileOffer(s) \/ OnIncomingChunk(s)
      PROVE  WorkerInStep'
  <2>1. UNCHANGED worker
    BY <1>5 DEF OnFileAccept, OnFileReject, OnFileOffer, OnIncomingChunk, senderVars
  <2>2. QED
    BY <1>1, <2>1
<1>6. ASSUME NEW t \in Transfers, SendFileOffer(t)
      PROVE  WorkerInStep'
  BY <1>1, <1>6 DEF SendFileOffer
<1>7. CASE UNCHANGED vars
  BY <1>1, <1>7 DEF vars
<1>8. \A s \in Senders : ~Drop(s)
  BY DEF Drop
<1>9. QED
  BY <1>2, <1>3, <1>4, <1>5, <1>6, <1>7, <1>8 DEF Next, SenderStep, ReceiverStep

----------------------------------------------------------------------------
(* The receiver's steps *)

(* A queue of one new file, or with a new file behind those there are. *)
LEMMA EnqueuedShape ==
    ASSUME NEW q \in Seq(IncomingFile), NEW e \in IncomingFile
    PROVE  /\ Enqueued(q, e) \in Seq(IncomingFile)
           /\ Enqueued(q, e) # <<>>
           /\ Len(Enqueued(q, e)) = Len(q) + 1
           /\ Enqueued(q, e)[Len(q) + 1] = e
           /\ \A i \in DOMAIN q : Enqueued(q, e)[i] = q[i] /\ i # Len(q) + 1
           /\ \A i \in DOMAIN Enqueued(q, e) : i \in DOMAIN q \/ i = Len(q) + 1
           /\ Len(Enqueued(q, e)) = 1 => q = <<>>
           /\ Len(Enqueued(q, e)) # 1 => 1 \in DOMAIN q /\ Head(Enqueued(q, e)) = Head(q)
<1> DEFINE r == Append(q, e)
           n == Len(q)
<1>1. /\ n \in Nat /\ DOMAIN q = 1 .. n /\ r \in Seq(IncomingFile) /\ Len(r) = n + 1
      /\ DOMAIN r = 1 .. n + 1 /\ r[n + 1] = e /\ \A i \in 1 .. n : r[i] = q[i]
  OBVIOUS
<1>2. n = 0 => q = <<>>
  OBVIOUS
<1>3. r # <<>> /\ Head(r) = r[1] /\ (n # 0 => Head(q) = q[1])
  BY <1>1
<1> HIDE DEF r, n
<1>4. n + 1 = 1 => n = 0
  BY <1>1
<1>5. n + 1 # 1 => 1 \in 1 .. n /\ n # 0
  BY <1>1
<1>6. \A i \in 1 .. n : i # n + 1
  BY <1>1
<1>7. \A i \in 1 .. n + 1 : i \in 1 .. n \/ i = n + 1
  BY <1>1
<1>8. QED
  BY <1>1, <1>2, <1>3, <1>4, <1>5, <1>6, <1>7 DEF r, n, Enqueued

(* What an answer adds to what is coming. *)
AtEnd(a, b, c, d, w) == a \o b \o c \o (d \o w) = a \o b \o c \o d \o w

LEMMA AddedAtEnd ==
    ASSUME NEW a \in Seq(Piece), NEW b \in Seq(Piece), NEW c \in Seq(Piece),
           NEW d \in Seq(Piece), NEW w \in Seq(Piece)
    PROVE  AtEnd(a, b, c, d, w)
<1> DEFINE abc == a \o b \o c
<1>1. abc \in Seq(Piece)
  OBVIOUS
<1> HIDE DEF abc
<1>2. (abc \o d) \o w = abc \o (d \o w)
  BY <1>1, Association DEF Associates
<1>3. QED
  BY <1>2 DEF abc, AtEnd

LEMMA AnsweredComing ==
    ASSUME TypeOK, NEW s \in Senders, NEW m \in Reply,
           toSender' = [toSender EXCEPT ![s] = Append(toSender[s], m)],
           UNCHANGED <<fileQ, worker, wire>>
    PROVE  Coming(s)' = Coming(s) \o Granted(m)
<1> DEFINE g == Granted(m)
           a == Accepted(toSender[s])
           q == Queued(fileQ[s])
<1>1. /\ wire[s] \in Seq(Piece) /\ InHand(s) \in Seq(Piece) /\ q \in Seq(Piece)
      /\ toSender[s] \in Seq(Reply) /\ a \in Seq(Piece)
  BY ComingTypes
<1>2. g \in Seq(Piece)
  <2>1. m.t \in Transfers
    BY DEF Reply
  <2>2. QED
    BY <2>1, WholeType DEF Granted
<1>3. toSender'[s] = Append(toSender[s], m)
  BY DEF TypeOK
<1>4. Accepted(toSender'[s]) = a \o g
  BY <1>1, <1>3, AcceptedFacts
<1>5. Coming(s)' = wire[s] \o InHand(s) \o q \o (a \o g)
  BY <1>4 DEF Coming, InHand
<1>6. Coming(s) = wire[s] \o InHand(s) \o q \o a
  BY DEF Coming
<1> HIDE DEF g, a, q
<1>7. AtEnd(wire[s], InHand(s), q, a, g)
  BY <1>1, <1>2, AddedAtEnd
<1>8. QED
  BY <1>5, <1>6, <1>7 DEF AtEnd, g

(* The receiver's queues without a step of the receiver. *)
LEMMA ExpectedUnchanged ==
    ASSUME UNCHANGED receiverVars
    PROVE  /\ QueueInStep => QueueInStep'
           /\ SavedAsOffered => SavedAsOffered'
           /\ \A o : Expected(o)' = Expected(o)
BY DEF receiverVars, QueueInStep, Counted, SavedAsOffered, Expected

(* An accepted offer: the new file waits for its pieces, which the accept  *)
(* puts at the end of what is coming.                                      *)
LEMMA OfferInStep ==
    ASSUME Intact, IntactInv, NEW s \in Senders, OnFileOffer(s)
    PROVE  /\ QueueInStep' /\ SavedAsOffered'
           /\ Coming(s)' = Expected(s)'
           /\ \A o \in Senders : o # s => Expected(o)' = Expected(o)
<1> DEFINE t == Head(toReceiver[s])
           m == [t |-> t, accept |-> ~Duplicate(t)]
           e == Entry(t)
           q == Enqueued(incoming[s], e)
           w == Whole(Source[t])
<1>1. /\ TypeOK /\ QueueInStep /\ SavedAsOffered /\ Coming(s) = Expected(s)
      /\ incoming \in [Senders -> Seq(IncomingFile)]
  BY DEF IntactInv, Inv, TypeOK, IncomingFile, StreamAligned
<1>2. /\ toReceiver[s] # <<>> /\ toReceiver[s] \in Seq(Transfers)
      /\ toSender[s] \in Seq(Reply) /\ incoming[s] \in Seq(IncomingFile)
  BY <1>1, ComingTypes DEF OnFileOffer, TypeOK
<1>3. t \in Transfers /\ From[t] = s
  <2>1. t \in Transfers
    BY <1>2
  <2>2. Once(s, toReceiver[s], toSender[s], pending)
    BY DEF IntactInv, OffersOnce
  <2>3. QED
    BY <1>2, <2>1, <2>2, OnceFirst
<1>4. m \in Reply /\ m.t = t /\ m.accept = ~Duplicate(t)
  BY <1>3 DEF Reply, Duplicate
<1>5. e \in IncomingFile /\ ~e.open /\ e.t = t /\ e.got = 0
      /\ RestOf(e.t, Messages(e.got)) = w /\ w \in Seq(Piece)
  BY <1>3, AwaitedNew, WholeType
<1>6. /\ toSender' = [toSender EXCEPT ![s] = Append(toSender[s], m)]
      /\ UNCHANGED <<fileQ, worker, wire>>
  BY DEF OnFileOffer
<1>7. IF Duplicate(t) THEN UNCHANGED receiverVars
      ELSE IF Len(q) = 1 THEN StartNextIncoming(s, q, disk, saved)
      ELSE incoming' = [incoming EXCEPT ![s] = q] /\ UNCHANGED <<disk, saved>>
  BY DEF OnFileOffer, StartsAlone
<1> HIDE DEF m
<1>8. Coming(s)' = Expected(s) \o Granted(m)
  BY <1>1, <1>4, <1>6, AnsweredComing
<1>9. /\ Awaited(incoming[s]) \in Seq(Piece)
      /\ Awaited(q) = Awaited(incoming[s]) \o w
  BY <1>2, <1>5, AwaitedFacts DEF Enqueued
<1> HIDE DEF e, w
<1>10. /\ q \in Seq(IncomingFile) /\ q # <<>>
       /\ q[Len(incoming[s]) + 1] = e
       /\ \A i \in DOMAIN incoming[s] : q[i] = incoming[s][i] /\ i # Len(incoming[s]) + 1
       /\ \A i \in DOMAIN q : i \in DOMAIN incoming[s] \/ i = Len(incoming[s]) + 1
       /\ Len(q) = 1 => incoming[s] = <<>>
       /\ Len(q) # 1 => 1 \in DOMAIN incoming[s] /\ Head(q) = Head(incoming[s])
  <2> DEFINE p == incoming[s]
             r == Enqueued(p, e)
  <2>1. p \in Seq(IncomingFile) /\ e \in IncomingFile
    BY <1>2, <1>5
  <2> HIDE DEF p
  <2>2. /\ r \in Seq(IncomingFile) /\ r # <<>>
        /\ r[Len(p) + 1] = e
        /\ \A i \in DOMAIN p : r[i] = p[i] /\ i # Len(p) + 1
        /\ \A i \in DOMAIN r : i \in DOMAIN p \/ i = Len(p) + 1
        /\ Len(r) = 1 => p = <<>>
        /\ Len(r) # 1 => 1 \in DOMAIN p /\ Head(r) = Head(p)
    BY <2>1, EnqueuedShape
  <2>3. QED
    BY <2>2 DEF p
<1> HIDE DEF t, q
<1>11. CASE Duplicate(t)
  <2>1. Granted(m) = <<>>
    BY <1>4, <1>11 DEF Granted
  <2>2. Expected(s) \o <<>> = Expected(s)
    BY <1>9, ConcatEmptySeq DEF Expected
  <2>3. UNCHANGED receiverVars
    BY <1>7, <1>11
  <2>4. QED
    BY <1>1, <1>8, <2>1, <2>2, <2>3, ExpectedUnchanged
<1>12. CASE ~Duplicate(t)
  <2>1. Granted(m) = w
    BY <1>4, <1>12 DEF Granted, w, t
  <2>2. Coming(s)' = Awaited(q)
    BY <1>8, <1>9, <2>1 DEF Expected
  <2>3. CASE Len(q) = 1
    <3>1. StartNextIncoming(s, q, disk, saved)
      BY <1>7, <1>12, <2>3
    <3>2. Untouched(s, q)
      <4>1. \A i \in DOMAIN q : q[i] = e
        BY <1>10, <2>3
      <4>2. QED
        BY <1>3, <1>5, <4>1 DEF Untouched
    <3>3. \A i \in DOMAIN q : From[q[i].t] = s
      BY <3>2 DEF Untouched
    <3>4. PICK k \in 0 .. Len(q) : StartsAfter(s, q, k, disk, saved)
      BY <1>1, <1>10, <3>1, <3>3, StartsAfterEmpty
    <3>5. DiffersFor(s, disk)
      BY DEF DiffersFor
    <3>6. QueueInStep'
      BY <1>1, <1>10, <3>2, <3>4, <3>5, StartsInStep
    <3>7. SavedAsOffered'
      BY <1>1, <1>10, <3>4, StartsSaved DEF SavedAsOffered
    <3>8. Expected(s)' = Awaited(q) /\ \A o \in Senders : o # s => Expected(o)' = Expected(o)
      BY <1>1, <1>10, <3>2, <3>4, StartsExpects
    <3>9. QED
      BY <2>2, <3>6, <3>7, <3>8
  <2>4. CASE Len(q) # 1
    <3>1. incoming' = [incoming EXCEPT ![s] = q] /\ UNCHANGED <<disk, saved>>
      BY <1>7, <1>12, <2>4
    <3>2. incoming'[s] = q /\ \A o \in Senders : o # s => incoming'[o] = incoming[o]
      BY <1>1, <3>1
    <3>3. SavedAsOffered'
      BY <1>1, <3>1 DEF SavedAsOffered
    <3>4. \A x : Counted(x) => Counted(x)'
      BY <3>1 DEF Counted
    <3>5. PICK r : r = q
      OBVIOUS
    <3>6. QueueInStep'
      <4>1. ASSUME NEW i \in DOMAIN r
            PROVE  From[r[i].t] = s /\ (i = 1 => Counted(r[i])') /\ (i # 1 => r[i].got = 0)
        <5>1. CASE i \in DOMAIN incoming[s]
          <6>1. r[i] = incoming[s][i]
            BY <1>10, <3>5, <5>1
          <6>2. /\ From[incoming[s][i].t] = s
                /\ i = 1 => Counted(incoming[s][i])
                /\ i # 1 => incoming[s][i].got = 0
            BY <1>1, <5>1 DEF QueueInStep
          <6>3. i = 1 => Counted(r[i])
            BY <6>1, <6>2
          <6>4. Counted(r[i]) => Counted(r[i])'
            BY <3>4
          <6>5. QED
            BY <6>1, <6>2, <6>3, <6>4
        <5>2. CASE i = Len(incoming[s]) + 1
          <6>1. i # 1 /\ r[i] = e
            BY <1>10, <2>4, <3>5, <5>2
          <6>2. From[e.t] = s /\ e.got = 0
            BY <1>3, <1>5
          <6>3. QED
            BY <6>1, <6>2
        <5>3. QED
          BY <1>10, <3>5, <4>1, <5>1, <5>2
      <4>2. ASSUME NEW o \in Senders, NEW i \in DOMAIN incoming'[o]
            PROVE  /\ From[incoming'[o][i].t] = o
                   /\ IF i = 1 THEN Counted(incoming[o][i])' ELSE incoming'[o][i].got = 0
        <5>1. CASE o = s
          <6>1. incoming'[o] = r
            BY <3>2, <3>5, <5>1
          <6>2. From[r[i].t] = s /\ (i = 1 => Counted(r[i])') /\ (i # 1 => r[i].got = 0)
            BY <4>1, <4>2, <6>1
          <6>3. Counted(r[i])' => Counted(incoming[o][i])'
            BY <6>1 DEF Counted
          <6>4. QED
            BY <5>1, <6>1, <6>2, <6>3
        <5>2. CASE o # s
          <6>1. incoming'[o] = incoming[o] /\ i \in DOMAIN incoming[o]
            BY <3>2, <4>2, <5>2
          <6>2. /\ From[incoming[o][i].t] = o
                /\ i = 1 => Counted(incoming[o][i])
                /\ i # 1 => incoming[o][i].got = 0
            BY <1>1, <6>1 DEF QueueInStep
          <6>3. Counted(incoming[o][i]) => Counted(incoming[o][i])'
            BY <3>1, <6>1 DEF Counted
          <6>4. QED
            BY <6>1, <6>2, <6>3
        <5>3. QED
          BY <5>1, <5>2
      <4>3. QED
        BY <4>2 DEF QueueInStep
    <3>7. Expected(s)' = Awaited(q) /\ \A o \in Senders : o # s => Expected(o)' = Expected(o)
      BY <3>2 DEF Expected
    <3>8. QED
      BY <2>2, <3>3, <3>6, <3>7
  <2>5. QED
    BY <2>3, <2>4
<1>13. QED
  BY <1>11, <1>12

(* The first piece of a stream, and those behind it. *)
Behind(x, a, b, c, d) == (<<x>> \o a) \o b \o c \o d = <<x>> \o (a \o b \o c \o d)

LEMMA FirstOfAll ==
    ASSUME NEW x \in Piece, NEW a \in Seq(Piece), NEW b \in Seq(Piece), NEW c \in Seq(Piece),
           NEW d \in Seq(Piece)
    PROVE  Behind(x, a, b, c, d) /\ a \o b \o c \o d \in Seq(Piece)
<1> DEFINE y == <<x>>
           ab == a \o b
           abc == ab \o c
<1>1. y \in Seq(Piece) /\ ab \in Seq(Piece) /\ abc \in Seq(Piece) /\ abc \o d \in Seq(Piece)
  OBVIOUS
<1> HIDE DEF y, ab, abc
<1>2. Associates(y, a, b) /\ Associates(y, ab, c) /\ Associates(y, abc, d)
  BY <1>1, Association
<1>3. (y \o a) \o b = y \o ab
  BY <1>2 DEF Associates, ab
<1>4. (y \o ab) \o c = y \o abc
  BY <1>2 DEF Associates, abc
<1>5. (y \o abc) \o d = y \o (abc \o d)
  BY <1>2 DEF Associates
<1>6. ((y \o a) \o b \o c) \o d = y \o (abc \o d)
  BY <1>3, <1>4, <1>5
<1>7. QED
  BY <1>1, <1>6 DEF y, ab, abc, Behind

LEMMA SameFirst ==
    ASSUME NEW x \in Piece, NEW y \in Piece, NEW a \in Seq(Piece), NEW b \in Seq(Piece),
           <<x>> \o a = <<y>> \o b
    PROVE  x = y /\ a = b
<1> DEFINE p == <<x>> \o a
           r == <<y>> \o b
<1>1. /\ Len(a) \in Nat /\ Len(b) \in Nat
      /\ Len(p) = 1 + Len(a) /\ Len(r) = 1 + Len(b)
      /\ p[1] = x /\ r[1] = y
      /\ \A i \in 1 .. Len(a) : p[i + 1] = a[i]
      /\ \A i \in 1 .. Len(b) : r[i + 1] = b[i]
  OBVIOUS
<1>2. p = r
  OBVIOUS
<1> HIDE DEF p, r
<1>3. Len(a) = Len(b)
  BY <1>1, <1>2
<1>4. x = y
  BY <1>1, <1>2
<1>5. \A i \in 1 .. Len(a) : a[i] = b[i]
  BY <1>1, <1>2, <1>3
<1>6. a = b
  BY <1>3, <1>5
<1>7. QED
  BY <1>4, <1>6

(* One more leading piece of a file. *)
LEMMA LeadingPieces ==
    ASSUME NEW w \in Seq(Piece), NEW n \in Nat, n < Len(w)
    PROVE  Append(SubSeq(w, 1, n), w[n + 1]) = SubSeq(w, 1, n + 1)
<1>1. /\ Len(w) \in Nat /\ 1 \in 1 .. Len(w) /\ n + 1 \in 1 .. Len(w)
      /\ (n + 1) - 1 = n /\ w[n + 1] \in Piece
  OBVIOUS
<1> DEFINE u == SubSeq(w, 1, n)
<1>2. SubSeq(w, 1, n + 1) = u \o <<w[n + 1]>>
  BY <1>1, SubSeqRecursiveSecond
<1>3. u \in Seq(Piece)
  <2>1. \A i \in 1 .. n : w[i] \in Piece
    BY <1>1
  <2>2. QED
    BY <2>1, SubSeqProperties
<1> HIDE DEF u
<1>4. Append(u, w[n + 1]) = u \o <<w[n + 1]>>
  BY <1>1, <1>3, AppendIsConcat
<1>5. QED
  BY <1>2, <1>4 DEF u

(* The chunk that arrives is the next piece of the file at the front of the *)
(* queue, which it completes when it is the last, and what is coming after  *)
(* it is the rest of that file and the files behind it.                     *)
ChunkFits(s, e, n) ==
    /\ incoming[s] # <<>> /\ e = Head(incoming[s]) /\ e.open
    /\ e \in IncomingFile /\ e.t \in Transfers /\ From[e.t] = s /\ e.got \in Nat
    /\ n \in Nat /\ n < Len(Whole(Source[e.t]))
    /\ e.got = n * MaxMessage
    /\ disk[Dest[e.t]] = SubSeq(Whole(Source[e.t]), 1, n)
    /\ Head(wire[s]) = Whole(Source[e.t])[n + 1]
    /\ Head(wire[s]).len \in Nat
    /\ Complete(e, e.got + Head(wire[s]).len) <=> n + 1 = Len(Whole(Source[e.t]))
    /\ ~Complete(e, e.got + Head(wire[s]).len) =>
          e.got + Head(wire[s]).len = (n + 1) * MaxMessage
    /\ Append(disk[Dest[e.t]], Head(wire[s])) = SubSeq(Whole(Source[e.t]), 1, n + 1)

LEMMA ChunkFitsFront ==
    ASSUME Intact, IntactInv, NEW s \in Senders, OnIncomingChunk(s)
    PROVE  /\ ChunkFits(s, Head(incoming[s]), Messages(Head(incoming[s]).got))
           /\ Coming(s)' = RestOf(Head(incoming[s]).t, Messages(Head(incoming[s]).got) + 1)
                             \o Awaited(Tail(incoming[s]))
<1> DEFINE e == Head(incoming[s])
           n == Messages(e.got)
           w == Whole(Source[e.t])
           c == Head(wire[s])
           h == InHand(s)
           q == Queued(fileQ[s])
           a == Accepted(toSender[s])
           b == Awaited(Tail(incoming[s]))
           r == RestOf(e.t, n + 1)
           z == Tail(wire[s])
<1>1. TypeOK /\ QueueInStep /\ FrontOnlyOpen /\ Coming(s) = Expected(s)
  BY DEF IntactInv, Inv, StreamAligned
<1>2. /\ wire[s] \in Seq(Piece) /\ wire[s] # <<>> /\ h \in Seq(Piece)
      /\ q \in Seq(Piece) /\ a \in Seq(Piece) /\ incoming[s] \in Seq(IncomingFile)
  BY <1>1, ComingTypes DEF OnIncomingChunk
<1>3. c \in Piece /\ z \in Seq(Piece) /\ wire[s] = <<c>> \o z
  <2> DEFINE x == wire[s]
  <2>1. x \in Seq(Piece) /\ x # <<>>
    BY <1>2
  <2> HIDE DEF x
  <2>2. Head(x) \in Piece /\ Tail(x) \in Seq(Piece) /\ x = <<Head(x)>> \o Tail(x)
    <3>1. Head(x) \in Piece /\ Tail(x) \in Seq(Piece)
      BY <2>1
    <3>2. Len(x) = 1 + Len(Tail(x)) /\ Len(Tail(x)) \in Nat /\ Head(x) = x[1]
          /\ \A i \in 1 .. Len(Tail(x)) : Tail(x)[i] = x[i + 1]
      BY <2>1
    <3>3. x = <<Head(x)>> \o Tail(x)
      BY <2>1, <3>1, <3>2
    <3>4. QED
      BY <3>1, <3>3
  <2>3. QED
    BY <2>2 DEF x
<1>4. Coming(s)' = z \o h \o q \o a
  <2>1. UNCHANGED <<worker, fileQ, toSender>> /\ wire' = [wire EXCEPT ![s] = z]
    BY DEF OnIncomingChunk, senderVars
  <2>2. wire'[s] = z
    BY <1>1, <2>1 DEF TypeOK
  <2>3. QED
    BY <2>1, <2>2 DEF Coming, InHand
<1>5. Coming(s) = <<c>> \o (z \o h \o q \o a) /\ z \o h \o q \o a \in Seq(Piece)
  <2> HIDE DEF c, z, h, q, a
  <2>1. Behind(c, z, h, q, a) /\ z \o h \o q \o a \in Seq(Piece)
    BY <1>2, <1>3, FirstOfAll
  <2>2. Coming(s) = wire[s] \o h \o q \o a
    BY DEF Coming, h, q, a
  <2>3. QED
    BY <1>3, <2>1, <2>2 DEF Behind
<1>6. incoming[s] # <<>>
  <2> SUFFICES ASSUME incoming[s] = <<>> PROVE FALSE
    OBVIOUS
  <2>1. Coming(s) = <<>>
    BY <1>1, AwaitedNew DEF Expected
  <2> HIDE DEF c, z, h, q, a
  <2> DEFINE y == z \o h \o q \o a
  <2>2. y \in Seq(Piece) /\ <<c>> \o y = <<>>
    BY <1>5, <2>1
  <2> HIDE DEF y
  <2>3. Len(<<c>> \o y) = 1 + Len(y) /\ Len(y) \in Nat
    BY <1>3, <2>2
  <2>4. QED
    BY <2>2, <2>3
<1>7. /\ e = incoming[s][1] /\ 1 \in DOMAIN incoming[s]
      /\ e \in IncomingFile /\ Tail(incoming[s]) \in Seq(IncomingFile)
  BY <1>2, <1>6
<1>8. e.t \in Transfers /\ e.got \in Nat /\ From[e.t] = s /\ Counted(e) /\ e.open
  BY <1>1, <1>7 DEF IncomingFile, QueueInStep, FrontOnlyOpen
<1>9. /\ w \in Seq(Piece) /\ Len(w) = Messages(Length[Source[e.t]]) /\ Len(w) \in Nat
      /\ Length[Source[e.t]] \in Nat /\ n \in Nat
  BY <1>8, WholeType, MessagesNat
<1>10. e.got = n * MaxMessage /\ n < Len(w) /\ disk[Dest[e.t]] = SubSeq(w, 1, n)
  <2>1. e.got = n * MaxMessage /\ e.got < Length[Source[e.t]] /\ disk[Dest[e.t]] = SubSeq(w, 1, n)
    BY <1>8 DEF Counted
  <2>2. n < Messages(Length[Source[e.t]])
    BY <1>9, <2>1, MessagesLeft
  <2>3. QED
    BY <1>9, <2>1, <2>2
<1>11. Expected(s) = <<w[n + 1]>> \o (r \o b) /\ r \o b \in Seq(Piece) /\ w[n + 1] \in Piece
  <2>1. Awaited(incoming[s]) = RestOf(e.t, n) \o b
    BY <1>2, <1>6, AwaitedFacts
  <2>2. b \in Seq(Piece)
    BY <1>7, AwaitedFacts
  <2>3. RestOf(e.t, n) = <<w[n + 1]>> \o r
    BY <1>8, <1>9, <1>10, RestOfFacts
  <2>4. n + 1 \in Nat /\ n + 1 \in DOMAIN w
    BY <1>9, <1>10
  <2>5. r \in Seq(Piece) /\ w[n + 1] \in Piece /\ <<w[n + 1]>> \in Seq(Piece)
    <3>1. r \in Seq(Piece)
      <4> DEFINE t == e.t
                 k == n + 1
      <4>1. t \in Transfers /\ k \in Nat
        BY <1>8, <2>4
      <4> HIDE DEF t, k
      <4>2. RestOf(t, k) \in Seq(Piece)
        BY <4>1, RestOfFacts
      <4>3. QED
        BY <4>2 DEF t, k
    <3>2. w[n + 1] \in Piece
      BY <1>9, <2>4
    <3>3. QED
      BY <3>1, <3>2
  <2> HIDE DEF b, r
  <2> DEFINE y == <<w[n + 1]>>
  <2>6. Associates(y, r, b)
    BY <2>2, <2>5, Association
  <2>7. r \o b \in Seq(Piece)
    BY <2>2, <2>5
  <2>8. QED
    BY <2>1, <2>3, <2>5, <2>6, <2>7 DEF Associates, Expected
<1>12. c = w[n + 1] /\ z \o h \o q \o a = r \o b
  <2> DEFINE x == w[n + 1]
             y == z \o h \o q \o a
             u == r \o b
  <2> HIDE DEF c, x, y, u
  <2>1. c \in Piece /\ x \in Piece /\ y \in Seq(Piece) /\ u \in Seq(Piece)
    BY <1>3, <1>5, <1>11 DEF x, y, u
  <2>2. <<c>> \o y = <<x>> \o u
    BY <1>1, <1>5, <1>11 DEF x, y, u
  <2>3. c = x /\ y = u
    BY <2>1, <2>2, SameFirst
  <2>4. QED
    BY <2>3 DEF x, y, u
<1>13. /\ c.len \in Nat
       /\ Complete(e, e.got + c.len) <=> n + 1 = Len(w)
       /\ ~Complete(e, e.got + c.len) => e.got + c.len = (n + 1) * MaxMessage
  <2> DEFINE len == Length[Source[e.t]]
             p == n * MaxMessage
             x == Cut(Source[e.t], len)[n + 1].len
             k == (n + 1) * MaxMessage
  <2>1. c.len = x
    BY <1>12 DEF Whole
  <2>2. x \in Nat /\ (p + x >= len <=> n + 1 = Len(w)) /\ (p + x < len => p + x = k)
    <3> DEFINE t == e.t
    <3>1. t \in Transfers /\ len \in Nat /\ n \in Nat /\ n < Messages(len) /\ Len(w) = Messages(len)
      BY <1>8, <1>9, <1>10
    <3> HIDE DEF t, len, n
    <3>2. /\ Cut(Source[t], len)[n + 1].len \in Nat
          /\ n * MaxMessage + Cut(Source[t], len)[n + 1].len >= len <=> n + 1 = Messages(len)
          /\ n * MaxMessage + Cut(Source[t], len)[n + 1].len < len =>
                n * MaxMessage + Cut(Source[t], len)[n + 1].len = (n + 1) * MaxMessage
      BY <3>1, NextPiece, Zenon
    <3>3. QED
      BY <3>1, <3>2 DEF t
  <2>3. Complete(e, e.got + c.len) <=> p + x >= len
    BY <1>10, <2>1 DEF Complete
  <2>4. p \in Nat /\ len \in Nat
    BY <1>8, <1>9, <1>10
  <2> HIDE DEF len, p, x, k
  <2>5. p + x >= len \/ p + x < len
    BY <2>2, <2>4
  <2>6. QED
    BY <1>10, <2>1, <2>2, <2>3, <2>5 DEF p, k
<1>14. Append(disk[Dest[e.t]], c) = SubSeq(w, 1, n + 1)
  <2>1. Append(SubSeq(w, 1, n), w[n + 1]) = SubSeq(w, 1, n + 1)
    <3> HIDE DEF w, n
    <3>1. QED
      BY <1>9, <1>10, LeadingPieces
  <2>2. QED
    BY <1>10, <1>12, <2>1
<1>15. ChunkFits(s, e, n)
  BY <1>6, <1>7, <1>8, <1>9, <1>10, <1>12, <1>13, <1>14 DEF ChunkFits
<1>16. QED
  BY <1>4, <1>12, <1>15

(* What the receiver does with the chunk. *)
ChunkCloses(s, e, n) ==
    /\ n + 1 = Len(Whole(Source[e.t]))
    /\ \E k \in 0 .. Len(Tail(incoming[s])) :
          StartsAfter(s, Tail(incoming[s]), k,
                      [disk EXCEPT ![Dest[e.t]] = Whole(Source[e.t])],
                      [saved EXCEPT ![e.t] = Whole(Source[e.t])])

ChunkExtends(s, e, n) ==
    /\ n + 1 < Len(Whole(Source[e.t]))
    /\ incoming' = [incoming EXCEPT ![s] = [incoming[s] EXCEPT ![1].got = (n + 1) * MaxMessage]]
    /\ disk' = [disk EXCEPT ![Dest[e.t]] = SubSeq(Whole(Source[e.t]), 1, n + 1)]
    /\ UNCHANGED saved

(* Behind the front file of a sender nothing has come of its files. *)
LEMMA UntouchedTail ==
    ASSUME TypeOK, FrontOnlyOpen, QueueInStep, NEW s \in Senders, incoming[s] # <<>>
    PROVE  Tail(incoming[s]) \in Seq(IncomingFile) /\ Untouched(s, Tail(incoming[s]))
<1> DEFINE q == incoming[s]
           r == Tail(incoming[s])
<1>1. q \in Seq(IncomingFile) /\ q # <<>>
  BY DEF TypeOK, IncomingFile
<1>2. \A i \in DOMAIN q : (q[i].open <=> i = 1) /\ From[q[i].t] = s /\ (i # 1 => q[i].got = 0)
  BY DEF FrontOnlyOpen, QueueInStep
<1>3. r \in Seq(IncomingFile) /\ \A i \in DOMAIN r : ~r[i].open
  BY <1>1, <1>2, TailShape
<1>4. \A i \in DOMAIN r : r[i] = q[i + 1] /\ i + 1 \in DOMAIN q /\ i + 1 # 1
  BY <1>1
<1> HIDE DEF q
<1>5. Untouched(s, r)
  BY <1>2, <1>3, <1>4 DEF Untouched
<1>6. QED
  BY <1>3, <1>5

LEMMA ChunkSteps ==
    ASSUME Intact, IntactInv, NEW s \in Senders, OnIncomingChunk(s), NEW e, NEW n,
           ChunkFits(s, e, n)
    PROVE  ChunkCloses(s, e, n) \/ ChunkExtends(s, e, n)
<1> DEFINE c == Head(wire[s])
           w == Whole(Source[e.t])
           content == Append(disk[Dest[e.t]], c)
           q == Tail(incoming[s])
<1>1. TypeOK /\ QueueInStep /\ FrontOnlyOpen /\ incoming[s] # <<>>
  BY DEF IntactInv, Inv, ChunkFits
<1>2. /\ e = Head(incoming[s]) /\ e.open /\ e.t \in Transfers
      /\ n \in Nat /\ n < Len(w) /\ content = SubSeq(w, 1, n + 1)
      /\ Complete(e, e.got + c.len) <=> n + 1 = Len(w)
      /\ ~Complete(e, e.got + c.len) => e.got + c.len = (n + 1) * MaxMessage
  BY DEF ChunkFits
<1>3. WriteChunk(s, c)
  BY <1>1, <1>2 DEF OnIncomingChunk
<1>4. w \in Seq(Piece) /\ Len(w) \in Nat
  BY <1>2, WholeType
<1>5. \/ Complete(e, e.got + c.len) /\ CloseFront(s, content)
      \/ /\ ~Complete(e, e.got + c.len)
         /\ incoming' = [incoming EXCEPT ![s] = [incoming[s] EXCEPT ![1].got = e.got + c.len]]
         /\ disk' = [disk EXCEPT ![Dest[e.t]] = content]
         /\ UNCHANGED saved
  BY <1>2, <1>3 DEF WriteChunk, Intact
<1> HIDE DEF w, content, c
<1>6. CASE Complete(e, e.got + c.len) /\ CloseFront(s, content)
  <2>1. n + 1 = Len(w)
    BY <1>2, <1>6
  <2>2. content = w
    <3>1. SubSeq(w, 1, Len(w)) = w
      BY <1>4, SubSeqFull
    <3>2. QED
      BY <1>2, <2>1, <3>1
  <2> DEFINE disk0 == [disk EXCEPT ![Dest[e.t]] = w]
             saved0 == [saved EXCEPT ![e.t] = w]
  <2>3. StartNextIncoming(s, q, disk0, saved0)
    BY <1>2, <1>6, <2>2 DEF CloseFront
  <2>4. q \in Seq(IncomingFile) /\ Untouched(s, q)
    BY <1>1, UntouchedTail
  <2>5. \A i \in DOMAIN q : From[q[i].t] = s
    BY <2>4 DEF Untouched
  <2> HIDE DEF q, disk0, saved0
  <2>6. \E k \in 0 .. Len(q) : StartsAfter(s, q, k, disk0, saved0)
    BY <1>1, <2>3, <2>4, <2>5, StartsAfterEmpty
  <2>7. ChunkCloses(s, e, n)
    BY <2>1, <2>6 DEF ChunkCloses, q, disk0, saved0, w
  <2>8. QED
    BY <2>7
<1>7. ASSUME ~Complete(e, e.got + c.len),
             incoming' = [incoming EXCEPT ![s] = [incoming[s] EXCEPT ![1].got = e.got + c.len]],
             disk' = [disk EXCEPT ![Dest[e.t]] = content],
             UNCHANGED saved
      PROVE  ChunkExtends(s, e, n)
  <2>1. n + 1 < Len(w) /\ e.got + c.len = (n + 1) * MaxMessage
    BY <1>2, <1>4, <1>7
  <2>2. QED
    BY <1>2, <1>7, <2>1 DEF ChunkExtends, w
<1>8. QED
  BY <1>5, <1>6, <1>7

(* The receiver's queue after a chunk that does not complete the front file. *)
LEMMA ExtendedQueue ==
    ASSUME NEW q \in Seq(IncomingFile), q # <<>>, NEW g \in Nat
    PROVE  /\ [q EXCEPT ![1].got = g] \in Seq(IncomingFile)
           /\ [q EXCEPT ![1].got = g] # <<>>
           /\ Head([q EXCEPT ![1].got = g]) = [q[1] EXCEPT !.got = g]
           /\ [q EXCEPT ![1].got = g][1] = [q[1] EXCEPT !.got = g]
           /\ Tail([q EXCEPT ![1].got = g]) = Tail(q)
           /\ DOMAIN [q EXCEPT ![1].got = g] = DOMAIN q
           /\ \A i \in DOMAIN q : i # 1 => [q EXCEPT ![1].got = g][i] = q[i]
<1> DEFINE e == [q[1] EXCEPT !.got = g]
           r == [q EXCEPT ![1] = e]
<1>1. [q EXCEPT ![1].got = g] = r
  OBVIOUS
<1>2. e \in IncomingFile
  <2>1. q[1] \in IncomingFile
    OBVIOUS
  <2>2. QED
    BY <2>1 DEF IncomingFile
<1> HIDE DEF e
<1>3. /\ r \in Seq(IncomingFile) /\ Len(r) = Len(q) /\ Len(q) \in Nat /\ Len(q) >= 1
      /\ DOMAIN r = DOMAIN q /\ r[1] = e /\ \A i \in DOMAIN q : i # 1 => r[i] = q[i]
  BY <1>2
<1> HIDE DEF r
<1>4. r # <<>> /\ Head(r) = r[1]
  BY <1>3
<1>5. Tail(r) = Tail(q)
  <2>1. /\ Tail(r) \in Seq(IncomingFile) /\ Tail(q) \in Seq(IncomingFile)
        /\ Len(Tail(r)) = Len(q) - 1 /\ Len(Tail(q)) = Len(q) - 1
        /\ \A i \in 1 .. Len(q) - 1 : Tail(r)[i] = r[i + 1] /\ Tail(q)[i] = q[i + 1]
    BY <1>3, <1>4
  <2>2. \A i \in 1 .. Len(q) - 1 : i + 1 \in DOMAIN q /\ i + 1 # 1
    BY <1>3
  <2>3. \A i \in 1 .. Len(q) - 1 : Tail(r)[i] = Tail(q)[i]
    BY <1>3, <2>1, <2>2
  <2>4. QED
    BY <2>1, <2>3
<1>6. QED
  BY <1>1, <1>3, <1>4, <1>5 DEF e

(* A chunk that closes the front file. *)
LEMMA ClosesInStep ==
    ASSUME Intact, IntactInv, NEW s \in Senders, NEW e, NEW n,
           ChunkFits(s, e, n), ChunkCloses(s, e, n)
    PROVE  /\ QueueInStep' /\ SavedAsOffered'
           /\ Expected(s)' = RestOf(e.t, n + 1) \o Awaited(Tail(incoming[s]))
           /\ \A o \in Senders : o # s => Expected(o)' = Expected(o)
<1> DEFINE w == Whole(Source[e.t])
           q == Tail(incoming[s])
           disk0 == [disk EXCEPT ![Dest[e.t]] = w]
           saved0 == [saved EXCEPT ![e.t] = w]
<1>1. TypeOK /\ QueueInStep /\ FrontOnlyOpen /\ SavedAsOffered
  BY DEF IntactInv, Inv
<1>2. /\ incoming[s] # <<>> /\ e.t \in Transfers /\ From[e.t] = s
      /\ n \in Nat /\ n + 1 = Len(w)
  BY DEF ChunkFits, ChunkCloses
<1>3. q \in Seq(IncomingFile) /\ Untouched(s, q)
  BY <1>1, <1>2, UntouchedTail
<1>4. DiffersFor(s, disk0)
  <2>1. \A t \in Transfers : From[t] # s => Dest[t] # Dest[e.t]
    BY <1>2 DEF Intact, OwnFiles
  <2>2. disk \in [Dests -> Contents] /\ \A t \in Transfers : Dest[t] \in Dests
    BY <1>1 DEF TypeOK, Dests
  <2>3. QED
    BY <2>1, <2>2 DEF DiffersFor
<1>5. \A t \in Transfers : saved0[t] # Missing => saved0[t] = Whole(Source[t])
  BY <1>1, <1>2 DEF SavedAsOffered, TypeOK
<1> HIDE DEF disk0, saved0, q
<1>6. PICK k \in 0 .. Len(q) : StartsAfter(s, q, k, disk0, saved0)
  BY DEF ChunkCloses, q, disk0, saved0
<1>7. QueueInStep'
  BY <1>1, <1>3, <1>4, <1>6, StartsInStep
<1>8. SavedAsOffered'
  BY <1>3, <1>5, <1>6, StartsSaved
<1>9. Expected(s)' = Awaited(q) /\ \A o \in Senders : o # s => Expected(o)' = Expected(o)
  BY <1>1, <1>3, <1>6, StartsExpects
<1>10. RestOf(e.t, n + 1) \o Awaited(q) = Awaited(q)
  <2>1. n + 1 \in Nat /\ n + 1 >= Messages(Length[Source[e.t]])
    BY <1>2, WholeType
  <2> DEFINE m == n + 1
  <2> HIDE DEF m
  <2>2. RestOf(e.t, m) = <<>>
    BY <1>2, <2>1, RestOfFacts DEF m
  <2>3. Awaited(q) \in Seq(Piece)
    BY <1>3, AwaitedFacts
  <2>4. <<>> \o Awaited(q) = Awaited(q)
    BY <2>3, ConcatEmptySeq
  <2>5. QED
    BY <2>2, <2>4 DEF m
<1>11. QED
  BY <1>7, <1>8, <1>9, <1>10 DEF q

(* A chunk after which the front file is not whole yet. *)
LEMMA ExtendsInStep ==
    ASSUME Intact, IntactInv, NEW s \in Senders, NEW e, NEW n,
           ChunkFits(s, e, n), ChunkExtends(s, e, n)
    PROVE  /\ QueueInStep' /\ SavedAsOffered'
           /\ Expected(s)' = RestOf(e.t, n + 1) \o Awaited(Tail(incoming[s]))
           /\ \A o \in Senders : o # s => Expected(o)' = Expected(o)
<1> DEFINE w == Whole(Source[e.t])
           g == (n + 1) * MaxMessage
<1>1. TypeOK /\ QueueInStep /\ SavedAsOffered /\ incoming \in [Senders -> Seq(IncomingFile)]
  BY DEF IntactInv, Inv, TypeOK, IncomingFile
<1>2. /\ incoming[s] \in Seq(IncomingFile) /\ incoming[s] # <<>> /\ e = Head(incoming[s])
      /\ e \in IncomingFile /\ e.t \in Transfers /\ From[e.t] = s
      /\ n \in Nat /\ n + 1 < Len(w)
  BY <1>1 DEF ChunkFits, ChunkExtends
<1>3. g \in Nat
  BY <1>2, ConstantsAssumption
<1>4. Messages(g) = n + 1
  <2> DEFINE m == n + 1
  <2>1. m \in Nat
    BY <1>2
  <2> HIDE DEF m
  <2>2. Messages(m * MaxMessage) = m
    BY <2>1, MessagesOfWhole
  <2>3. QED
    BY <2>2 DEF m
<1>5. g < Length[Source[e.t]]
  <2> DEFINE m == n + 1
             len == Length[Source[e.t]]
  <2>1. m \in Nat /\ len \in Nat /\ m < Messages(len)
    BY <1>2, WholeType
  <2> HIDE DEF m, len
  <2>2. m * MaxMessage < len
    BY <2>1, MessagesLeft
  <2>3. QED
    BY <2>2 DEF m, len
<1> HIDE DEF g
<1> DEFINE q == [incoming[s] EXCEPT ![1].got = g]
<1>6. /\ incoming' = [incoming EXCEPT ![s] = q]
      /\ disk' = [disk EXCEPT ![Dest[e.t]] = SubSeq(w, 1, n + 1)]
      /\ UNCHANGED saved
  BY DEF ChunkExtends, g
<1>7. /\ q \in Seq(IncomingFile) /\ q # <<>> /\ DOMAIN q = DOMAIN incoming[s]
      /\ Head(q) = [e EXCEPT !.got = g] /\ q[1] = [e EXCEPT !.got = g]
      /\ Tail(q) = Tail(incoming[s])
      /\ \A i \in DOMAIN incoming[s] : i # 1 => q[i] = incoming[s][i]
  <2>1. e = incoming[s][1]
    BY <1>2
  <2>2. QED
    BY <1>2, <1>3, <2>1, ExtendedQueue
<1>8. /\ [e EXCEPT !.got = g].t = e.t /\ [e EXCEPT !.got = g].got = g
  BY <1>2 DEF IncomingFile
<1> HIDE DEF q
<1>9. incoming'[s] = q /\ \A o \in Senders : o # s => incoming'[o] = incoming[o]
  BY <1>1, <1>6
<1>10. /\ disk'[Dest[e.t]] = SubSeq(w, 1, n + 1)
       /\ \A t \in Transfers : Dest[t] # Dest[e.t] => disk'[Dest[t]] = disk[Dest[t]]
  <2>1. disk \in [Dests -> Contents] /\ \A t \in Transfers : Dest[t] \in Dests
    BY <1>1 DEF TypeOK, Dests
  <2>2. QED
    BY <1>2, <1>6, <2>1
<1>11. SavedAsOffered'
  BY <1>1, <1>6 DEF SavedAsOffered
<1>12. /\ Expected(s)' = RestOf(e.t, n + 1) \o Awaited(Tail(incoming[s]))
       /\ \A o \in Senders : o # s => Expected(o)' = Expected(o)
  <2>1. Awaited(q) = RestOf(Head(q).t, Messages(Head(q).got)) \o Awaited(Tail(q))
    BY <1>7, AwaitedFacts
  <2>2. Awaited(q) = RestOf(e.t, n + 1) \o Awaited(Tail(incoming[s]))
    BY <1>4, <1>7, <1>8, <2>1
  <2>3. QED
    BY <1>9, <2>2 DEF Expected
<1>13. QueueInStep'
  <2>1. ASSUME NEW o \in Senders, NEW i \in DOMAIN incoming'[o]
        PROVE  /\ From[incoming'[o][i].t] = o
               /\ IF i = 1 THEN Counted(incoming[o][i])' ELSE incoming'[o][i].got = 0
    <3>1. CASE o # s
      <4>1. incoming'[o] = incoming[o] /\ i \in DOMAIN incoming[o]
        BY <1>9, <2>1, <3>1
      <4>2. /\ From[incoming[o][i].t] = o
            /\ i = 1 => Counted(incoming[o][i])
            /\ i # 1 => incoming[o][i].got = 0
        BY <1>1, <4>1 DEF QueueInStep
      <4>3. incoming[o][i].t \in Transfers
        <5>1. incoming[o][i] \in IncomingFile
          BY <1>1, <4>1
        <5>2. QED
          BY <5>1 DEF IncomingFile
      <4>4. disk'[Dest[incoming[o][i].t]] = disk[Dest[incoming[o][i].t]]
        <5>1. Dest[incoming[o][i].t] # Dest[e.t]
          BY <1>2, <3>1, <4>2, <4>3 DEF Intact, OwnFiles
        <5>2. QED
          BY <1>10, <4>3, <5>1
      <4>5. Counted(incoming[o][i]) => Counted(incoming[o][i])'
        BY <4>1, <4>4 DEF Counted
      <4>6. QED
        BY <4>1, <4>2, <4>5
    <3>2. CASE o = s /\ i # 1
      <4>1. incoming'[o][i] = incoming[s][i] /\ i \in DOMAIN incoming[s]
        BY <1>7, <1>9, <2>1, <3>2
      <4>2. From[incoming[s][i].t] = s /\ incoming[s][i].got = 0
        BY <1>1, <3>2, <4>1 DEF QueueInStep
      <4>3. QED
        BY <3>2, <4>1, <4>2
    <3>3. CASE o = s /\ i = 1
      <4>1. incoming'[o][i].t = e.t /\ incoming'[o][i].got = g
        BY <1>7, <1>8, <1>9, <3>3
      <4>2. Counted(incoming[o][i])'
        BY <1>4, <1>5, <1>10, <4>1 DEF Counted, g
      <4>3. QED
        BY <1>2, <3>3, <4>1, <4>2
    <3>4. QED
      BY <3>1, <3>2, <3>3
  <2>2. QED
    BY <2>1 DEF QueueInStep
<1>14. QED
  BY <1>11, <1>12, <1>13

(* A chunk is taken from what is coming and from what is expected alike. *)
LEMMA ChunkInStep ==
    ASSUME Intact, IntactInv, NEW s \in Senders, OnIncomingChunk(s)
    PROVE  /\ QueueInStep' /\ SavedAsOffered'
           /\ Coming(s)' = Expected(s)'
           /\ \A o \in Senders : o # s => Expected(o)' = Expected(o)
<1>1. PICK e, n : e = Head(incoming[s]) /\ n = Messages(e.got)
  OBVIOUS
<1>2. ChunkFits(s, e, n) /\ Coming(s)' = RestOf(e.t, n + 1) \o Awaited(Tail(incoming[s]))
  BY <1>1, ChunkFitsFront
<1>3. ChunkCloses(s, e, n) \/ ChunkExtends(s, e, n)
  BY <1>2, ChunkSteps
<1>4. QED
  BY <1>2, <1>3, ClosesInStep, ExtendsInStep

----------------------------------------------------------------------------
(* A step of one sender's session leaves what is coming from others alone. *)
LEMMA OthersComing ==
    ASSUME TypeOK, NEW s \in Senders, SenderStep(s) \/ ReceiverStep(s),
           NEW o \in Senders, o # s
    PROVE  Coming(o)' = Coming(o)
<1>1. wire'[o] = wire[o]
  BY DEF SenderStep, ReceiverStep, OnFileAccept, OnFileReject, TakeFile, SendChunk, FinishFile,
         OnFileOffer, OnIncomingChunk, TypeOK
<1>2. worker'[o] = worker[o]
  BY DEF SenderStep, ReceiverStep, OnFileAccept, OnFileReject, TakeFile, SendChunk, FinishFile,
         OnFileOffer, OnIncomingChunk, senderVars, TypeOK
<1>3. fileQ'[o] = fileQ[o]
  BY DEF SenderStep, ReceiverStep, OnFileAccept, OnFileReject, TakeFile, SendChunk, FinishFile,
         OnFileOffer, OnIncomingChunk, senderVars, TypeOK
<1>4. toSender'[o] = toSender[o]
  BY DEF SenderStep, ReceiverStep, OnFileAccept, OnFileReject, TakeFile, SendChunk, FinishFile,
         OnFileOffer, OnIncomingChunk, TypeOK
<1>5. QED
  BY <1>1, <1>2, <1>3, <1>4, ComingUnchanged

(* Every step keeps the queues of an intact transfer in step. *)
LEMMA IntactStep ==
    ASSUME Intact, IntactInv, [Next]_vars
    PROVE  QueueInStep' /\ SavedAsOffered' /\ StreamAligned'
<1>1. /\ TypeOK /\ Faults = {} /\ OffersOnce /\ WorkerInStep /\ QueueInStep /\ SavedAsOffered
      /\ \A s \in Senders : Coming(s) = Expected(s)
  BY DEF IntactInv, Inv, Intact, StreamAligned
<1>2. ASSUME UNCHANGED receiverVars, \A s \in Senders : Coming(s)' = Coming(s)
      PROVE  QueueInStep' /\ SavedAsOffered' /\ StreamAligned'
  <2>1. QueueInStep' /\ SavedAsOffered' /\ \A o : Expected(o)' = Expected(o)
    BY <1>1, <1>2, ExpectedUnchanged
  <2>2. StreamAligned'
    BY <1>1, <1>2, <2>1 DEF StreamAligned
  <2>3. QED
    BY <2>1, <2>2
<1>3. ASSUME NEW s \in Senders, SenderStep(s)
      PROVE  QueueInStep' /\ SavedAsOffered' /\ StreamAligned'
  <2>1. Coming(s)' = Coming(s)
    BY <1>1, <1>3, AnswerComing, TakeComing, SendComing, FinishComing DEF SenderStep
  <2>2. \A o \in Senders : o # s => Coming(o)' = Coming(o)
    BY <1>1, <1>3, OthersComing
  <2>3. UNCHANGED receiverVars
    BY <1>3 DEF SenderStep, OnFileAccept, OnFileReject, TakeFile, SendChunk, FinishFile, receiverVars
  <2>4. QED
    BY <1>2, <2>1, <2>2, <2>3
<1>4. ASSUME NEW s \in Senders, ReceiverStep(s)
      PROVE  QueueInStep' /\ SavedAsOffered' /\ StreamAligned'
  <2>1. /\ QueueInStep' /\ SavedAsOffered' /\ Coming(s)' = Expected(s)'
        /\ \A o \in Senders : o # s => Expected(o)' = Expected(o)
    BY <1>4, OfferInStep, ChunkInStep DEF ReceiverStep
  <2>2. \A o \in Senders : o # s => Coming(o)' = Coming(o)
    BY <1>1, <1>4, OthersComing
  <2>3. StreamAligned'
    BY <1>1, <2>1, <2>2 DEF StreamAligned
  <2>4. QED
    BY <2>1, <2>3
<1>5. ASSUME NEW t \in Transfers, SendFileOffer(t)
      PROVE  QueueInStep' /\ SavedAsOffered' /\ StreamAligned'
  BY <1>2, <1>5, ComingUnchanged DEF SendFileOffer
<1>6. CASE UNCHANGED vars
  BY <1>2, <1>6, ComingUnchanged DEF vars, receiverVars
<1>7. \A s \in Senders : ~Drop(s)
  BY <1>1 DEF Drop
<1>8. QED
  BY <1>3, <1>4, <1>5, <1>6, <1>7 DEF Next

(* An intact transfer is in step from the beginning. *)
LEMMA InitIntact == Intact /\ Init => IntactInv
<1> SUFFICES ASSUME Init PROVE IntactInv
  OBVIOUS
<1>1. Inv
  BY InitInv
<1>2. OffersOnce
  BY DEF Init, OffersOnce, Once
<1>3. WorkerInStep /\ QueueInStep /\ SavedAsOffered
  BY DEF Init, WorkerInStep, QueueInStep, SavedAsOffered
<1>4. StreamAligned
  <2> SUFFICES ASSUME NEW s \in Senders PROVE Coming(s) = Expected(s)
    BY DEF StreamAligned
  <2>1. /\ wire[s] = <<>> /\ worker[s] = Idle /\ fileQ[s] = <<>> /\ toSender[s] = <<>>
        /\ incoming[s] = <<>>
    BY DEF Init
  <2>2. Queued(<<>>) = <<>> /\ Accepted(<<>>) = <<>> /\ Awaited(<<>>) = <<>>
    BY FlattenEmpty, AwaitedNew DEF Queued, Accepted
  <2>3. InHand(s) = <<>>
    BY <2>1 DEF InHand
  <2>4. Coming(s) = <<>> \o <<>> \o <<>> \o <<>>
    BY <2>1, <2>2, <2>3 DEF Coming
  <2>5. <<>> \o <<>> = <<>>
    OBVIOUS
  <2>6. QED
    BY <2>1, <2>2, <2>4, <2>5 DEF Expected
<1>5. QED
  BY <1>1, <1>2, <1>3, <1>4 DEF IntactInv

(* The queues of intact transfers stay in step in every reachable state. *)
THEOREM IntactInvariance == Intact => (Spec => []IntactInv)
<1> SUFFICES ASSUME Intact PROVE Spec => []IntactInv
  OBVIOUS
<1>1. Init => IntactInv
  BY InitIntact
<1>2. IntactInv /\ [Next]_vars => IntactInv'
  <2> SUFFICES ASSUME IntactInv, [Next]_vars PROVE IntactInv'
    OBVIOUS
  <2>1. Inv /\ TypeOK /\ Faults = {} /\ OffersOnce /\ WorkerInStep
    BY DEF IntactInv, Inv, Intact
  <2>2. Inv'
    BY <2>1, InvStep
  <2>3. OffersOnce' /\ WorkerInStep'
    BY <2>1, OffersOnceStep, WorkerInStepStep
  <2>4. QED
    BY <2>2, <2>3, IntactStep DEF IntactInv
<1>3. QED
  BY <1>1, <1>2, PTL DEF Spec

(* What is on its way from a sender is, piece by piece, what the receiver's *)
(* queue waits for (OnIncomingChunk writes a chunk to the file at the front *)
(* without knowing which file it belongs to), whatever files are sent and   *)
(* in whichever order offers, answers and chunks are handled.               *)
THEOREM StreamsAligned == Intact => (Spec => []StreamAligned)
<1>1. IntactInv => StreamAligned
  BY DEF IntactInv
<1>2. QED
  BY <1>1, IntactInvariance, PTL

(* A file that is closed holds exactly what was offered. *)
THEOREM SavedIntact == Intact => (Spec => []SavedAsOffered)
<1>1. IntactInv => SavedAsOffered
  BY DEF IntactInv
<1>2. QED
  BY <1>1, IntactInvariance, PTL

----------------------------------------------------------------------------
(* The refinement of FileDelivery *)

(* The writer of each destination, read off the receiver's queues. *)
BusyAt(q, s, d) == q[s] # <<>> /\ Dest[Head(q[s]).t] = d

WriterIn(q) ==
    [d \in Dests |->
        LET busy == {s \in Senders : BusyAt(q, s, d)}
        IN  IF busy = {} THEN NoTransfer ELSE Head(q[CHOOSE s \in busy : TRUE]).t]

OneEach(q) ==
    \A s, o \in Senders : \A d \in Dests : BusyAt(q, s, d) /\ BusyAt(q, o, d) => s = o

LEMMA WriterFacts ==
    ASSUME NEW q, OneEach(q), NEW d \in Dests
    PROVE  /\ \A s \in Senders : BusyAt(q, s, d) => WriterIn(q)[d] = Head(q[s]).t
           /\ (\A s \in Senders : ~BusyAt(q, s, d)) => WriterIn(q)[d] = NoTransfer
<1> DEFINE busy == {s \in Senders : BusyAt(q, s, d)}
<1>1. WriterIn(q)[d] = IF busy = {} THEN NoTransfer ELSE Head(q[CHOOSE s \in busy : TRUE]).t
  BY DEF WriterIn
<1>2. ASSUME NEW s \in Senders, BusyAt(q, s, d)
      PROVE  WriterIn(q)[d] = Head(q[s]).t
  <2>1. busy = {s}
    BY <1>2 DEF OneEach
  <2>2. (CHOOSE x \in busy : TRUE) = s
    BY <2>1
  <2> HIDE DEF busy
  <2>3. busy # {}
    BY <2>1
  <2>4. QED
    BY <1>1, <2>2, <2>3
<1>3. ASSUME \A s \in Senders : ~BusyAt(q, s, d)
      PROVE  WriterIn(q)[d] = NoTransfer
  BY <1>1, <1>3
<1>4. QED
  BY <1>2, <1>3

(* Queues with the same front at a destination have the same writer of it. *)
LEMMA WriterSame ==
    ASSUME NEW p, OneEach(p), NEW q, OneEach(q), NEW d \in Dests,
           \A s \in Senders : BusyAt(p, s, d) <=> BusyAt(q, s, d),
           \A s \in Senders : BusyAt(p, s, d) => Head(p[s]).t = Head(q[s]).t
    PROVE  WriterIn(p)[d] = WriterIn(q)[d]
<1>1. CASE \E s \in Senders : BusyAt(p, s, d)
  <2>1. PICK s \in Senders : BusyAt(p, s, d)
    BY <1>1
  <2>2. WriterIn(p)[d] = Head(p[s]).t /\ WriterIn(q)[d] = Head(q[s]).t
    BY <2>1, WriterFacts
  <2>3. QED
    BY <2>1, <2>2
<1>2. CASE \A s \in Senders : ~BusyAt(p, s, d)
  BY <1>2, WriterFacts
<1>3. QED
  BY <1>1, <1>2

(* Each destination has one front, now and after a step. *)
LEMMA OneEachNow ==
    ASSUME Inv
    PROVE  OneEach(incoming) /\ Writer = WriterIn(incoming)
<1>1. ASSUME NEW s \in Senders, incoming[s] # <<>>
      PROVE  Head(incoming[s]).open
  BY <1>1, FrontShape, TailShape DEF Inv, FrontOnlyOpen
<1>2. OneEach(incoming)
  BY <1>1 DEF OneEach, BusyAt, Inv, OneWriterPerFile
<1>3. Writer = WriterIn(incoming)
  BY DEF Writer, WriterIn, BusyAt
<1>4. QED
  BY <1>2, <1>3

LEMMA OneEachNext ==
    ASSUME Inv'
    PROVE  OneEach(incoming') /\ Writer' = WriterIn(incoming')
<1>1. ASSUME NEW s \in Senders, incoming'[s] # <<>>
      PROVE  Head(incoming'[s]).open
  <2>1. incoming'[s] \in Seq(IncomingFile)
    BY DEF Inv, TypeOK, IncomingFile
  <2>2. \A i \in DOMAIN incoming'[s] : incoming'[s][i].open <=> i = 1
    BY DEF Inv, FrontOnlyOpen
  <2>3. QED
    BY <1>1, <2>1, <2>2, TailShape
<1>2. OneEach(incoming')
  BY <1>1 DEF OneEach, BusyAt, Inv, OneWriterPerFile
<1>3. Writer' = WriterIn(incoming')
  BY DEF Writer, WriterIn, BusyAt
<1>4. QED
  BY <1>2, <1>3

(* A destination that neither the disk nor the writer changes. *)
Kept(d) == disk'[d] = disk[d] /\ Writer'[d] = Writer[d]

(* A destination of s has no writer from elsewhere. *)
LEMMA OwnWriter ==
    ASSUME OwnFiles, TypeOK, QueueInStep, NEW s \in Senders, NEW t \in Transfers, From[t] = s,
           NEW o \in Senders, o # s
    PROVE  ~BusyAt(incoming, o, Dest[t])
<1> SUFFICES ASSUME incoming[o] # <<>>, Dest[Head(incoming[o]).t] = Dest[t]
             PROVE  FALSE
  BY DEF BusyAt
<1>1. incoming[o] \in Seq(IncomingFile)
  BY DEF TypeOK, IncomingFile
<1>2. /\ 1 \in DOMAIN incoming[o] /\ Head(incoming[o]) = incoming[o][1]
      /\ incoming[o][1] \in IncomingFile
  BY <1>1
<1>3. From[Head(incoming[o]).t] = o
  BY <1>2 DEF QueueInStep
<1>4. Head(incoming[o]).t \in Transfers
  BY <1>2 DEF IncomingFile
<1>5. QED
  BY <1>3, <1>4 DEF OwnFiles

(* The module's definitions agree with those of FileDelivery. *)
LEMMA DeliveryMeans ==
    /\ Delivery!Dests = Dests
    /\ \A t \in Transfers : Delivery!Whole(Source[t]) = Whole(Source[t])
    /\ \A d : Delivery!Begins(d) <=>
          /\ disk'[d] = <<>>
          /\ \E t \in Transfers :
                Dest[t] = d /\ Writer'[d] = IF Whole(Source[t]) = <<>> THEN NoTransfer ELSE t
<1>1. Delivery!Dests = Dests
  BY DEF Delivery!Dests, Dests
<1>2. \A x : Delivery!Whole(x) = Whole(x)
  BY DEF Delivery!Whole, Delivery!Cut, Whole, Cut, Messages
<1>3. QED
  BY <1>1, <1>2 DEF Delivery!Begins

(* The destinations StartNextIncoming opens. *)
Opens(q, k, d) == \E i \in 1 .. Len(q) : i <= k + 1 /\ Dest[q[i].t] = d

(* Those it opens begin a transfer; the others it leaves, and s writes none *)
(* of them.                                                                 *)
LEMMA StartsDelivery ==
    ASSUME TypeOK, Intact, QueueInStep, Inv', NEW s \in Senders, NEW q \in Seq(IncomingFile),
           Untouched(s, q), NEW disk0, NEW saved0, NEW k \in 0 .. Len(q),
           StartsAfter(s, q, k, disk0, saved0), NEW d \in Dests
    PROVE  /\ \A o \in Senders : o # s => incoming'[o] = incoming[o]
           /\ Opens(q, k, d) => Delivery!Begins(d) /\ \E t \in Transfers : From[t] = s /\ Dest[t] = d
           /\ ~Opens(q, k, d) => disk'[d] = disk0[d] /\ ~BusyAt(incoming', s, d)
<1>1. incoming'[s] = Started(q, k) /\ \A o \in Senders : o # s => incoming'[o] = incoming[o]
  BY DEF StartsAfter, TypeOK
<1>2. disk'[d] = IF Opens(q, k, d) THEN <<>> ELSE disk0[d]
  BY DEF StartsAfter, Opens
<1>3. /\ k = Len(q) => Started(q, k) = <<>>
      /\ k < Len(q) => Started(q, k) # <<>> /\ Head(Started(q, k)).t = q[k + 1].t
  <2>1. \A i \in DOMAIN q : ~q[i].open
    BY DEF Untouched
  <2>2. QED
    BY <2>1, StartedShape
<1>4. k \in Nat /\ Len(q) \in Nat /\ k <= Len(q)
  OBVIOUS
<1>5. ASSUME NEW i \in 1 .. Len(q)
      PROVE  q[i].t \in Transfers /\ From[q[i].t] = s
  <2>1. i \in DOMAIN q /\ q[i] \in IncomingFile
    OBVIOUS
  <2>2. QED
    BY <2>1 DEF Untouched, IncomingFile
<1>6. BusyAt(incoming', s, d) <=> k < Len(q) /\ Dest[q[k + 1].t] = d
  <2>1. k = Len(q) \/ k < Len(q)
    BY <1>4
  <2>2. k = Len(q) => ~(k < Len(q))
    BY <1>4
  <2>3. QED
    BY <1>1, <1>3, <2>1, <2>2 DEF BusyAt
<1>7. OneEach(incoming') /\ Writer' = WriterIn(incoming')
  BY OneEachNext
<1>8. ASSUME Opens(q, k, d)
      PROVE  Delivery!Begins(d) /\ \E t \in Transfers : From[t] = s /\ Dest[t] = d
  <2>1. PICK i \in 1 .. Len(q) : i <= k + 1 /\ Dest[q[i].t] = d
    BY <1>8 DEF Opens
  <2>2. q[i].t \in Transfers /\ From[q[i].t] = s
    BY <1>5
  <2>3. \E t \in Transfers :
           Dest[t] = d /\ Writer'[d] = IF Whole(Source[t]) = <<>> THEN NoTransfer ELSE t
    <3>1. CASE k < Len(q) /\ Dest[q[k + 1].t] = d
      <4>1. k + 1 \in 1 .. Len(q)
        BY <1>4, <3>1
      <4>2. q[k + 1].t \in Transfers
        BY <1>5, <4>1
      <4>3. Whole(Source[q[k + 1].t]) # <<>>
        <5> DEFINE t == q[k + 1].t
        <5>1. t \in Transfers /\ Length[Source[t]] > 0
          BY <3>1, <4>2 DEF StartsAfter
        <5> HIDE DEF t
        <5>2. Length[Source[t]] # 0
          BY <5>1, ConstantsAssumption
        <5>3. Whole(Source[t]) # <<>>
          BY <5>1, <5>2, EmptyWhole
        <5>4. QED
          BY <5>3 DEF t
      <4>4. Writer'[d] = q[k + 1].t
        <5>1. BusyAt(incoming', s, d)
          BY <1>6, <3>1
        <5>2. WriterIn(incoming')[d] = Head(incoming'[s]).t
          BY <1>7, <5>1, WriterFacts
        <5>3. QED
          BY <1>1, <1>3, <1>7, <3>1, <5>2
      <4>5. QED
        BY <3>1, <4>2, <4>3, <4>4
    <3>2. CASE ~(k < Len(q) /\ Dest[q[k + 1].t] = d)
      <4>1. i \in 1 .. k
        <5>1. i # k + 1
          BY <1>4, <2>1, <3>2
        <5>2. QED
          BY <1>4, <2>1, <5>1
      <4>2. Whole(Source[q[i].t]) = <<>>
        <5>1. Length[Source[q[i].t]] = 0
          BY <4>1 DEF StartsAfter
        <5>2. QED
          BY <2>2, <5>1, EmptyWhole
      <4>3. \A o \in Senders : ~BusyAt(incoming', o, d)
        <5>1. ~BusyAt(incoming', s, d)
          BY <1>6, <3>2
        <5>2. ASSUME NEW o \in Senders, o # s
              PROVE  ~BusyAt(incoming', o, d)
          <6>1. ~BusyAt(incoming, o, d)
            BY <2>1, <2>2, <5>2, OwnWriter DEF Intact
          <6>2. QED
            BY <1>1, <5>2, <6>1 DEF BusyAt
        <5>3. QED
          BY <5>1, <5>2
      <4>4. Writer'[d] = NoTransfer
        BY <1>7, <4>3, WriterFacts
      <4>5. QED
        BY <2>1, <2>2, <4>2, <4>4
    <3>3. QED
      BY <3>1, <3>2
  <2>4. Delivery!Begins(d)
    BY <1>2, <1>8, <2>3, DeliveryMeans
  <2>5. QED
    BY <2>1, <2>2, <2>4
<1>9. ASSUME ~Opens(q, k, d)
      PROVE  disk'[d] = disk0[d] /\ ~BusyAt(incoming', s, d)
  <2>1. ASSUME k < Len(q), Dest[q[k + 1].t] = d
        PROVE  FALSE
    <3>1. k + 1 \in 1 .. Len(q) /\ k + 1 <= k + 1
      BY <1>4, <2>1
    <3>2. QED
      BY <1>9, <2>1, <3>1 DEF Opens
  <2>2. QED
    BY <1>2, <1>6, <1>9, <2>1
<1>10. QED
  BY <1>1, <1>8, <1>9

(* A step by which s starts on a queue while it writes nothing. *)
LEMMA StartDelivers ==
    ASSUME Inv, Inv', Intact, QueueInStep, NEW s \in Senders, NEW q \in Seq(IncomingFile),
           Untouched(s, q), NEW disk0, NEW saved0, NEW k \in 0 .. Len(q),
           StartsAfter(s, q, k, disk0, saved0), NEW d \in Dests,
           disk0[d] = disk[d], ~BusyAt(incoming, s, d)
    PROVE  Delivery!DestStep(d) \/ Kept(d)
<1>1. TypeOK /\ OneEach(incoming) /\ Writer = WriterIn(incoming)
  BY OneEachNow DEF Inv
<1>2. OneEach(incoming') /\ Writer' = WriterIn(incoming')
  BY OneEachNext
<1>3. \A o \in Senders : o # s => incoming'[o] = incoming[o]
  BY <1>1, StartsDelivery
<1>4. CASE Opens(q, k, d)
  <2>1. Delivery!Begins(d) /\ \E t \in Transfers : From[t] = s /\ Dest[t] = d
    BY <1>1, <1>4, StartsDelivery
  <2>2. \A o \in Senders : ~BusyAt(incoming, o, d)
    BY <1>1, <2>1, OwnWriter DEF Intact
  <2>3. Writer[d] = NoTransfer
    BY <1>1, <2>2, WriterFacts
  <2>4. QED
    BY <2>1, <2>3 DEF Delivery!DestStep
<1>5. CASE ~Opens(q, k, d)
  <2>1. disk'[d] = disk0[d] /\ ~BusyAt(incoming', s, d)
    BY <1>1, <1>5, StartsDelivery
  <2>2. \A o \in Senders : BusyAt(incoming', o, d) <=> BusyAt(incoming, o, d)
    BY <1>3, <2>1 DEF BusyAt
  <2>3. \A o \in Senders : BusyAt(incoming', o, d) => Head(incoming'[o]).t = Head(incoming[o]).t
    BY <1>3, <2>1
  <2>4. WriterIn(incoming')[d] = WriterIn(incoming)[d]
    BY <1>1, <1>2, <2>2, <2>3, WriterSame
  <2>5. QED
    BY <1>1, <1>2, <2>1, <2>4 DEF Kept
<1>6. QED
  BY <1>4, <1>5

(* The receiver's queue with the same file at its front, and the disk as it *)
(* was.                                                                     *)
LEMMA SameFronts ==
    ASSUME Inv, Inv', NEW d \in Dests, NEW s \in Senders,
           \A o \in Senders : o # s => incoming'[o] = incoming[o],
           (incoming'[s] = <<>>) <=> (incoming[s] = <<>>),
           incoming[s] # <<>> => Head(incoming'[s]).t = Head(incoming[s]).t
    PROVE  Writer'[d] = Writer[d]
<1>1. OneEach(incoming) /\ Writer = WriterIn(incoming)
  BY OneEachNow
<1>2. OneEach(incoming') /\ Writer' = WriterIn(incoming')
  BY OneEachNext
<1>3. \A o \in Senders : BusyAt(incoming', o, d) <=> BusyAt(incoming, o, d)
  BY DEF BusyAt
<1>4. \A o \in Senders : BusyAt(incoming', o, d) => Head(incoming'[o]).t = Head(incoming[o]).t
  BY DEF BusyAt
<1>5. WriterIn(incoming')[d] = WriterIn(incoming)[d]
  BY <1>1, <1>2, <1>3, <1>4, WriterSame
<1>6. QED
  BY <1>1, <1>2, <1>5

(* An offer begins a transfer, or an empty file and perhaps no transfer, or *)
(* changes nothing.                                                         *)
LEMMA OfferDelivers ==
    ASSUME Intact, IntactInv, Inv', NEW s \in Senders, OnFileOffer(s), NEW d \in Dests
    PROVE  Delivery!DestStep(d) \/ Kept(d)
<1>1. Inv /\ TypeOK /\ QueueInStep /\ incoming[s] \in Seq(IncomingFile)
  BY DEF IntactInv, Inv, TypeOK, IncomingFile
<1>2. PICK t : t = Head(toReceiver[s])
  OBVIOUS
<1>3. t \in Transfers /\ From[t] = s
  <2>1. toReceiver[s] # <<>> /\ toReceiver[s] \in Seq(Transfers)
    BY <1>1 DEF OnFileOffer, TypeOK
  <2>2. toSender[s] \in Seq(Reply)
    BY <1>1, ComingTypes
  <2>3. Once(s, toReceiver[s], toSender[s], pending)
    BY DEF IntactInv, OffersOnce
  <2>4. t \in Transfers
    BY <1>2, <2>1
  <2>5. QED
    BY <1>2, <2>1, <2>2, <2>3, <2>4, OnceFirst
<1>4. PICK e, q : e = Entry(t) /\ q = Enqueued(incoming[s], e)
  OBVIOUS
<1>5. e \in IncomingFile /\ ~e.open /\ e.t = t /\ e.got = 0
  BY <1>3, <1>4, AwaitedNew
<1>6. \/ UNCHANGED receiverVars
      \/ Len(q) = 1 /\ StartNextIncoming(s, q, disk, saved)
      \/ Len(q) # 1 /\ incoming' = [incoming EXCEPT ![s] = q] /\ UNCHANGED <<disk, saved>>
  BY <1>2, <1>4 DEF OnFileOffer, StartsAlone
<1>7. /\ q \in Seq(IncomingFile) /\ q # <<>>
      /\ q[Len(incoming[s]) + 1] = e
      /\ \A i \in DOMAIN q : i \in DOMAIN incoming[s] \/ i = Len(incoming[s]) + 1
      /\ Len(q) = 1 => incoming[s] = <<>>
      /\ Len(q) # 1 => 1 \in DOMAIN incoming[s] /\ Head(q) = Head(incoming[s])
  <2> DEFINE p == incoming[s]
  <2>1. p \in Seq(IncomingFile) /\ q = Enqueued(p, e)
    BY <1>1, <1>4
  <2> HIDE DEF p
  <2>2. /\ q \in Seq(IncomingFile) /\ q # <<>>
        /\ q[Len(p) + 1] = e
        /\ \A i \in DOMAIN q : i \in DOMAIN p \/ i = Len(p) + 1
        /\ Len(q) = 1 => p = <<>>
        /\ Len(q) # 1 => 1 \in DOMAIN p /\ Head(q) = Head(p)
    BY <1>5, <2>1, EnqueuedShape
  <2>3. QED
    BY <2>2 DEF p
<1>8. CASE UNCHANGED receiverVars
  BY <1>8 DEF Kept, receiverVars, Writer
<1>9. CASE Len(q) = 1 /\ StartNextIncoming(s, q, disk, saved)
  <2>1. incoming[s] = <<>> /\ \A i \in DOMAIN q : q[i] = e
    BY <1>7, <1>9
  <2>2. Untouched(s, q)
    BY <1>3, <1>5, <2>1 DEF Untouched
  <2>3. \A i \in DOMAIN q : From[q[i].t] = s
    BY <2>2 DEF Untouched
  <2>4. PICK k \in 0 .. Len(q) : StartsAfter(s, q, k, disk, saved)
    BY <1>1, <1>7, <1>9, <2>3, StartsAfterEmpty
  <2>5. ~BusyAt(incoming, s, d)
    BY <2>1 DEF BusyAt
  <2>6. QED
    BY <1>1, <1>7, <2>2, <2>4, <2>5, StartDelivers
<1>10. CASE Len(q) # 1 /\ incoming' = [incoming EXCEPT ![s] = q] /\ UNCHANGED <<disk, saved>>
  <2>1. incoming'[s] = q /\ \A o \in Senders : o # s => incoming'[o] = incoming[o]
    BY <1>1, <1>10 DEF TypeOK
  <2>2. incoming[s] # <<>> /\ Head(q) = Head(incoming[s])
    BY <1>7, <1>10
  <2>3. Writer'[d] = Writer[d]
    BY <1>1, <1>7, <2>1, <2>2, SameFronts
  <2>4. QED
    BY <1>10, <2>3 DEF Kept
<1>11. QED
  BY <1>6, <1>8, <1>9, <1>10

(* The leading pieces of a file, counted. *)
LEMMA LeadingLength ==
    ASSUME NEW w \in Seq(Piece), NEW n \in Nat, n <= Len(w)
    PROVE  Len(SubSeq(w, 1, n)) = n
<1>1. \A i \in 1 .. n : w[i] \in Piece
  OBVIOUS
<1>2. Len(SubSeq(w, 1, n)) = IF 1 <= n THEN n - 1 + 1 ELSE 0
  BY <1>1, SubSeqProperties
<1>3. QED
  BY <1>2

(* What FileDelivery says of the destination of the front file. *)
LEMMA FrontDelivery ==
    ASSUME IntactInv, NEW s \in Senders, NEW e, NEW n, ChunkFits(s, e, n)
    PROVE  /\ BusyAt(incoming, s, Dest[e.t]) /\ Dest[e.t] \in Dests
           /\ Writer[Dest[e.t]] = e.t /\ e.t # NoTransfer
           /\ Len(disk[Dest[e.t]]) = n
           /\ Delivery!AlmostWhole(Dest[e.t]) <=> n + 1 = Len(Whole(Source[e.t]))
           /\ Delivery!Extends(Dest[e.t]) <=>
                 /\ disk'[Dest[e.t]] = SubSeq(Whole(Source[e.t]), 1, n + 1)
                 /\ Writer'[Dest[e.t]] = IF n + 1 = Len(Whole(Source[e.t])) THEN NoTransfer ELSE e.t
<1> DEFINE d == Dest[e.t]
           w == Whole(Source[e.t])
<1>1. /\ incoming[s] # <<>> /\ e = Head(incoming[s]) /\ e.t \in Transfers
      /\ n \in Nat /\ n < Len(w) /\ disk[d] = SubSeq(w, 1, n)
  BY DEF ChunkFits
<1>2. d \in Dests /\ BusyAt(incoming, s, d) /\ e.t # NoTransfer
  BY <1>1, ConstantsAssumption DEF BusyAt, Dests
<1>3. OneEach(incoming) /\ Writer = WriterIn(incoming)
  BY OneEachNow DEF IntactInv
<1>4. Writer[d] = e.t
  BY <1>1, <1>2, <1>3, WriterFacts
<1>5. Len(disk[d]) = n
  <2>1. w \in Seq(Piece) /\ n <= Len(w)
    BY <1>1, WholeType
  <2> HIDE DEF w
  <2>2. QED
    BY <1>1, <2>1, LeadingLength
<1>6. Delivery!Whole(Source[e.t]) = w
  BY <1>1, DeliveryMeans
<1> HIDE DEF d, w
<1>7. Delivery!AlmostWhole(d) <=> n + 1 = Len(w)
  BY <1>4, <1>5, <1>6 DEF Delivery!AlmostWhole
<1>8. Delivery!Extends(d) <=>
         /\ disk'[d] = SubSeq(w, 1, n + 1)
         /\ Writer'[d] = IF n + 1 = Len(w) THEN NoTransfer ELSE e.t
  BY <1>2, <1>4, <1>5, <1>6, <1>7 DEF Delivery!Extends
<1>9. QED
  BY <1>2, <1>4, <1>5, <1>7, <1>8 DEF d, w

(* A chunk extends the front file, and may close it and begin another. *)
LEMMA ChunkDelivers ==
    ASSUME Intact, IntactInv, Inv', NEW s \in Senders, OnIncomingChunk(s), NEW d \in Dests
    PROVE  Delivery!DestStep(d) \/ Kept(d)
<1>1. Inv /\ TypeOK /\ QueueInStep /\ FrontOnlyOpen
  BY DEF IntactInv, Inv
<1>2. PICK e, n : e = Head(incoming[s]) /\ n = Messages(e.got)
  OBVIOUS
<1>3. ChunkFits(s, e, n)
  BY <1>2, ChunkFitsFront
<1>4. ChunkCloses(s, e, n) \/ ChunkExtends(s, e, n)
  BY <1>3, ChunkSteps
<1>5. /\ incoming[s] # <<>> /\ e = Head(incoming[s]) /\ e.t \in Transfers /\ From[e.t] = s
      /\ e \in IncomingFile /\ incoming[s] \in Seq(IncomingFile) /\ n \in Nat
  BY <1>1, <1>3 DEF ChunkFits, TypeOK, IncomingFile
<1> DEFINE w == Whole(Source[e.t])
           f == Dest[e.t]
<1>6. /\ BusyAt(incoming, s, f) /\ f \in Dests
      /\ Writer[f] = e.t /\ e.t # NoTransfer
      /\ Delivery!AlmostWhole(f) <=> n + 1 = Len(w)
      /\ Delivery!Extends(f) <=>
            /\ disk'[f] = SubSeq(w, 1, n + 1)
            /\ Writer'[f] = IF n + 1 = Len(w) THEN NoTransfer ELSE e.t
  BY <1>3, FrontDelivery
<1>7. d # f => ~BusyAt(incoming, s, d)
  BY <1>5 DEF BusyAt
<1>8. disk \in [Dests -> Contents]
  BY <1>1 DEF TypeOK
<1>9. CASE ChunkExtends(s, e, n)
  <2> DEFINE g == (n + 1) * MaxMessage
             q == [incoming[s] EXCEPT ![1].got = g]
  <2>1. /\ n + 1 < Len(w) /\ incoming' = [incoming EXCEPT ![s] = q]
        /\ disk' = [disk EXCEPT ![f] = SubSeq(w, 1, n + 1)]
    BY <1>9 DEF ChunkExtends
  <2>2. g \in Nat
    BY <1>5, ConstantsAssumption
  <2> HIDE DEF g
  <2>3. q # <<>> /\ Head(q).t = e.t
    <3>1. q # <<>> /\ Head(q) = [incoming[s][1] EXCEPT !.got = g] /\ e = incoming[s][1]
      BY <1>5, <2>2, ExtendedQueue
    <3> HIDE DEF q
    <3>2. QED
      BY <1>5, <3>1 DEF IncomingFile
  <2> HIDE DEF q
  <2>4. incoming'[s] = q /\ \A o \in Senders : o # s => incoming'[o] = incoming[o]
    BY <1>1, <2>1 DEF TypeOK
  <2>5. Writer'[d] = Writer[d]
    BY <1>1, <1>5, <2>3, <2>4, SameFronts
  <2>6. CASE d # f
    BY <1>8, <2>1, <2>5, <2>6 DEF Kept
  <2>7. CASE d = f
    <3>1. disk'[f] = SubSeq(w, 1, n + 1)
      BY <1>6, <1>8, <2>1
    <3>2. n + 1 # Len(w)
      BY <1>5, <2>1
    <3>3. Delivery!Extends(f)
      BY <1>6, <2>5, <2>7, <3>1, <3>2
    <3>4. QED
      BY <2>7, <3>3 DEF Delivery!DestStep
  <2>8. QED
    BY <2>6, <2>7
<1>10. CASE ChunkCloses(s, e, n)
  <2>1. PICK q, disk0, saved0 : /\ q = Tail(incoming[s]) /\ disk0 = [disk EXCEPT ![f] = w]
                                /\ saved0 = [saved EXCEPT ![e.t] = w]
    OBVIOUS
  <2>2. n + 1 = Len(w) /\ \E k \in 0 .. Len(q) : StartsAfter(s, q, k, disk0, saved0)
    BY <1>10, <2>1 DEF ChunkCloses
  <2>3. PICK k \in 0 .. Len(q) : StartsAfter(s, q, k, disk0, saved0)
    BY <2>2
  <2>4. q \in Seq(IncomingFile) /\ Untouched(s, q)
    BY <1>1, <1>5, <2>1, UntouchedTail
  <2>5. CASE d # f
    <3>1. disk0[d] = disk[d]
      BY <1>8, <2>1, <2>5
    <3>2. QED
      BY <1>1, <1>7, <2>3, <2>4, <2>5, <3>1, StartDelivers
  <2>6. CASE d = f
    <3>1. /\ \A o \in Senders : o # s => incoming'[o] = incoming[o]
          /\ Opens(q, k, d) => Delivery!Begins(d)
          /\ ~Opens(q, k, d) => disk'[d] = disk0[d] /\ ~BusyAt(incoming', s, d)
      BY <1>1, <2>3, <2>4, StartsDelivery
    <3>2. Writer[d] # NoTransfer /\ Delivery!AlmostWhole(d)
      BY <1>6, <2>2, <2>6
    <3>3. CASE Opens(q, k, d)
      BY <3>1, <3>2, <3>3 DEF Delivery!Replaces, Delivery!DestStep
    <3>4. CASE ~Opens(q, k, d)
      <4>1. disk'[f] = SubSeq(w, 1, n + 1)
        <5>1. disk'[f] = w
          BY <1>6, <1>8, <2>1, <2>6, <3>1, <3>4
        <5>2. w \in Seq(Piece) /\ SubSeq(w, 1, Len(w)) = w
          BY <1>5, WholeType, SubSeqFull
        <5>3. QED
          BY <2>2, <5>1, <5>2
      <4>2. \A o \in Senders : ~BusyAt(incoming', o, d)
        <5>1. ASSUME NEW o \in Senders, o # s
              PROVE  ~BusyAt(incoming', o, d)
          <6>1. ~BusyAt(incoming, o, d)
            BY <1>1, <1>5, <2>6, <5>1, OwnWriter DEF Intact
          <6>2. QED
            BY <3>1, <5>1, <6>1 DEF BusyAt
        <5>2. QED
          BY <3>1, <3>4, <5>1
      <4>3. Writer'[d] = NoTransfer
        <5>1. OneEach(incoming') /\ Writer' = WriterIn(incoming')
          BY OneEachNext
        <5>2. QED
          BY <4>2, <5>1, WriterFacts
      <4>4. Delivery!Extends(f)
        BY <1>6, <2>2, <2>6, <4>1, <4>3
      <4>5. QED
        BY <2>6, <4>4 DEF Delivery!DestStep
    <3>5. QED
      BY <3>3, <3>4
  <2>7. QED
    BY <2>5, <2>6
<1>11. QED
  BY <1>4, <1>9, <1>10

(* Every step of the protocol is a step of FileDelivery, or changes nothing *)
(* it speaks of.                                                            *)
LEMMA StepDelivers ==
    ASSUME Intact, IntactInv, Inv', [Next]_vars
    PROVE  Delivery!Next
<1> SUFFICES ASSUME NEW d \in Dests
             PROVE  Delivery!DestStep(d) \/ Kept(d)
  BY DeliveryMeans DEF Delivery!Next, Kept
<1>1. CASE UNCHANGED receiverVars
  BY <1>1 DEF Kept, receiverVars, Writer
<1>2. ASSUME NEW t \in Transfers, SendFileOffer(t)
      PROVE  UNCHANGED receiverVars
  BY <1>2 DEF SendFileOffer, receiverVars
<1>3. ASSUME NEW s \in Senders, SenderStep(s)
      PROVE  UNCHANGED receiverVars
  BY <1>3 DEF SenderStep, OnFileAccept, OnFileReject, TakeFile, SendChunk, FinishFile, receiverVars
<1>4. ASSUME NEW s \in Senders, ReceiverStep(s)
      PROVE  Delivery!DestStep(d) \/ Kept(d)
  BY <1>4, OfferDelivers, ChunkDelivers DEF ReceiverStep
<1>5. \A s \in Senders : ~Drop(s)
  BY DEF Intact, Drop
<1>6. CASE UNCHANGED vars
  BY <1>1, <1>6 DEF vars, receiverVars
<1>7. QED
  BY <1>1, <1>2, <1>3, <1>4, <1>5, <1>6 DEF Next

(* Nothing is there and nobody writes to begin with. *)
LEMMA InitDelivers == Init => Delivery!Init
<1> SUFFICES ASSUME Init PROVE Delivery!Init
  OBVIOUS
<1>1. \A s \in Senders : incoming[s] = <<>>
  BY DEF Init
<1>2. Writer = [d \in Dests |-> NoTransfer]
  <2>1. \A d \in Dests : {s \in Senders : incoming[s] # <<>> /\ Dest[Head(incoming[s]).t] = d} = {}
    BY <1>1
  <2>2. QED
    BY <2>1 DEF Writer
<1>3. disk = [d \in Dests |-> Missing]
  BY DEF Init
<1>4. QED
  BY <1>2, <1>3, DeliveryMeans DEF Delivery!Init

(* Intact transfers are delivered as FileDelivery promises: every file under *)
(* the receiver's directory holds the leading pieces of one offered file, is *)
(* written by one transfer at a time, and let go of when it is whole.        *)
THEOREM DeliversIntact == Intact => (Spec => Delivers)
<1> SUFFICES ASSUME Intact PROVE Spec => Delivers
  OBVIOUS
<1>1. Init => Delivery!Init
  BY InitDelivers
<1>2. IntactInv /\ IntactInv' /\ [Next]_vars => [Delivery!Next]_(Delivery!vars)
  BY StepDelivers DEF IntactInv
<1>3. Spec => []IntactInv
  BY IntactInvariance
<1>4. QED
  BY <1>1, <1>2, <1>3, PTL DEF Spec, Delivers, Delivery!Spec
============================================================================
