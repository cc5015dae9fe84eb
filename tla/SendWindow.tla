----------------------------- MODULE SendWindow -----------------------------
(***************************************************************************)
(* The thread that sends the accepted files over one data channel          *)
(* (MakeDataChannel in src/src/WebRTCClient.cpp), with the queue it takes  *)
(* them from (src/src/Queue.cpp), against the channel, which takes bytes   *)
(* out of its buffer, reports that the buffer has run low, and closes.     *)
(*                                                                         *)
(* A file is its size.  waitForCapacity is taken apart where the thread    *)
(* may be overtaken: "full" is between the test of the predicate and the   *)
(* sleep, with TransferState's mutex held, which the low-buffer callback   *)
(* does not take.  The channel's side (Drain, the return value of send) is *)
(* the library's, as the code uses it.                                     *)
(***************************************************************************)
EXTENDS Integers, Sequences

CONSTANTS
    Files,          \* paths of the files that are accepted, each once
    Size,           \* the size of each file
    Unreadable,     \* files that cannot be locked or opened when their turn comes
    NoFile,         \* no file is open
    MaxMessageSize, \* the --maxMessageSize option
    MayClose        \* whether the channel may close

ASSUME ConstantsAssumption ==
    /\ Size \in [Files -> Nat]
    /\ NoFile \notin Files
    /\ MaxMessageSize \in Nat \ {0}
    /\ MayClose \in BOOLEAN

VARIABLES
    fileQ,      \* the items of the channel's queue
    accepted,   \* the files that have been put there
    pc,         \* where the thread is
    back,       \* what waitForCapacity was called for: "gate" or "read"
    file,       \* the file that is open, or taken out of the queue
    unread,     \* the bytes of it not yet read
    chunk,      \* the bytes in the thread's own buffer
    buffered,   \* bufferedAmount() of the channel
    open,       \* isOpen() of the channel
    closed,     \* TransferState's closed
    callback,   \* what the channel's thread has to call: "none", "low", "closed" or "wake"
    sent,       \* bytes of each file given to the channel
    completed,  \* files reported by SendFileComplete
    passedOver, \* files that could not be opened
    missed      \* a low-buffer notification came when nobody was asleep to hear it

threadVars == <<pc, back, file, unread, chunk>>
channelVars == <<buffered, open, closed, callback>>
resultVars == <<sent, completed, passedOver, missed>>
vars == <<fileQ, accepted, threadVars, channelVars, resultVars>>

----------------------------------------------------------------------------
(* Mutated forms of definitions below, used to test the properties.        *)

(* the chunk is sent however much is buffered *)
GateNever == FALSE

(* read() alone decides: the last, shorter chunk is not sent *)
ReadsOnFullOnly == unread >= MaxMessageSize

(* onClosed does not take the mutex of the waiting thread *)
MutexFreeAlways == TRUE



(* the rest of the file is read at once *)
ChunkWhole == unread

----------------------------------------------------------------------------
(* setBufferedAmountLowThreshold *)
LowThreshold == MaxMessageSize \div 2

Goto(p) == pc' = p /\ UNCHANGED <<back, file, unread, chunk>>

(* The mutex of TransferState is free: the thread is not between its test   *)
(* and its sleep.                                                           *)
MutexFree == pc # "full"

Gate == buffered > MaxMessageSize

(* The predicate of waitForCapacity. *)
WaitOver == closed \/ ~open \/ buffered <= MaxMessageSize \div 2

(* read() filled the buffer, or gcount() says it read something. *)
ReadsOn == unread > 0

Chunk == IF unread < MaxMessageSize THEN unread ELSE MaxMessageSize

----------------------------------------------------------------------------
(* The thread *)

(* while (channel->isOpen()) *)
Loops ==
    /\ pc = "loop"
    /\ Goto(IF open THEN "get" ELSE "ended")
    /\ UNCHANGED <<fileQ, accepted, channelVars, resultVars>>

(* GetItem: waits until there is an item, whatever becomes of the channel. *)
GetsItem ==
    /\ pc = "get" /\ fileQ # <<>>
    /\ pc' = "got" /\ file' = Head(fileQ) /\ fileQ' = Tail(fileQ)
    /\ UNCHANGED <<back, unread, chunk, accepted, channelVars, resultVars>>

(* The channel is looked at again before the file is locked and opened. *)
OpensFile ==
    /\ pc = "got"
    /\ \/ /\ ~open
          /\ Goto("ended") /\ UNCHANGED passedOver
       \/ /\ open /\ file \in Unreadable
          /\ pc' = "loop" /\ file' = NoFile /\ UNCHANGED <<back, unread, chunk>>
          /\ passedOver' = passedOver \cup {file}
       \/ /\ open /\ file \notin Unreadable
          /\ pc' = "read" /\ unread' = Size[file] /\ UNCHANGED <<back, file, chunk, passedOver>>
    /\ UNCHANGED <<fileQ, accepted, channelVars, sent, completed, missed>>

(* The next chunk, or the end of the file: its completion is reported if    *)
(* the channel is still open.                                               *)
ReadsChunk ==
    /\ pc = "read" /\ ReadsOn
    /\ pc' = "gate" /\ chunk' = Chunk /\ unread' = unread - Chunk
    /\ UNCHANGED <<fileQ, accepted, back, file, channelVars, resultVars>>

FinishesFile ==
    /\ pc = "read" /\ ~ReadsOn
    /\ pc' = "loop" /\ file' = NoFile /\ unread' = 0 /\ UNCHANGED <<back, chunk>>
    /\ completed' = IF open THEN completed \cup {file} ELSE completed
    /\ UNCHANGED <<fileQ, accepted, channelVars, sent, passedOver, missed>>

(* while (bufferedAmount() > maxMessageSize) waitForCapacity() *)
PassesGate ==
    /\ pc = "gate"
    /\ IF Gate
       THEN pc' = "test" /\ back' = "gate" /\ UNCHANGED <<file, unread, chunk>>
       ELSE Goto("send")
    /\ UNCHANGED <<fileQ, accepted, channelVars, resultVars>>

(* send: an open channel sends the bytes or buffers them, and says which.   *)
(* A false is taken for a full buffer, or for a channel that has closed.    *)
Sends ==
    /\ pc = "send"
    /\ \E taken \in BOOLEAN :
          /\ taken => open
          /\ \/ open /\ buffered' = buffered + chunk
             \/ taken /\ buffered = 0 /\ UNCHANGED buffered
             \/ ~open /\ UNCHANGED buffered
          /\ sent' = IF open THEN [sent EXCEPT ![file] = @ + chunk] ELSE sent
          /\ IF taken
             THEN pc' = "read" /\ UNCHANGED back
             ELSE pc' = "test" /\ back' = "read"
    /\ chunk' = 0
    /\ UNCHANGED <<fileQ, accepted, file, unread, open, closed, callback, completed, passedOver, missed>>

(* waitForCapacity tests its predicate with the mutex held ... *)
TestsCapacity ==
    /\ pc = "test"
    /\ \/ WaitOver /\ Goto(IF closed \/ ~open THEN "ended" ELSE back)
       \/ ~WaitOver /\ Goto("full")
    /\ UNCHANGED <<fileQ, accepted, channelVars, resultVars>>

(* ... and gives the mutex up as it falls asleep. *)
FallsAsleep ==
    /\ pc = "full"
    /\ Goto("asleep")
    /\ UNCHANGED <<fileQ, accepted, channelVars, resultVars>>

----------------------------------------------------------------------------
(* The channel and its callbacks *)

(* notify_one: heard by a thread that is asleep, which tests again. *)
Notified == IF pc = "asleep" THEN "test" ELSE pc

(* Bytes leave the buffer; as it falls to the threshold the callback is due. *)
Drain(n) ==
    /\ open /\ callback = "none" /\ n <= buffered
    /\ buffered' = buffered - n
    /\ callback' = IF buffered > LowThreshold /\ buffered' <= LowThreshold THEN "low" ELSE "none"
    /\ UNCHANGED <<fileQ, accepted, threadVars, open, closed, resultVars>>

(* onBufferedAmountLow notifies without the mutex. *)
OnBufferedAmountLow ==
    /\ callback = "low" /\ callback' = "none"
    /\ pc' = Notified
    /\ missed' = (missed \/ (pc = "full" /\ WaitOver))
    /\ UNCHANGED <<fileQ, accepted, back, file, unread, chunk, buffered, open, closed, sent,
                   completed, passedOver>>

(* The channel stops being open before onClosed is called. *)
ChannelEnds ==
    /\ MayClose /\ open /\ callback = "none"
    /\ open' = FALSE /\ callback' = "closed"
    /\ UNCHANGED <<fileQ, accepted, threadVars, buffered, closed, resultVars>>

(* onClosed sets closed with the mutex held ... *)
OnClosed ==
    /\ callback = "closed" /\ MutexFree
    /\ closed' = TRUE /\ callback' = "wake"
    /\ UNCHANGED <<fileQ, accepted, threadVars, buffered, open, resultVars>>

(* ... and notifies. *)
OnClosedNotifies ==
    /\ callback = "wake" /\ callback' = "none"
    /\ pc' = Notified
    /\ UNCHANGED <<fileQ, accepted, back, file, unread, chunk, buffered, open, closed, resultVars>>

(* OnFileAccept: the file is put into the queue of the channel. *)
AddsItem(f) ==
    /\ f \notin accepted
    /\ accepted' = accepted \cup {f}
    /\ fileQ' = Append(fileQ, f)
    /\ UNCHANGED <<threadVars, channelVars, resultVars>>

----------------------------------------------------------------------------
Init ==
    /\ fileQ = <<>> /\ accepted = {}
    /\ pc = "loop" /\ back = "read" /\ file = NoFile /\ unread = 0 /\ chunk = 0
    /\ buffered = 0 /\ open = TRUE /\ closed = FALSE /\ callback = "none"
    /\ sent = [f \in Files |-> 0] /\ completed = {} /\ passedOver = {} /\ missed = FALSE

ThreadStep ==
    \/ Loops \/ GetsItem \/ OpensFile \/ ReadsChunk \/ FinishesFile
    \/ PassesGate \/ Sends \/ TestsCapacity \/ FallsAsleep

CallbackStep == OnBufferedAmountLow \/ OnClosed \/ OnClosedNotifies

Draining == \E n \in 1 .. 2 * MaxMessageSize : Drain(n)

Next ==
    \/ ThreadStep \/ CallbackStep \/ Draining \/ ChannelEnds
    \/ \E f \in Files : AddsItem(f)

Spec == Init /\ [][Next]_vars

(* The threads run, and an open channel gets its bytes out.  Nobody has to  *)
(* accept a file or to close the channel.                                   *)
FairSpec ==
    /\ Spec
    /\ WF_vars(ThreadStep) /\ WF_vars(CallbackStep) /\ WF_vars(Draining)

----------------------------------------------------------------------------
(* Properties *)

(* The variables have the types of the state they stand for. *)
TypeOK ==
    /\ fileQ \in Seq(Files) /\ accepted \subseteq Files
    /\ pc \in {"loop", "get", "got", "read", "gate", "send", "test", "full", "asleep", "ended"}
    /\ back \in {"gate", "read"}
    /\ file \in Files \cup {NoFile} /\ unread \in Nat /\ chunk \in 0 .. MaxMessageSize
    /\ buffered \in Nat /\ open \in BOOLEAN /\ closed \in BOOLEAN
    /\ callback \in {"none", "low", "closed", "wake"}
    /\ sent \in [Files -> Nat] /\ completed \subseteq Files /\ passedOver \subseteq Files
    /\ missed \in BOOLEAN

(* Sending observes the buffer's capacity (README.md:94-95): never more     *)
(* than two messages are buffered, although send may take bytes when it     *)
(* says it has not, and the buffer is looked at in two places.              *)
BufferBounded == buffered <= 2 * MaxMessageSize

(* A file is reported complete (SendFileComplete) only when every byte of   *)
(* it has been given to the channel, whatever the waits in between.         *)
CompletedWhole == \A f \in completed : sent[f] = Size[f]

(* A thread that sleeps has a reason to: the buffer is above the threshold, *)
(* a callback is on its way, or the one notification without the mutex was  *)
(* missed.  The closing of the channel is never slept through.              *)
SleepsForAReason ==
    pc = "asleep" => \/ open /\ (~WaitOver \/ callback = "low" \/ missed)
                     \/ ~open /\ callback \in {"closed", "wake"}


=============================================================================
