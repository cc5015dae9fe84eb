-------------------------- MODULE SendWindowProofs --------------------------
(* What the sending thread of a data channel guarantees for files of every *)
(* size, every --maxMessageSize, and whichever way the callbacks overtake  *)
(* it.                                                                     *)
EXTENDS SendWindow, TLAPS

(* The chunk read from an open file: some of it, and no more than fits.    *)
LEMMA ChunkFits ==
    ASSUME TypeOK
    PROVE  Chunk \in 0 .. MaxMessageSize /\ unread - Chunk \in Nat
BY ConstantsAssumption DEF Chunk, TypeOK

(* The steps of the system one by one, for the proofs by cases below.      *)
LEMMA StepCases ==
    ASSUME [Next]_vars
    PROVE  \/ Loops \/ GetsItem \/ OpensFile \/ ReadsChunk \/ FinishesFile
           \/ PassesGate \/ Sends \/ TestsCapacity \/ FallsAsleep
           \/ OnBufferedAmountLow \/ OnClosed \/ OnClosedNotifies \/ ChannelEnds
           \/ \E n \in 1 .. 2 * MaxMessageSize : Drain(n)
           \/ \E f \in Files : AddsItem(f)
           \/ UNCHANGED vars
BY DEF Next, ThreadStep, CallbackStep, Draining

----------------------------------------------------------------------------
(* Beside the types: a thread that is busy has a file in hand, whose size  *)
(* it may look up.                                                         *)
HasFile == pc \notin {"loop", "get", "ended"} => file \in Files

TypeInv == TypeOK /\ HasFile

(* Every step keeps the types of the queue, the thread and the channel.    *)
LEMMA TypeStep == TypeInv /\ [Next]_vars => TypeInv'
<1> SUFFICES ASSUME TypeInv, [Next]_vars
             PROVE  TypeInv'
  OBVIOUS
<1> USE ConstantsAssumption DEF TypeInv, HasFile
<1>1. CASE Loops
  BY <1>1 DEF Loops, Goto, TypeOK, channelVars, resultVars
<1>2. CASE GetsItem
  <2>1. Head(fileQ) \in Files /\ Tail(fileQ) \in Seq(Files)
    BY <1>2 DEF GetsItem, TypeOK
  <2>2. QED
    BY <1>2, <2>1 DEF GetsItem, TypeOK, channelVars, resultVars
<1>3. CASE OpensFile
  <2>1. file \in Files /\ Size[file] \in Nat
    BY <1>3 DEF OpensFile
  <2>2. QED
    BY <1>3, <2>1 DEF OpensFile, Goto, TypeOK, channelVars
<1>4. CASE ReadsChunk
  BY <1>4, ChunkFits DEF ReadsChunk, TypeOK, channelVars, resultVars
<1>5. CASE FinishesFile
  BY <1>5 DEF FinishesFile, TypeOK, channelVars
<1>6. CASE PassesGate
  BY <1>6 DEF PassesGate, Goto, TypeOK, channelVars, resultVars
<1>7. CASE Sends
  BY <1>7 DEF Sends, TypeOK
<1>8. CASE TestsCapacity
  BY <1>8 DEF TestsCapacity, Goto, TypeOK, channelVars, resultVars
<1>9. CASE FallsAsleep
  BY <1>9 DEF FallsAsleep, Goto, TypeOK, channelVars, resultVars
<1>10. CASE OnBufferedAmountLow
  BY <1>10 DEF OnBufferedAmountLow, Notified, WaitOver, TypeOK
<1>11. CASE OnClosed
  BY <1>11 DEF OnClosed, TypeOK, threadVars, resultVars
<1>12. CASE OnClosedNotifies
  BY <1>12 DEF OnClosedNotifies, Notified, TypeOK, resultVars
<1>13. CASE ChannelEnds
  BY <1>13 DEF ChannelEnds, TypeOK, threadVars, resultVars
<1>14. CASE \E n \in 1 .. 2 * MaxMessageSize : Drain(n)
  BY <1>14 DEF Drain, TypeOK, threadVars, resultVars
<1>15. CASE \E f \in Files : AddsItem(f)
  BY <1>15 DEF AddsItem, TypeOK, threadVars, channelVars, resultVars
<1>16. CASE UNCHANGED vars
  BY <1>16 DEF TypeOK, vars, threadVars, channelVars, resultVars
<1>17. QED
  BY <1>1, <1>2, <1>3, <1>4, <1>5, <1>6, <1>7, <1>8, <1>9, <1>10, <1>11, <1>12, <1>13, <1>14,
     <1>15, <1>16, StepCases

(* The strengthened type invariant.                                        *)
LEMMA TypeInvariant == Spec => []TypeInv
<1>1. Init => TypeInv
  <2> SUFFICES ASSUME Init
               PROVE  TypeInv
    OBVIOUS
  <2>1. fileQ \in Seq(Files) /\ sent \in [Files -> Nat]
    BY DEF Init
  <2>2. 0 \in 0 .. MaxMessageSize
    BY ConstantsAssumption
  <2>3. QED
    BY <2>1, <2>2 DEF Init, TypeInv, TypeOK, HasFile
<1>2. QED
  BY <1>1, TypeStep, PTL DEF Spec

(* The queue, the thread and the channel always have their types.          *)
THEOREM TypeCorrect == Spec => []TypeOK
<1>1. TypeInv => TypeOK
  BY DEF TypeInv
<1>2. QED
  BY <1>1, TypeInvariant, PTL

----------------------------------------------------------------------------
(* When the thread calls send the gate has found room: the test of         *)
(* bufferedAmount() holds until then, since only this thread fills the     *)
(* buffer.                                                                 *)
BufferInv == BufferBounded /\ (pc = "send" => buffered <= MaxMessageSize)

(* Every step keeps the bound: send is only reached through the gate, and  *)
(* only the thread adds to the buffer.                                     *)
LEMMA BufferStep == TypeInv /\ BufferInv /\ [Next]_vars => BufferInv'
<1> SUFFICES ASSUME TypeInv, BufferInv, [Next]_vars
             PROVE  BufferInv'
  OBVIOUS
<1> USE ConstantsAssumption DEF TypeInv, TypeOK, BufferInv, BufferBounded
<1>1. CASE Loops \/ GetsItem \/ OpensFile \/ ReadsChunk \/ FinishesFile
  BY <1>1 DEF Loops, GetsItem, OpensFile, ReadsChunk, FinishesFile, Goto, channelVars
<1>2. CASE PassesGate
  BY <1>2 DEF PassesGate, Gate, Goto, channelVars
<1>3. CASE Sends
  BY <1>3 DEF Sends
<1>4. CASE TestsCapacity \/ FallsAsleep
  BY <1>4 DEF TestsCapacity, FallsAsleep, Goto, channelVars
<1>5. CASE OnBufferedAmountLow \/ OnClosed \/ OnClosedNotifies \/ ChannelEnds
  BY <1>5 DEF OnBufferedAmountLow, OnClosed, OnClosedNotifies, ChannelEnds, Notified, threadVars
<1>6. CASE \E n \in 1 .. 2 * MaxMessageSize : Drain(n)
  BY <1>6 DEF Drain, threadVars
<1>7. CASE (\E f \in Files : AddsItem(f)) \/ UNCHANGED vars
  BY <1>7 DEF AddsItem, vars, threadVars, channelVars
<1>8. QED
  BY <1>1, <1>2, <1>3, <1>4, <1>5, <1>6, <1>7, StepCases

(* Never more than two messages are buffered: the gate in front of send    *)
(* and the wait behind it bound the channel's buffer together.             *)
THEOREM BufferStaysBounded == Spec => []BufferBounded
<1>1. Init => BufferInv
  BY ConstantsAssumption DEF Init, BufferInv, BufferBounded
<1>2. BufferInv => BufferBounded
  BY DEF BufferInv
<1>3. QED
  BY <1>1, <1>2, BufferStep, TypeInvariant, PTL DEF Spec

----------------------------------------------------------------------------
(* Why a sleeping thread sleeps, in terms of what holds since it tested    *)
(* its predicate: the callbacks are due in the states in which they are    *)
(* needed, and onClosed cannot pass between the test and the sleep.        *)
ClosingInv ==
    /\ closed => ~open
    /\ callback \in {"closed", "wake"} => ~open
    /\ callback = "closed" => ~closed
    /\ ~open => callback \in {"closed", "wake"} \/ closed
    /\ callback = "wake" => closed

SleepInv ==
    /\ ClosingInv
    /\ pc \in {"full", "asleep"} =>
         \/ open /\ (~WaitOver \/ callback = "low" \/ missed)
         \/ ~open /\ callback \in {"closed", "wake"}
    /\ pc = "full" => callback # "wake" /\ ~closed

(* Every step keeps the reasons to sleep: the callbacks of a closing       *)
(* channel wait for the mutex of a thread about to sleep.                  *)
LEMMA SleepStep == TypeInv /\ SleepInv /\ [Next]_vars => SleepInv'
<1> SUFFICES ASSUME TypeInv, SleepInv, [Next]_vars
             PROVE  SleepInv'
  OBVIOUS
<1> USE DEF TypeInv, TypeOK, SleepInv, ClosingInv, WaitOver
<1>1. CASE Loops \/ GetsItem \/ OpensFile \/ ReadsChunk \/ FinishesFile \/ PassesGate
  BY <1>1 DEF Loops, GetsItem, OpensFile, ReadsChunk, FinishesFile, PassesGate, Goto,
              channelVars, resultVars
<1>2. CASE Sends
  BY <1>2 DEF Sends
<1>3. CASE TestsCapacity
  BY <1>3 DEF TestsCapacity, Goto, channelVars, resultVars
<1>4. CASE FallsAsleep
  BY <1>4 DEF FallsAsleep, Goto, channelVars, resultVars
<1>5. CASE OnBufferedAmountLow
  BY <1>5 DEF OnBufferedAmountLow, Notified
<1>6. CASE OnClosed
  BY <1>6 DEF OnClosed, MutexFree, threadVars, resultVars
<1>7. CASE OnClosedNotifies
  BY <1>7 DEF OnClosedNotifies, Notified, resultVars
<1>8. CASE ChannelEnds
  BY <1>8 DEF ChannelEnds, threadVars, resultVars
<1>9. CASE \E n \in 1 .. 2 * MaxMessageSize : Drain(n)
  <2>1. PICK n \in 1 .. 2 * MaxMessageSize : Drain(n)
    BY <1>9
  <2>2. /\ open /\ ~closed /\ callback = "none"
        /\ UNCHANGED <<pc, open, closed, missed>>
        /\ callback' \in {"low", "none"}
    BY <2>1 DEF Drain, threadVars, resultVars
  <2>3. buffered > MaxMessageSize \div 2 /\ callback' # "low" =>
           ~(buffered' <= MaxMessageSize \div 2)
    BY <2>1 DEF Drain, LowThreshold
  <2>4. ~(buffered <= MaxMessageSize \div 2) => buffered > MaxMessageSize \div 2
    BY ConstantsAssumption
  <2>5. QED
    BY <2>2, <2>3, <2>4
<1>10. CASE (\E f \in Files : AddsItem(f)) \/ UNCHANGED vars
  BY <1>10 DEF AddsItem, vars, threadVars, channelVars, resultVars
<1>11. QED
  BY <1>1, <1>2, <1>3, <1>4, <1>5, <1>6, <1>7, <1>8, <1>9, <1>10, StepCases

(* A sleeping thread is owed a notification, or has missed one of the kind *)
(* that is sent without the mutex.  The closing of the channel is heard.   *)
THEOREM SleepHasAReason == Spec => []SleepsForAReason
<1>1. Init => SleepInv
  BY DEF Init, SleepInv, ClosingInv
<1>2. SleepInv => SleepsForAReason
  BY DEF SleepInv, SleepsForAReason
<1>3. QED
  BY <1>1, <1>2, SleepStep, TypeInvariant, PTL DEF Spec

----------------------------------------------------------------------------
(* Files are counted: what has been read of the file in hand is in the     *)
(* thread's buffer or has been given to the channel, unless the channel    *)
(* refused it, and then the thread goes to its end.                        *)
Busy == pc \notin {"loop", "get", "ended"}
Begun == pc \in {"read", "gate", "send", "test", "full", "asleep"}

Counted ==
    /\ Busy => file \in accepted /\ file \notin completed
    /\ pc = "got" => sent[file] = 0
    /\ Begun => sent[file] + chunk + unread = Size[file] \/ (pc = "test" /\ ~open)
    /\ pc \in {"loop", "get", "got", "read"} => chunk = 0
    /\ pc \in {"test", "full", "asleep"} /\ back = "read" => chunk = 0

(* A file waits in the queue once, untouched, and is not in hand then.     *)
Untouched ==
    /\ \A f \in Files \ accepted : sent[f] = 0 /\ f \notin completed
    /\ \A i \in DOMAIN fileQ :
         /\ fileQ[i] \in accepted /\ sent[fileQ[i]] = 0 /\ fileQ[i] \notin completed
         /\ Busy => fileQ[i] # file
         /\ \A j \in DOMAIN fileQ : fileQ[i] = fileQ[j] => i = j

CompletedInv == CompletedWhole /\ Counted /\ Untouched

(* Every step keeps the account of bytes: read, in hand and given to the   *)
(* channel add up to the file.                                             *)
LEMMA CompletedStep == TypeInv /\ ClosingInv /\ CompletedInv /\ [Next]_vars => CompletedInv'
<1> SUFFICES ASSUME TypeInv, ClosingInv, CompletedInv, [Next]_vars
             PROVE  CompletedInv'
  OBVIOUS
<1> USE ConstantsAssumption
    DEF TypeInv, TypeOK, HasFile, CompletedInv, CompletedWhole, Counted, Untouched, Busy, Begun
<1>1. CASE Loops
  BY <1>1 DEF Loops, Goto, channelVars, resultVars
<1>2. CASE GetsItem
  <2>1. /\ Head(fileQ) = fileQ[1] /\ 1 \in DOMAIN fileQ
        /\ \A i \in DOMAIN Tail(fileQ) :
             Tail(fileQ)[i] = fileQ[i + 1] /\ i + 1 \in DOMAIN fileQ /\ i + 1 # 1 /\ i \in Int
    BY <1>2 DEF GetsItem
  <2>2. Untouched'
    BY <1>2, <2>1 DEF GetsItem, channelVars, resultVars
  <2>3. CompletedWhole' /\ Counted'
    BY <1>2, <2>1 DEF GetsItem, channelVars, resultVars
  <2>4. QED
    BY <2>2, <2>3
<1>3. CASE OpensFile
  BY <1>3 DEF OpensFile, Goto, channelVars
<1>4. CASE ReadsChunk
  BY <1>4, ChunkFits DEF ReadsChunk, channelVars, resultVars
<1>5. CASE FinishesFile
  <2>1. sent[file] = Size[file]
    BY <1>5 DEF FinishesFile, ReadsOn
  <2>2. QED
    BY <1>5, <2>1 DEF FinishesFile, channelVars
<1>6. CASE PassesGate
  BY <1>6 DEF PassesGate, Goto, channelVars, resultVars
<1>7. CASE Sends
  <2>1. pc = "send" /\ file \in Files
    BY <1>7 DEF Sends
  <2>2. Counted'
    BY <1>7, <2>1 DEF Sends
  <2>3. CompletedWhole'
    BY <1>7, <2>1 DEF Sends
  <2>4. Untouched'
    BY <1>7, <2>1 DEF Sends
  <2>5. QED
    BY <2>2, <2>3, <2>4
<1>8. CASE TestsCapacity
  BY <1>8 DEF TestsCapacity, WaitOver, Goto, channelVars, resultVars
<1>9. CASE FallsAsleep
  BY <1>9 DEF FallsAsleep, Goto, channelVars, resultVars
<1>10. CASE OnBufferedAmountLow
  BY <1>10 DEF OnBufferedAmountLow, Notified
<1>11. CASE OnClosed \/ OnClosedNotifies \/ ChannelEnds
  BY <1>11 DEF OnClosed, OnClosedNotifies, ChannelEnds, Notified, threadVars, resultVars
<1>12. CASE \E n \in 1 .. 2 * MaxMessageSize : Drain(n)
  BY <1>12 DEF Drain, threadVars, resultVars
<1>13. ASSUME NEW f \in Files, AddsItem(f)
       PROVE  CompletedInv'
  <2>1. \A i \in DOMAIN fileQ' : fileQ'[i] = f \/ (i \in DOMAIN fileQ /\ fileQ'[i] = fileQ[i])
    BY <1>13 DEF AddsItem
  <2>2. \A i \in DOMAIN fileQ' : i \notin DOMAIN fileQ => i = Len(fileQ) + 1 /\ fileQ'[i] = f
    BY <1>13 DEF AddsItem
  <2>3. f \notin accepted /\ accepted' = accepted \cup {f}
    BY <1>13 DEF AddsItem
  <2>4. \A i, j \in DOMAIN fileQ' : fileQ'[i] = fileQ'[j] => i = j
    <3>1. \A i \in DOMAIN fileQ : fileQ[i] # f
      BY <2>3
    <3>2. \A i \in DOMAIN fileQ : i \in DOMAIN fileQ' => fileQ'[i] = fileQ[i]
      BY <1>13 DEF AddsItem
    <3>3. TAKE i, j \in DOMAIN fileQ'
    <3>4. CASE i \in DOMAIN fileQ /\ j \in DOMAIN fileQ
      BY <3>2, <3>4
    <3>5. CASE i \notin DOMAIN fileQ \/ j \notin DOMAIN fileQ
      BY <2>2, <3>1, <3>2, <3>5
    <3>6. QED
      BY <3>4, <3>5
  <2>5. UNCHANGED <<pc, back, file, unread, chunk, open, sent, completed>>
    BY <1>13 DEF AddsItem, threadVars, channelVars, resultVars
  <2>6. Untouched'
    BY <2>1, <2>3, <2>4, <2>5
  <2>7. QED
    BY <2>3, <2>5, <2>6
<1>14. CASE UNCHANGED vars
  BY <1>14 DEF vars, threadVars, channelVars, resultVars
<1>15. QED
  BY <1>1, <1>2, <1>3, <1>4, <1>5, <1>6, <1>7, <1>8, <1>9, <1>10, <1>11, <1>12, <1>13, <1>14,
     StepCases

(* A file is reported complete only with all of its bytes given to the     *)
(* channel, for files and messages of any size.                            *)
THEOREM CompleteIsWhole == Spec => []CompletedWhole
<1>1. Init => CompletedInv /\ SleepInv
  BY ConstantsAssumption
     DEF Init, CompletedInv, CompletedWhole, Counted, Untouched, Busy, Begun, SleepInv, ClosingInv
<1>2. SleepInv => ClosingInv
  BY DEF SleepInv
<1>3. CompletedInv => CompletedWhole
  BY DEF CompletedInv
<1>4. QED
  BY <1>1, <1>2, <1>3, CompletedStep, SleepStep, TypeInvariant, PTL DEF Spec
=============================================================================
