------------------------- MODULE ClientSessionProofs -------------------------
(* What the session of a client guarantees for any files, any number of     *)
(* lost connections and received files, and whichever waits time out.       *)
EXTENDS ClientSession, TLAPS

(* The steps of the session one by one, for the proofs by cases below.      *)
LEMMA StepCases ==
    ASSUME [Next]_vars
    PROVE  \/ Ends \/ Begins \/ TakesQueue \/ SendsPing
           \/ Joins \/ JoinWaitOver \/ Connects \/ MakesChannel \/ InsertsChannel
           \/ OffersNext \/ PeerWaitOver \/ ReadsFile \/ RegistersOffer \/ Offered
           \/ WaitsUntilRunning \/ SendSucceeds \/ SendFails
           \/ IdleTimeout \/ PongTimeout \/ JoinTimeout \/ PeerTimeout \/ DescriptionTimeout
           \/ PortConnects \/ PortWakes \/ PortStopped
           \/ SocketOpens \/ OnMessageOpen \/ OnMessageClose \/ ClearsTables \/ SocketEnds
           \/ OnJoin \/ OnPeerJoin \/ OnPeerLeave \/ OnPingPong
           \/ \E f \in Files, accept \in BOOLEAN : OnFileAnswer(f, accept)
           \/ \E f \in Files : QueueFile(f)
           \/ StopCalled \/ StopSetsExit \/ StopsPort \/ StopReturned
           \/ ReceiveStarts \/ LastChunk \/ TransferComplete
           \/ UNCHANGED vars
BY DEF Next, WorkerStep, WorkerTimeout, PortStep, SocketStep, StopStep, QueueFile, Valid

----------------------------------------------------------------------------
(* The types                                                                *)

(* The worker is somewhere in OfferFiles with a file in hand: it waits for  *)
(* its room or peer again, makes a channel again, or sends the offer.       *)
Offering ==
    \/ pc \in {"peer", "fileOffer", "register", "offered"}
    \/ pc \in {"join", "waitJoin", "channel", "insert"} /\ ret = "peer"
    \/ pc \in {"wait", "send"} /\ msg = "file_offer"
    \/ pc \in {"wait", "send"} /\ msg \in {"join", "offer"} /\ ret = "peer"

(* OfferFiles works on a file only while one is left in its batch, and it   *)
(* is known for whom the worker waits for the peer.                         *)
BatchInHand ==
    /\ Offering => batch # <<>>
    /\ pc \in {"connect", "peer"} => ret = pc

TypeInv == TypeOK /\ BatchInHand

(* The parts of TypeOK that the steps of one thread change together.        *)
StateOK == clientState \in States /\ transportOpen \in BOOLEAN

TablesOK ==
    /\ inRoom \in BOOLEAN /\ peerHere \in BOOLEAN
    /\ channel \in {"none", "new", "open", "dead"} /\ pending \subseteq Files

PortOK ==
    /\ isRunning \in BOOLEAN /\ stopRequested \in BOOLEAN /\ disconnected \in BOOLEAN
    /\ port \in {"make", "watch", "stopping", "ended"}
    /\ sock \in {"connecting", "opened", "up", "closed", "clearing", "down"}
    /\ losses \in 0 .. MaxLosses

AppOK ==
    /\ stopper \in {"no", "called", "exit", "port", "returned"}
    /\ receiving \in {"no", "data", "written"}
    /\ receives \in 0 .. MaxReceives

ServerOK ==
    /\ member \in BOOLEAN /\ replies \subseteq {"joined", "pong"}
    /\ offers \in Seq(Files) /\ unanswered \subseteq Files
    /\ leaves \in 0 .. MaxLeaves

(* What a step leaves alone keeps its types.                                *)
LEMMA Kept ==
    ASSUME TypeInv
    PROVE  /\ UNCHANGED stateVars => StateOK'
           /\ UNCHANGED <<rosterVars, tableVars>> => TablesOK'
           /\ UNCHANGED portVars => PortOK'
           /\ UNCHANGED appVars => AppOK'
           /\ UNCHANGED serverVars => ServerOK'
<1> USE DEF TypeInv, TypeOK
<1>1. UNCHANGED stateVars => StateOK'
  BY DEF stateVars, StateOK
<1>2. UNCHANGED <<rosterVars, tableVars>> => TablesOK'
  BY DEF rosterVars, tableVars, TablesOK
<1>3. UNCHANGED portVars => PortOK'
  BY DEF portVars, PortOK
<1>4. UNCHANGED appVars => AppOK'
  BY DEF appVars, AppOK
<1>5. UNCHANGED serverVars => ServerOK'
  BY DEF serverVars, ServerOK
<1>6. QED
  BY <1>1, <1>2, <1>3, <1>4, <1>5

(* A step of a thread that is not the worker keeps the types when it does   *)
(* so for the parts it changes.                                             *)
LEMMA PartsType ==
    ASSUME TypeInv, UNCHANGED <<threadVars, fileVars>>,
           StateOK', TablesOK', PortOK', AppOK', ServerOK'
    PROVE  TypeInv'
<1>1. BatchInHand'
  BY DEF TypeInv, BatchInHand, Offering, threadVars, fileVars
<1>2. TypeOK'
  BY DEF TypeInv, TypeOK, threadVars, fileVars, StateOK, TablesOK, PortOK, AppOK, ServerOK
<1>3. QED
  BY <1>1, <1>2 DEF TypeInv

(* Giving up the files in hand keeps the types, whatever state it leaves.   *)
LEMMA AbandonType ==
    ASSUME TypeInv, Abandon, clientState' \in States,
           channel' \in {"none", "new", "open", "dead"}, pending' = pending,
           UNCHANGED <<transportOpen, rosterVars, portVars, appVars, serverVars>>
    PROVE  TypeInv'
<1>1. batch' \in Seq(Files) /\ ~Offering' /\ pc' = "main"
  BY DEF Abandon, Goto, Offering
<1>2. TypeOK'
  BY <1>1 DEF TypeInv, TypeOK, Abandon, Goto, rosterVars, portVars, appVars, serverVars
<1>3. QED
  BY <1>1, <1>2 DEF TypeInv, BatchInHand

(* The worker's own steps keep the types, and whenever they bring it into   *)
(* OfferFiles there is a file in the batch.                                 *)
LEMMA WorkerType ==
    ASSUME TypeInv,
           \/ Ends \/ Begins \/ TakesQueue \/ SendsPing
           \/ Joins \/ JoinWaitOver \/ Connects \/ MakesChannel \/ InsertsChannel
           \/ OffersNext \/ PeerWaitOver \/ ReadsFile \/ RegistersOffer \/ Offered
           \/ WaitsUntilRunning
           \/ IdleTimeout \/ PongTimeout \/ JoinTimeout \/ PeerTimeout \/ DescriptionTimeout
    PROVE  TypeInv'
<1> USE DEF TypeInv, TypeOK, BatchInHand, Offering, Goto, Send, Abandon, Stopped, States,
        stateVars, threadVars, fileVars, rosterVars, tableVars, portVars, appVars, serverVars,
        workerVars
<1>1. CASE Ends
  BY <1>1 DEF Ends
<1>2. CASE Begins
  BY <1>2, ConstantsAssumption DEF Begins
<1>3. CASE TakesQueue
  BY <1>3 DEF TakesQueue, Taken
<1>4. CASE SendsPing
  BY <1>4 DEF SendsPing
<1>5. CASE Joins
  <2>1. CASE Abandon
    BY <1>5, <2>1, AbandonType DEF Joins
  <2>2. CASE ~Abandon
    BY <1>5, <2>2 DEF Joins
  <2>3. QED
    BY <2>1, <2>2
<1>6. CASE JoinWaitOver
  <2>1. CASE Abandon
    BY <1>6, <2>1, AbandonType DEF JoinWaitOver
  <2>2. CASE ~Abandon
    BY <1>6, <2>2 DEF JoinWaitOver
  <2>3. QED
    BY <2>1, <2>2
<1>7. CASE Connects
  <2>1. CASE Abandon
    BY <1>7, <2>1, AbandonType DEF Connects
  <2>2. CASE (Goto("offerNext") \/ Goto("channel")) /\ UNCHANGED fileVars
    BY <1>7, <2>2 DEF Connects
  <2>3. QED
    BY <1>7, <2>1, <2>2 DEF Connects
<1>8. CASE MakesChannel
  BY <1>8 DEF MakesChannel, Channelled
<1>9. CASE InsertsChannel
  BY <1>9 DEF InsertsChannel
<1>10. CASE OffersNext
  BY <1>10 DEF OffersNext, AfterOffers
<1>11. CASE PeerWaitOver
  <2>1. CASE Abandon
    BY <1>11, <2>1, AbandonType DEF PeerWaitOver
  <2>2. CASE ~Abandon
    BY <1>11, <2>2 DEF PeerWaitOver
  <2>3. QED
    BY <2>1, <2>2
<1>12. CASE ReadsFile
  BY <1>12 DEF ReadsFile
<1>13. CASE RegistersOffer
  BY <1>13 DEF RegistersOffer
<1>14. CASE Offered
  <2>1. CASE Stopped
    BY <1>14, <2>1, AbandonType DEF Offered
  <2>2. CASE ~Stopped
    <3>1. Tail(batch) \in Seq(Files)
      BY <1>14 DEF Offered
    <3>2. QED
      <4>1. Goto("offerNext") /\ batch' = Tail(batch) /\ UNCHANGED <<queue, asked>>
        BY <1>14, <2>2 DEF Offered
      <4>2. UNCHANGED <<stateVars, rosterVars, tableVars, portVars, appVars, serverVars>>
        BY <1>14 DEF Offered
      <4>3. QED
        BY <3>1, <4>1, <4>2
  <2>3. QED
    BY <2>1, <2>2
<1>15. CASE WaitsUntilRunning
  BY <1>15 DEF WaitsUntilRunning
<1>16. CASE IdleTimeout \/ PongTimeout
  <2>1. clientState' \in States
    BY <1>16 DEF IdleTimeout, PongTimeout
  <2>2. /\ UNCHANGED <<transportOpen, workerVars, rosterVars, tableVars>>
        /\ UNCHANGED <<portVars, appVars, serverVars>>
    BY <1>16 DEF IdleTimeout, PongTimeout
  <2>3. QED
    BY <2>1, <2>2
<1>17. CASE JoinTimeout \/ PeerTimeout \/ DescriptionTimeout
  <2>1. Abandon
    BY <1>17 DEF JoinTimeout, PeerTimeout, DescriptionTimeout
  <2>2. /\ clientState' \in States /\ UNCHANGED tableVars
        /\ UNCHANGED <<transportOpen, rosterVars, portVars, appVars, serverVars>>
    BY <1>17 DEF JoinTimeout, PeerTimeout, DescriptionTimeout
  <2>3. QED
    BY <2>1, <2>2, AbandonType
<1>18. QED
  BY <1>1, <1>2, <1>3, <1>4, <1>5, <1>6, <1>7, <1>8, <1>9, <1>10, <1>11, <1>12, <1>13, <1>14,
     <1>15, <1>16, <1>17

(* What SendMessage sends or fails to send keeps the types.                 *)
LEMMA SendType ==
    ASSUME TypeInv
    PROVE  SendSucceeds \/ SendFails => TypeInv'
<1> USE DEF TypeInv, TypeOK, BatchInHand, Offering, Goto, Stopped, States,
        stateVars, threadVars, fileVars, rosterVars, tableVars, portVars, appVars, serverVars
<1>1. ASSUME SendSucceeds, msg = "join" \/ msg = "ping"
      PROVE  TypeInv'
  <2>1. member' \in BOOLEAN /\ replies' \subseteq {"joined", "pong"}
    BY <1>1 DEF SendSucceeds
  <2>2. pc' \in {"waitJoin", "main"} /\ UNCHANGED <<ret, msg>> /\ BatchInHand'
    BY <1>1 DEF SendSucceeds
  <2>3. UNCHANGED <<stateVars, fileVars, rosterVars, tableVars, portVars, appVars>>
        /\ UNCHANGED <<offers, unanswered, leaves>>
    BY <1>1 DEF SendSucceeds
  <2>4. QED
    BY <2>1, <2>2, <2>3
<1>2. ASSUME SendSucceeds, msg = "offer"
      PROVE  TypeInv'
  <2>1. channel' \in {"none", "new", "open", "dead"}
    BY <1>2 DEF SendSucceeds
  <2>2. pc' \in {"offerNext", "fileOffer"} /\ UNCHANGED <<ret, msg>> /\ BatchInHand'
    BY <1>2 DEF SendSucceeds, Channelled
  <2>3. UNCHANGED <<stateVars, fileVars, rosterVars, pending, portVars, appVars, serverVars>>
    BY <1>2 DEF SendSucceeds
  <2>4. QED
    BY <2>1, <2>2, <2>3
<1>3. ASSUME SendSucceeds, msg = "file_offer"
      PROVE  TypeInv'
  <2>1. Head(batch) \in Files
    BY <1>3 DEF SendSucceeds
  <2>2. offers' \in Seq(Files) /\ unanswered' \subseteq Files
    <3>1. Append(offers, Head(batch)) \in Seq(Files)
      BY <2>1
    <3>2. QED
      BY <1>3, <2>1, <3>1 DEF SendSucceeds
  <2>3. pc' = "offered" /\ UNCHANGED <<ret, msg>> /\ BatchInHand'
    BY <1>3 DEF SendSucceeds
  <2>4. UNCHANGED <<stateVars, fileVars, rosterVars, tableVars, portVars, appVars>>
        /\ UNCHANGED <<member, replies, leaves>>
    BY <1>3 DEF SendSucceeds
  <2>5. QED
    BY <2>2, <2>3, <2>4
<1>4. ASSUME SendFails, msg = "join" \/ msg = "offer"
      PROVE  TypeInv'
  <2>1. Abandon /\ clientState' \in States
    BY <1>4 DEF SendFails
  <2>2. channel' \in {"none", "new", "open", "dead"} /\ pending' = pending
    BY <1>4 DEF SendFails
  <2>3. UNCHANGED <<transportOpen, rosterVars, portVars, appVars, serverVars>>
    BY <1>4 DEF SendFails
  <2>4. QED
    BY <2>1, <2>2, <2>3, AbandonType
<1>5. ASSUME SendFails, msg = "ping" \/ msg = "file_offer"
      PROVE  TypeInv'
  <2>1. clientState' \in States /\ pending' \subseteq Files
    BY <1>5 DEF SendFails
  <2>2. pc' \in {"main", "offered"} /\ UNCHANGED <<ret, msg>> /\ BatchInHand'
    BY <1>5 DEF SendFails
  <2>3. UNCHANGED <<transportOpen, fileVars, rosterVars, channel, portVars, appVars, serverVars>>
    BY <1>5 DEF SendFails
  <2>4. QED
    BY <2>1, <2>2, <2>3
<1>6. QED
  BY <1>1, <1>2, <1>3, <1>4, <1>5

(* The threads the worker races with leave it where it is.                  *)
LEMMA OthersLeaveWorker ==
    ASSUME \/ PortConnects \/ PortWakes \/ PortStopped
           \/ SocketOpens \/ OnMessageOpen \/ OnMessageClose \/ ClearsTables \/ SocketEnds
           \/ OnJoin \/ OnPeerJoin \/ OnPeerLeave \/ OnPingPong
           \/ \E f \in Files, accept \in BOOLEAN : OnFileAnswer(f, accept)
           \/ StopCalled \/ StopSetsExit \/ StopsPort \/ StopReturned
           \/ ReceiveStarts \/ LastChunk \/ TransferComplete
           \/ UNCHANGED vars
    PROVE  UNCHANGED <<threadVars, fileVars>>
BY DEF PortConnects, PortWakes, PortStopped, SocketOpens, OnMessageOpen, OnMessageClose,
       ClearsTables, SocketEnds, OnJoin, OnPeerJoin, OnPeerLeave, OnPingPong, OnFileAnswer,
       StopCalled, StopSetsExit, StopsPort, StopReturned, ReceiveStarts, LastChunk,
       TransferComplete, Handles, workerVars, vars

(* They keep the types.                                                     *)
LEMMA OthersType ==
    ASSUME TypeInv
    PROVE  \/ PortConnects \/ PortWakes \/ PortStopped
           \/ SocketOpens \/ OnMessageOpen \/ OnMessageClose \/ ClearsTables \/ SocketEnds
           \/ OnJoin \/ OnPeerJoin \/ OnPeerLeave \/ OnPingPong
           \/ \E f \in Files, accept \in BOOLEAN : OnFileAnswer(f, accept)
           \/ StopCalled \/ StopSetsExit \/ StopsPort \/ StopReturned
           \/ ReceiveStarts \/ LastChunk \/ TransferComplete
           \/ UNCHANGED vars
           => TypeInv'
<1> USE Kept, PartsType, OthersLeaveWorker DEF TypeInv, TypeOK, States, Handles
<1>1. ASSUME PortConnects \/ PortWakes \/ PortStopped
      PROVE  TypeInv'
  <2>1. PortOK'
    BY <1>1 DEF PortConnects, PortWakes, PortStopped, PortOK
  <2>2. QED
    BY <1>1, <2>1 DEF PortConnects, PortWakes, PortStopped
<1>2. ASSUME SocketOpens
      PROVE  TypeInv'
  <2>1. PortOK'
    BY <1>2 DEF SocketOpens, PortOK
  <2>2. QED
    BY <1>2, <2>1 DEF SocketOpens
<1>3. ASSUME OnMessageOpen \/ OnMessageClose
      PROVE  TypeInv'
  <2>1. PortOK' /\ StateOK'
    BY <1>3 DEF OnMessageOpen, OnMessageClose, PortOK, StateOK, stateVars
  <2>2. QED
    BY <1>3, <2>1 DEF OnMessageOpen, OnMessageClose
<1>4. ASSUME ClearsTables
      PROVE  TypeInv'
  <2>1. PortOK' /\ TablesOK' /\ AppOK'
    BY <1>4 DEF ClearsTables, AfterLoss, PortOK, TablesOK, AppOK
  <2>2. QED
    BY <1>4, <2>1 DEF ClearsTables
<1>5. ASSUME SocketEnds
      PROVE  TypeInv'
  <2>1. losses' \in 0 .. MaxLosses
    BY <1>5, ConstantsAssumption DEF SocketEnds
  <2>2. PortOK'
    BY <1>5, <2>1 DEF SocketEnds, PortOK
  <2>3. ServerOK'
    BY <1>5 DEF SocketEnds, ServerOK
  <2>4. QED
    BY <1>5, <2>2, <2>3 DEF SocketEnds
<1>6. ASSUME OnJoin
      PROVE  TypeInv'
  <2>1. StateOK'
    BY <1>6 DEF OnJoin, AfterJoinReply, StateOK
  <2>2. TablesOK' /\ ServerOK'
    BY <1>6 DEF OnJoin, TablesOK, ServerOK, tableVars
  <2>3. QED
    BY <1>6, <2>1, <2>2 DEF OnJoin
<1>7. ASSUME OnPeerJoin
      PROVE  TypeInv'
  <2>1. StateOK' /\ TablesOK'
    BY <1>7 DEF OnPeerJoin, StateOK, TablesOK, tableVars
  <2>2. QED
    BY <1>7, <2>1 DEF OnPeerJoin
<1>8. ASSUME OnPeerLeave
      PROVE  TypeInv'
  <2>1. leaves' \in 0 .. MaxLeaves
    BY <1>8, ConstantsAssumption DEF OnPeerLeave
  <2>2. StateOK' /\ TablesOK' /\ ServerOK'
    BY <1>8, <2>1 DEF OnPeerLeave, StateOK, TablesOK, ServerOK, tableVars
  <2>3. QED
    BY <1>8, <2>2 DEF OnPeerLeave
<1>9. ASSUME OnPingPong
      PROVE  TypeInv'
  <2>1. StateOK' /\ ServerOK'
    BY <1>9 DEF OnPingPong, StateOK, ServerOK
  <2>2. QED
    BY <1>9, <2>1 DEF OnPingPong
<1>10. ASSUME NEW f \in Files, NEW accept \in BOOLEAN, OnFileAnswer(f, accept)
       PROVE  TypeInv'
  <2>1. StateOK'
    BY <1>10 DEF OnFileAnswer, AfterAnswer, StateOK
  <2>2. TablesOK' /\ ServerOK'
    BY <1>10 DEF OnFileAnswer, TablesOK, ServerOK, rosterVars
  <2>3. QED
    BY <1>10, <2>1, <2>2 DEF OnFileAnswer
<1>11. ASSUME StopCalled \/ StopReturned \/ LastChunk
       PROVE  TypeInv'
  <2>1. AppOK'
    BY <1>11 DEF StopCalled, StopReturned, LastChunk, AppOK
  <2>2. QED
    BY <1>11, <2>1 DEF StopCalled, StopReturned, LastChunk
<1>12. ASSUME StopSetsExit \/ TransferComplete
       PROVE  TypeInv'
  <2>1. AppOK' /\ StateOK'
    BY <1>12 DEF StopSetsExit, TransferComplete, AppOK, StateOK
  <2>2. QED
    BY <1>12, <2>1 DEF StopSetsExit, TransferComplete
<1>13. ASSUME StopsPort
       PROVE  TypeInv'
  <2>1. AppOK' /\ PortOK'
    BY <1>13 DEF StopsPort, AppOK, PortOK
  <2>2. QED
    BY <1>13, <2>1 DEF StopsPort
<1>14. ASSUME ReceiveStarts
       PROVE  TypeInv'
  <2>1. receives' \in 0 .. MaxReceives
    BY <1>14, ConstantsAssumption DEF ReceiveStarts
  <2>2. AppOK'
    BY <1>14, <2>1 DEF ReceiveStarts, AppOK
  <2>3. QED
    BY <1>14, <2>2 DEF ReceiveStarts
<1>15. ASSUME UNCHANGED vars
       PROVE  TypeInv'
  BY <1>15 DEF vars
<1>16. QED
  BY <1>1, <1>2, <1>3, <1>4, <1>5, <1>6, <1>7, <1>8, <1>9, <1>10, <1>11, <1>12, <1>13, <1>14,
     <1>15

(* A file that is queued is a path of the caller's.                         *)
LEMMA QueueType ==
    ASSUME TypeInv, NEW f \in Files, QueueFile(f)
    PROVE  TypeInv'
<1>1. queue' \in Seq(Files) /\ asked' \in Seq(Files)
  BY DEF QueueFile, TypeInv, TypeOK
<1>2. QED
  BY <1>1 DEF QueueFile, TypeInv, TypeOK, BatchInHand, Offering, stateVars, threadVars,
     rosterVars, tableVars, portVars, appVars, serverVars

(* The types are right in every reachable state, and OfferFiles never takes *)
(* a file out of an empty batch.                                            *)
THEOREM TypeInvariant == Spec => []TypeInv
<1>1. Init => TypeInv
  <2> SUFFICES ASSUME Init PROVE TypeInv
    OBVIOUS
  <2>1. losses \in 0 .. MaxLosses /\ receives \in 0 .. MaxReceives /\ leaves \in 0 .. MaxLeaves
    BY ConstantsAssumption DEF Init
  <2>2. queue \in Seq(Files) /\ batch \in Seq(Files) /\ asked \in Seq(Files) /\ offers \in Seq(Files)
    BY DEF Init
  <2>3. BatchInHand
    BY DEF Init, BatchInHand, Offering
  <2>4. TypeOK
    BY <2>1, <2>2 DEF Init, TypeOK, States
  <2>5. QED
    BY <2>3, <2>4 DEF TypeInv
<1>2. TypeInv /\ [Next]_vars => TypeInv'
  BY StepCases, WorkerType, SendType, OthersType, QueueType
<1>3. QED
  BY <1>1, <1>2, PTL DEF Spec

(* The state of a session keeps its types, whatever interleaves with it.    *)
THEOREM TypeCorrect == Spec => []TypeOK
BY TypeInvariant, PTL DEF TypeInv

----------------------------------------------------------------------------
(* NeverParked                                                              *)

(* The two states of a join are left before the worker is back in its loop: *)
(* the first one stands while JoinRooms sends or waits, the second one      *)
(* until the offers are made.                                               *)
JoinInProgress ==
    /\ clientState = "WAITING_FOR_JOIN" =>
          \/ pc = "waitJoin"
          \/ pc \in {"wait", "send"} /\ msg = "join"
    /\ clientState = "JOINED" =>
          /\ pc \notin {"main", "ended"}
          /\ pc \in {"wait", "send"} => msg # "ping"

(* The threads beside the worker bring a state of a join about only where   *)
(* the worker waits for it: OnJoin completes one that is being waited for.  *)
LEMMA OthersJoin ==
    ASSUME \/ PortConnects \/ PortWakes \/ PortStopped
           \/ SocketOpens \/ OnMessageOpen \/ OnMessageClose \/ ClearsTables \/ SocketEnds
           \/ OnJoin \/ OnPeerJoin \/ OnPeerLeave \/ OnPingPong
           \/ \E f \in Files, accept \in BOOLEAN : OnFileAnswer(f, accept)
           \/ \E f \in Files : QueueFile(f)
           \/ StopCalled \/ StopSetsExit \/ StopsPort \/ StopReturned
           \/ ReceiveStarts \/ LastChunk \/ TransferComplete
           \/ UNCHANGED vars
    PROVE  /\ UNCHANGED threadVars
           /\ \/ UNCHANGED clientState
              \/ clientState = "WAITING_FOR_JOIN" /\ clientState' = "JOINED"
              \/ clientState' \notin {"WAITING_FOR_JOIN", "JOINED"}
BY DEF PortConnects, PortWakes, PortStopped, SocketOpens, OnMessageOpen, OnMessageClose,
       ClearsTables, SocketEnds, OnJoin, OnPeerJoin, OnPeerLeave, OnPingPong, OnFileAnswer,
       QueueFile, StopCalled, StopSetsExit, StopsPort, StopReturned, ReceiveStarts, LastChunk,
       TransferComplete, AfterJoinReply, AfterAnswer, Handles, stateVars, workerVars, vars

(* Every step keeps the states of a join to the time of one.                *)
LEMMA JoinStep == TypeInv /\ JoinInProgress /\ [Next]_vars => JoinInProgress'
<1> SUFFICES ASSUME TypeInv, JoinInProgress
             PROVE  [Next]_vars => JoinInProgress'
  OBVIOUS
<1> USE DEF JoinInProgress, Goto, Send, Abandon, Stopped
<1>1. ASSUME Ends \/ Begins \/ TakesQueue \/ SendsPing
      PROVE  JoinInProgress'
  BY <1>1 DEF Ends, Begins, TakesQueue, SendsPing, stateVars
<1>2. ASSUME Joins
      PROVE  JoinInProgress'
  BY <1>2 DEF Joins, TypeInv, TypeOK, stateVars
<1>3. ASSUME JoinWaitOver
      PROVE  JoinInProgress'
  BY <1>3 DEF JoinWaitOver, TypeInv, TypeOK
<1>4. ASSUME Connects \/ PeerWaitOver \/ ReadsFile \/ Offered
      PROVE  JoinInProgress'
  BY <1>4 DEF Connects, PeerWaitOver, ReadsFile, Offered, stateVars
<1>5. ASSUME MakesChannel \/ InsertsChannel
      PROVE  JoinInProgress'
  BY <1>5 DEF MakesChannel, InsertsChannel, Channelled, stateVars
<1>6. ASSUME OffersNext
      PROVE  JoinInProgress'
  BY <1>6 DEF OffersNext, AfterOffers
<1>7. ASSUME RegistersOffer \/ WaitsUntilRunning
      PROVE  JoinInProgress'
  BY <1>7 DEF RegistersOffer, WaitsUntilRunning, stateVars
<1>8. ASSUME SendSucceeds
      PROVE  JoinInProgress'
  BY <1>8 DEF SendSucceeds, Channelled, stateVars
<1>9. ASSUME SendFails
      PROVE  JoinInProgress'
  BY <1>9 DEF SendFails
<1>10. ASSUME IdleTimeout \/ PongTimeout \/ JoinTimeout \/ PeerTimeout \/ DescriptionTimeout
       PROVE  JoinInProgress'
  BY <1>10 DEF IdleTimeout, PongTimeout, JoinTimeout, PeerTimeout, DescriptionTimeout
<1>11. ASSUME UNCHANGED threadVars,
              \/ UNCHANGED clientState
              \/ clientState = "WAITING_FOR_JOIN" /\ clientState' = "JOINED"
              \/ clientState' \notin {"WAITING_FOR_JOIN", "JOINED"}
       PROVE  JoinInProgress'
  BY <1>11 DEF threadVars
<1>12. QED
  BY <1>1, <1>2, <1>3, <1>4, <1>5, <1>6, <1>7, <1>8, <1>9, <1>10, <1>11, OthersJoin, StepCases

(* StartClient's loop never finds a state whose end it does not wait for.   *)
THEOREM LoopIsNeverParked == Spec => []NeverParked
<1>1. Init => JoinInProgress
  BY DEF Init, JoinInProgress
<1>2. JoinInProgress => NeverParked
  BY DEF JoinInProgress, NeverParked
<1>3. QED
  BY <1>1, <1>2, JoinStep, TypeInvariant, PTL DEF Spec

----------------------------------------------------------------------------
(* RosterOfThisConnection                                                   *)

(* Where a connection ends: nothing runs, nobody is a member and nothing is *)
(* answered but on a socket that is open, and a new one is made only when   *)
(* the last one is down.                                                    *)
ConnectionInv ==
    /\ port \in {"make", "ended"} => sock = "down"
    /\ isRunning => sock \in {"opened", "up"}
    /\ member => sock \in {"opened", "up"}
    /\ "joined" \in replies => member
    /\ receiving # "no" => receives > 0

(* An exit is for good and ends the worker.                                 *)
WorkerExits ==
    /\ clientState = "EXIT" => pc \in {"main", "ended"}
    /\ pc = "ended" => clientState = "EXIT"

(* As long as nobody stops the client and no reception sets its state, that *)
(* is so; and while the client lives, its room is of the connection it has  *)
(* now, or the loss of that one is still to be seen to.                     *)
RoomInv ==
    stopper = "no" /\ receives = 0 =>
        /\ WorkerExits
        /\ clientState # "EXIT" /\ inRoom =>
              sock \in {"closed", "clearing"} \/ (sock = "up" /\ member)

(* The worker has a part in the connection only where it sends.             *)
LEMMA WorkerConnection ==
    ASSUME \/ Ends \/ Begins \/ TakesQueue \/ SendsPing
           \/ Joins \/ JoinWaitOver \/ Connects \/ MakesChannel \/ InsertsChannel
           \/ OffersNext \/ PeerWaitOver \/ ReadsFile \/ RegistersOffer \/ Offered
           \/ WaitsUntilRunning \/ SendFails
           \/ IdleTimeout \/ PongTimeout \/ JoinTimeout \/ PeerTimeout \/ DescriptionTimeout
           \/ UNCHANGED vars
    PROVE  UNCHANGED <<rosterVars, portVars, appVars, serverVars>>
BY DEF Ends, Begins, TakesQueue, SendsPing, Joins, JoinWaitOver, Connects, MakesChannel,
       InsertsChannel, OffersNext, PeerWaitOver, ReadsFile, RegistersOffer, Offered,
       WaitsUntilRunning, SendFails, IdleTimeout, PongTimeout, JoinTimeout, PeerTimeout,
       DescriptionTimeout, vars

(* Every step keeps ConnectionInv.                                          *)
LEMMA ConnectionStep == TypeInv /\ ConnectionInv /\ [Next]_vars => ConnectionInv'
<1> SUFFICES ASSUME TypeInv, ConnectionInv
             PROVE  [Next]_vars => ConnectionInv'
  OBVIOUS
<1> USE DEF ConnectionInv, TypeInv, TypeOK, portVars, serverVars, appVars, Handles
<1>1. ASSUME UNCHANGED <<portVars, appVars, serverVars>>
      PROVE  ConnectionInv'
  BY <1>1
<1>2. ASSUME SendSucceeds
      PROVE  ConnectionInv'
  <2>1. UNCHANGED <<portVars, appVars>> /\ isRunning
    BY <1>2 DEF SendSucceeds
  <2>2. /\ member' => member \/ sock \in {"opened", "up"}
        /\ "joined" \in replies' => "joined" \in replies \/ member'
        /\ member => member'
    BY <1>2 DEF SendSucceeds
  <2>3. QED
    BY <2>1, <2>2
<1>3. ASSUME PortConnects \/ PortWakes \/ PortStopped
      PROVE  ConnectionInv'
  BY <1>3 DEF PortConnects, PortWakes, PortStopped
<1>4. ASSUME SocketOpens \/ OnMessageOpen
      PROVE  ConnectionInv'
  BY <1>4 DEF SocketOpens, OnMessageOpen
<1>5. ASSUME OnMessageClose \/ ClearsTables
      PROVE  ConnectionInv'
  BY <1>5 DEF OnMessageClose, ClearsTables
<1>6. ASSUME SocketEnds
      PROVE  ConnectionInv'
  BY <1>6 DEF SocketEnds
<1>7. ASSUME OnJoin \/ OnPingPong \/ OnPeerJoin \/ OnPeerLeave
      PROVE  ConnectionInv'
  BY <1>7 DEF OnJoin, OnPingPong, OnPeerJoin, OnPeerLeave
<1>8. ASSUME NEW f \in Files, NEW accept \in BOOLEAN, OnFileAnswer(f, accept)
      PROVE  ConnectionInv'
  BY <1>8 DEF OnFileAnswer
<1>9. ASSUME NEW f \in Files, QueueFile(f)
      PROVE  ConnectionInv'
  BY <1>9 DEF QueueFile
<1>10. ASSUME StopCalled \/ StopSetsExit \/ StopsPort \/ StopReturned
       PROVE  ConnectionInv'
  BY <1>10 DEF StopCalled, StopSetsExit, StopsPort, StopReturned
<1>11. ASSUME ReceiveStarts \/ LastChunk \/ TransferComplete
       PROVE  ConnectionInv'
  BY <1>11 DEF ReceiveStarts, LastChunk, TransferComplete
<1>12. QED
  BY <1>1, <1>2, <1>3, <1>4, <1>5, <1>6, <1>7, <1>8, <1>9, <1>10, <1>11, WorkerConnection,
     StepCases

(* The worker never leaves an exit: it gives its files up and goes back to  *)
(* its loop, which ends.                                                    *)
LEMMA WorkerExit ==
    ASSUME TypeInv, WorkerExits
    PROVE  \/ Ends \/ Begins \/ TakesQueue \/ SendsPing
           \/ Joins \/ JoinWaitOver \/ Connects \/ MakesChannel \/ InsertsChannel
           \/ OffersNext \/ PeerWaitOver \/ ReadsFile \/ RegistersOffer \/ Offered
           \/ WaitsUntilRunning \/ SendSucceeds \/ SendFails
           \/ IdleTimeout \/ PongTimeout \/ JoinTimeout \/ PeerTimeout \/ DescriptionTimeout
           => WorkerExits' /\ (clientState = "EXIT" => clientState' = "EXIT")
<1> USE DEF WorkerExits, Goto, Send, Abandon, Stopped, TypeInv, TypeOK, stateVars
<1>1. ASSUME Ends \/ Begins \/ TakesQueue \/ SendsPing
      PROVE  WorkerExits' /\ (clientState = "EXIT" => clientState' = "EXIT")
  BY <1>1 DEF Ends, Begins, TakesQueue, SendsPing
<1>2. ASSUME IdleTimeout \/ PongTimeout
      PROVE  WorkerExits' /\ (clientState = "EXIT" => clientState' = "EXIT")
  BY <1>2 DEF IdleTimeout, PongTimeout, workerVars, threadVars
<1>3. ASSUME Joins \/ JoinWaitOver \/ JoinTimeout
      PROVE  WorkerExits' /\ (clientState = "EXIT" => clientState' = "EXIT")
  BY <1>3 DEF Joins, JoinWaitOver, JoinTimeout
<1>4. ASSUME Connects \/ PeerWaitOver \/ PeerTimeout
      PROVE  WorkerExits' /\ (clientState = "EXIT" => clientState' = "EXIT")
  BY <1>4 DEF Connects, PeerWaitOver, PeerTimeout
<1>5. ASSUME MakesChannel \/ InsertsChannel \/ DescriptionTimeout
      PROVE  WorkerExits' /\ (clientState = "EXIT" => clientState' = "EXIT")
  BY <1>5 DEF MakesChannel, InsertsChannel, DescriptionTimeout, Channelled
<1>6. ASSUME OffersNext \/ ReadsFile \/ RegistersOffer \/ Offered \/ WaitsUntilRunning
      PROVE  WorkerExits' /\ (clientState = "EXIT" => clientState' = "EXIT")
  BY <1>6 DEF OffersNext, AfterOffers, ReadsFile, RegistersOffer, Offered, WaitsUntilRunning
<1>7. ASSUME SendSucceeds
      PROVE  WorkerExits' /\ (clientState = "EXIT" => clientState' = "EXIT")
  BY <1>7 DEF SendSucceeds, Channelled
<1>8. ASSUME SendFails
      PROVE  WorkerExits' /\ (clientState = "EXIT" => clientState' = "EXIT")
  BY <1>8 DEF SendFails
<1>9. QED
  BY <1>1, <1>2, <1>3, <1>4, <1>5, <1>6, <1>7, <1>8

(* Every step keeps RoomInv.                                                *)
LEMMA RoomStep == TypeInv /\ ConnectionInv /\ RoomInv /\ [Next]_vars => RoomInv'
<1> SUFFICES ASSUME TypeInv, ConnectionInv, RoomInv
             PROVE  [Next]_vars => RoomInv'
  OBVIOUS
<1> USE DEF RoomInv, Handles, stateVars, threadVars, workerVars, rosterVars, portVars, appVars,
        serverVars
<1>1. ASSUME WorkerExits => WorkerExits' /\ (clientState = "EXIT" => clientState' = "EXIT"),
             UNCHANGED <<rosterVars, portVars, appVars>>, member => member'
      PROVE  RoomInv'
  BY <1>1
<1>2. ASSUME SendSucceeds
      PROVE  UNCHANGED <<rosterVars, portVars, appVars>> /\ (member => member')
  BY <1>2 DEF SendSucceeds
<1>3. ASSUME UNCHANGED vars
      PROVE  RoomInv'
  BY <1>3 DEF vars, WorkerExits
<1>4. ASSUME PortConnects \/ PortWakes \/ PortStopped
      PROVE  RoomInv'
  BY <1>4 DEF PortConnects, PortWakes, PortStopped, ConnectionInv, WorkerExits
<1>5. ASSUME SocketOpens \/ OnMessageOpen
      PROVE  RoomInv'
  BY <1>5 DEF SocketOpens, OnMessageOpen, WorkerExits
<1>6. ASSUME OnMessageClose
      PROVE  RoomInv'
  BY <1>6 DEF OnMessageClose, WorkerExits
<1>7. ASSUME ClearsTables
      PROVE  RoomInv'
  BY <1>7 DEF ClearsTables, AfterLoss, WorkerExits
<1>8. ASSUME SocketEnds
      PROVE  RoomInv'
  BY <1>8 DEF SocketEnds, WorkerExits
<1>9. ASSUME OnJoin
      PROVE  RoomInv'
  BY <1>9 DEF OnJoin, AfterJoinReply, ConnectionInv, WorkerExits
<1>10. ASSUME OnPeerJoin \/ OnPeerLeave \/ OnPingPong
       PROVE  RoomInv'
  BY <1>10 DEF OnPeerJoin, OnPeerLeave, OnPingPong, WorkerExits
<1>11. ASSUME NEW f \in Files, NEW accept \in BOOLEAN, OnFileAnswer(f, accept)
       PROVE  RoomInv'
  BY <1>11 DEF OnFileAnswer, AfterAnswer, WorkerExits
<1>12. ASSUME NEW f \in Files, QueueFile(f)
       PROVE  RoomInv'
  BY <1>12 DEF QueueFile, WorkerExits
<1>13. ASSUME StopCalled
       PROVE  RoomInv'
  BY <1>13 DEF StopCalled
<1>14. ASSUME StopSetsExit \/ StopsPort \/ StopReturned
       PROVE  RoomInv'
  BY <1>14 DEF StopSetsExit, StopsPort, StopReturned
<1>15. ASSUME ReceiveStarts \/ LastChunk \/ TransferComplete
       PROVE  RoomInv'
  <2>1. receives' > 0
    BY <1>15 DEF ReceiveStarts, LastChunk, TransferComplete, ConnectionInv, TypeInv, TypeOK
  <2>2. QED
    BY <2>1
<1>16. QED
  BY <1>1, <1>2, <1>3, <1>4, <1>5, <1>6, <1>7, <1>8, <1>9, <1>10, <1>11, <1>12, <1>13, <1>14,
     <1>15, WorkerExit, WorkerConnection, StepCases

(* A live session's roster is of the connection it has now, however often   *)
(* connections are lost and whatever the worker was doing then.             *)
THEOREM RosterIsCurrent == Spec => []RosterOfThisConnection
<1>1. Init => ConnectionInv /\ RoomInv
  BY DEF Init, ConnectionInv, RoomInv, WorkerExits
<1>2. RoomInv => RosterOfThisConnection
  BY DEF RoomInv, RosterOfThisConnection, Serving
<1>3. QED
  BY <1>1, <1>2, ConnectionStep, RoomStep, TypeInvariant, PTL DEF Spec

----------------------------------------------------------------------------
(* RequestsInOrder                                                          *)

(* f was asked for before g, if both of them were.                          *)
Before(a, f, g) == \A i, j \in DOMAIN a : a[i] = f /\ a[j] = g => i < j

(* The files of s are in the order they were asked for, each at most once.  *)
InOrder(a, s) == \A k, l \in DOMAIN s : k < l => Before(a, s[k], s[l])

(* Every file of F comes before every one of G.                             *)
AllBefore(a, F, G) == \A f \in F, g \in G : Before(a, f, g)

(* What is in a sequence that has grown by an element.                      *)
LEMMA RangeAppend ==
    ASSUME NEW S, NEW s \in Seq(S), NEW f \in S
    PROVE  Range(Append(s, f)) = Range(s) \cup {f}
<1>1. DOMAIN s = 1 .. Len(s) /\ DOMAIN Append(s, f) = 1 .. Len(s) + 1 /\ Len(s) \in Nat
  OBVIOUS
<1>2. \A i \in 1 .. Len(s) : Append(s, f)[i] = s[i]
  OBVIOUS
<1>3. Append(s, f)[Len(s) + 1] = f
  OBVIOUS
<1>4. Range(Append(s, f)) \subseteq Range(s) \cup {f}
  BY <1>1, <1>2, <1>3 DEF Range
<1>5. Range(s) \cup {f} \subseteq Range(Append(s, f))
  <2>1. Range(s) \subseteq Range(Append(s, f))
    BY <1>1, <1>2 DEF Range
  <2>2. f \in Range(Append(s, f))
    BY <1>1, <1>3 DEF Range
  <2>3. QED
    BY <2>1, <2>2
<1>6. QED
  BY <1>4, <1>5

(* What is in a sequence, taken apart into its head and its tail.           *)
LEMMA RangeTail ==
    ASSUME NEW S, NEW s \in Seq(S), s # <<>>
    PROVE  Head(s) \in Range(s) /\ Range(Tail(s)) \subseteq Range(s)
<1>1. Len(s) \in Nat \ {0} /\ DOMAIN s = 1 .. Len(s) /\ Head(s) = s[1]
  OBVIOUS
<1>2. DOMAIN Tail(s) = 1 .. Len(s) - 1 /\ \A i \in 1 .. Len(s) - 1 : Tail(s)[i] = s[i + 1]
  BY <1>1
<1>3. QED
  BY <1>1, <1>2 DEF Range

(* A sequence in order stays so without its head, which comes first.        *)
LEMMA TailInOrder ==
    ASSUME NEW S, NEW a, NEW s \in Seq(S), s # <<>>, InOrder(a, s)
    PROVE  InOrder(a, Tail(s)) /\ AllBefore(a, {Head(s)}, Range(Tail(s)))
<1>1. Len(s) \in Nat \ {0} /\ DOMAIN s = 1 .. Len(s) /\ Head(s) = s[1]
  OBVIOUS
<1>2. DOMAIN Tail(s) = 1 .. Len(s) - 1 /\ \A i \in 1 .. Len(s) - 1 : Tail(s)[i] = s[i + 1]
  BY <1>1
<1>3. InOrder(a, Tail(s))
  <2>1. ASSUME NEW k \in 1 .. Len(s) - 1, NEW l \in 1 .. Len(s) - 1, k < l
        PROVE  Before(a, Tail(s)[k], Tail(s)[l])
    <3>1. k + 1 \in DOMAIN s /\ l + 1 \in DOMAIN s /\ k + 1 < l + 1
      BY <1>1, <2>1
    <3>2. Before(a, s[k + 1], s[l + 1])
      BY <3>1 DEF InOrder
    <3>3. QED
      BY <1>2, <3>2
  <2>2. QED
    BY <1>2, <2>1 DEF InOrder
<1>4. ASSUME NEW i \in 1 .. Len(s) - 1
      PROVE  Before(a, Head(s), Tail(s)[i])
  <2>1. 1 \in DOMAIN s /\ i + 1 \in DOMAIN s /\ 1 < i + 1
    BY <1>1
  <2>2. QED
    BY <1>1, <1>2, <2>1 DEF InOrder
<1>5. QED
  BY <1>2, <1>3, <1>4 DEF AllBefore, Range

(* One that grows by a file that comes after all of its files stays so.     *)
LEMMA AppendInOrder ==
    ASSUME NEW S, NEW a, NEW s \in Seq(S), NEW f \in S, InOrder(a, s), AllBefore(a, Range(s), {f})
    PROVE  InOrder(a, Append(s, f))
<1>1. DOMAIN s = 1 .. Len(s) /\ DOMAIN Append(s, f) = 1 .. Len(s) + 1 /\ Len(s) \in Nat
  OBVIOUS
<1>2. /\ \A i \in 1 .. Len(s) : Append(s, f)[i] = s[i]
      /\ Append(s, f)[Len(s) + 1] = f
  OBVIOUS
<1>3. ASSUME NEW k \in DOMAIN Append(s, f), NEW l \in DOMAIN Append(s, f), k < l
      PROVE  Before(a, Append(s, f)[k], Append(s, f)[l])
  <2>1. k \in DOMAIN s
    BY <1>1, <1>3
  <2>2. CASE l \in DOMAIN s
    BY <1>1, <1>2, <1>3, <2>1, <2>2 DEF InOrder
  <2>3. CASE l = Len(s) + 1
    BY <1>1, <1>2, <2>1, <2>3 DEF AllBefore, Range
  <2>4. QED
    BY <1>1, <2>2, <2>3
<1>4. QED
  BY <1>3 DEF InOrder

(* Asking for one more file f changes nothing about the others, and f comes *)
(* after all of them.                                                       *)
LEMMA BeforeAppend ==
    ASSUME NEW S, NEW a \in Seq(S), NEW f \in S, f \notin Range(a)
    PROVE  /\ \A g, h : g # f /\ h # f /\ Before(a, g, h) => Before(Append(a, f), g, h)
           /\ \A g : g # f => Before(Append(a, f), g, f)
<1>1. DOMAIN a = 1 .. Len(a) /\ DOMAIN Append(a, f) = 1 .. Len(a) + 1 /\ Len(a) \in Nat
  OBVIOUS
<1>2. /\ \A i \in 1 .. Len(a) : Append(a, f)[i] = a[i] /\ a[i] # f
      /\ Append(a, f)[Len(a) + 1] = f
  BY <1>1 DEF Range
<1>3. ASSUME NEW g, NEW h, g # f, h # f, Before(a, g, h)
      PROVE  Before(Append(a, f), g, h)
  BY <1>1, <1>2, <1>3 DEF Before
<1>4. ASSUME NEW g, g # f
      PROVE  Before(Append(a, f), g, f)
  BY <1>1, <1>2, <1>4 DEF Before
<1>5. QED
  BY <1>3, <1>4

(* So what is in order stays so, if f is not in it.                         *)
LEMMA InOrderAppend ==
    ASSUME NEW S, NEW a \in Seq(S), NEW f \in S, f \notin Range(a)
    PROVE  /\ \A s : f \notin Range(s) /\ InOrder(a, s) => InOrder(Append(a, f), s)
           /\ \A F, G : f \notin F \cup G /\ AllBefore(a, F, G) => AllBefore(Append(a, f), F, G)
           /\ \A F : f \notin F => AllBefore(Append(a, f), F, {f})
<1>1. ASSUME NEW s, f \notin Range(s), InOrder(a, s)
      PROVE  InOrder(Append(a, f), s)
  <2>1. \A k \in DOMAIN s : s[k] # f
    BY <1>1 DEF Range
  <2>2. QED
    BY <1>1, <2>1, BeforeAppend DEF InOrder
<1>2. ASSUME NEW F, NEW G, f \notin F \cup G, AllBefore(a, F, G)
      PROVE  AllBefore(Append(a, f), F, G)
  BY <1>2, BeforeAppend DEF AllBefore
<1>3. ASSUME NEW F, f \notin F
      PROVE  AllBefore(Append(a, f), F, {f})
  BY <1>3, BeforeAppend DEF AllBefore
<1>4. QED
  BY <1>1, <1>2, <1>3

(* What OfferFiles has yet to offer: not the file it is just done with.     *)
ToOffer == IF pc = "offered" THEN Tail(batch) ELSE batch

(* Every file is queued once, and passes from the queue through the batch   *)
(* to the server without overtaking another.  The files of --file, which    *)
(* every session offers again, are none of them.                            *)
QueuedOnce ==
    /\ \A i, j \in DOMAIN asked : asked[i] = asked[j] => i = j
    /\ Range(asked) \cap Range(StartFiles) = {}
    /\ Range(queue) \subseteq Range(asked)
    /\ Range(batch) \cup Range(offers) \subseteq Range(asked) \cup Range(StartFiles)

PassedOn ==
    /\ InOrder(asked, offers) /\ InOrder(asked, batch) /\ InOrder(asked, queue)
    /\ AllBefore(asked, Range(offers), Range(ToOffer))
    /\ AllBefore(asked, Range(offers), Range(queue))
    /\ AllBefore(asked, Range(batch), Range(queue))

OrderInv == QueuedOnce /\ PassedOn

(* Nothing is before or in the way of nothing.                              *)
LEMMA EmptyRange ==
    /\ Range(<<>>) = {}
    /\ \A a : InOrder(a, <<>>)
    /\ \A a, F : AllBefore(a, {}, F) /\ AllBefore(a, F, {})
BY DEF Range, InOrder, AllBefore

(* A smaller set is before and behind the same files.                       *)
LEMMA AllBeforeSubset ==
    \A a, F, G, F1, G1 :
        AllBefore(a, F, G) /\ F1 \subseteq F /\ G1 \subseteq G => AllBefore(a, F1, G1)
BY DEF AllBefore

(* A step that gives the files in hand up forgets them and no others.       *)
LEMMA AbandonOrder ==
    ASSUME TypeInv, OrderInv, Abandon, UNCHANGED offers
    PROVE  OrderInv'
<1>1. batch' = <<>> /\ UNCHANGED <<queue, asked, offers>> /\ pc' = "main"
  BY DEF Abandon, Goto
<1>2. ToOffer' = <<>>
  BY <1>1 DEF ToOffer
<1>3. QueuedOnce'
  BY <1>1, EmptyRange DEF OrderInv, QueuedOnce
<1>4. PassedOn'
  BY <1>1, <1>2, EmptyRange DEF OrderInv, PassedOn
<1>5. QED
  BY <1>3, <1>4 DEF OrderInv

(* One that leaves the files alone takes none back that has been offered.   *)
LEMMA KeptOrder ==
    ASSUME TypeInv, OrderInv, UNCHANGED <<queue, batch, asked, offers>>,
           pc = "offered" => pc' = "offered",
           pc' = "offered" => batch # <<>>
    PROVE  OrderInv'
<1>1. batch \in Seq(Files)
  BY DEF TypeInv, TypeOK
<1>2. Range(ToOffer') \subseteq Range(ToOffer)
  BY <1>1, RangeTail DEF ToOffer
<1>3. AllBefore(asked, Range(offers), Range(ToOffer'))
  BY <1>2, AllBeforeSubset DEF OrderInv, PassedOn
<1>4. QueuedOnce'
  BY DEF OrderInv, QueuedOnce
<1>5. PassedOn'
  BY <1>3 DEF OrderInv, PassedOn
<1>6. QED
  BY <1>4, <1>5 DEF OrderInv

(* The files of --file get between no two requests.                         *)
LEMMA BeginsOrder ==
    ASSUME TypeInv, OrderInv, Begins
    PROVE  OrderInv'
<1>1. batch' = StartFiles /\ UNCHANGED <<queue, asked, offers>> /\ pc' = "join"
  BY DEF Begins, serverVars
<1>2. ToOffer' = StartFiles
  BY <1>1 DEF ToOffer
<1>3. QueuedOnce'
  BY <1>1 DEF OrderInv, QueuedOnce
<1>4. \A f \in Range(StartFiles) : \A g : Before(asked, f, g) /\ Before(asked, g, f)
  BY DEF OrderInv, QueuedOnce, Before, Range
<1>5. \A F : AllBefore(asked, F, Range(StartFiles)) /\ AllBefore(asked, Range(StartFiles), F)
  BY <1>4 DEF AllBefore
<1>6. InOrder(asked, StartFiles)
  BY <1>4 DEF InOrder, Range
<1>7. PassedOn'
  BY <1>1, <1>2, <1>5, <1>6 DEF OrderInv, PassedOn
<1>8. QED
  BY <1>3, <1>7 DEF OrderInv

(* The batch is the queue as it was.                                        *)
LEMMA TakesQueueOrder ==
    ASSUME TypeInv, OrderInv, TakesQueue
    PROVE  OrderInv'
<1>1. batch' = queue /\ queue' = <<>> /\ UNCHANGED <<asked, offers>> /\ pc' = "offerNext"
  BY DEF TakesQueue, Taken, Goto, serverVars
<1>2. ToOffer' = queue
  BY <1>1 DEF ToOffer
<1>3. QueuedOnce'
  BY <1>1, EmptyRange DEF OrderInv, QueuedOnce
<1>4. PassedOn'
  BY <1>1, <1>2, EmptyRange DEF OrderInv, PassedOn
<1>5. QED
  BY <1>3, <1>4 DEF OrderInv

(* The file that has been offered leaves the batch.                         *)
LEMMA OfferedOrder ==
    ASSUME TypeInv, OrderInv, Offered
    PROVE  OrderInv'
<1>1. CASE Stopped
  BY <1>1, AbandonOrder DEF Offered, serverVars
<1>2. CASE ~Stopped
  <2>1. /\ batch' = Tail(batch) /\ UNCHANGED <<queue, asked, offers>>
        /\ pc = "offered" /\ pc' = "offerNext"
    BY <1>2 DEF Offered, Goto, serverVars
  <2>2. batch \in Seq(Files) /\ batch # <<>>
    BY <2>1 DEF TypeInv, TypeOK, BatchInHand, Offering
  <2>3. ToOffer' = ToOffer
    BY <2>1 DEF ToOffer
  <2>4. Range(Tail(batch)) \subseteq Range(batch) /\ InOrder(asked, Tail(batch))
    BY <2>2, RangeTail, TailInOrder DEF OrderInv, PassedOn
  <2>5. AllBefore(asked, Range(Tail(batch)), Range(queue))
    BY <2>4, AllBeforeSubset DEF OrderInv, PassedOn
  <2>6. QueuedOnce'
    BY <2>1, <2>4 DEF OrderInv, QueuedOnce
  <2>7. PassedOn'
    BY <2>1, <2>3, <2>4, <2>5 DEF OrderInv, PassedOn
  <2>8. QED
    BY <2>6, <2>7 DEF OrderInv
<1>3. QED
  BY <1>1, <1>2

(* The server is offered the head of the batch, after all the files it has  *)
(* been offered and before the rest.                                        *)
LEMMA FileOfferOrder ==
    ASSUME TypeInv, OrderInv, SendSucceeds, msg = "file_offer", member
    PROVE  OrderInv'
<1>1. /\ offers' = Append(offers, Head(batch)) /\ UNCHANGED <<queue, batch, asked>>
      /\ pc = "send" /\ pc' = "offered"
  BY DEF SendSucceeds, Goto, fileVars
<1>2. /\ batch \in Seq(Files) /\ batch # <<>> /\ offers \in Seq(Files)
      /\ Head(batch) \in Files
  BY <1>1 DEF TypeInv, TypeOK, BatchInHand, Offering
<1>3. ToOffer = batch /\ ToOffer' = Tail(batch)
  BY <1>1 DEF ToOffer
<1>4. Range(offers') = Range(offers) \cup {Head(batch)}
  BY <1>1, <1>2, RangeAppend
<1>5. Head(batch) \in Range(batch) /\ Range(Tail(batch)) \subseteq Range(batch)
  BY <1>2, RangeTail
<1>6. QueuedOnce'
  BY <1>1, <1>4, <1>5 DEF OrderInv, QueuedOnce
<1>7. AllBefore(asked, Range(offers), {Head(batch)})
  <2>1. AllBefore(asked, Range(offers), Range(batch))
    BY <1>3 DEF OrderInv, PassedOn
  <2>2. QED
    BY <1>5, <2>1 DEF AllBefore
<1>8. InOrder(asked, offers')
  BY <1>1, <1>2, <1>7, AppendInOrder DEF OrderInv, PassedOn
<1>9. AllBefore(asked, Range(offers'), Range(Tail(batch)))
  <2>1. AllBefore(asked, {Head(batch)}, Range(Tail(batch)))
    BY <1>2, TailInOrder DEF OrderInv, PassedOn
  <2>2. AllBefore(asked, Range(offers), Range(Tail(batch)))
    BY <1>3, <1>5, AllBeforeSubset DEF OrderInv, PassedOn
  <2>3. QED
    BY <1>4, <2>1, <2>2 DEF AllBefore
<1>10. AllBefore(asked, Range(offers'), Range(queue))
  <2>1. AllBefore(asked, {Head(batch)}, Range(queue))
    BY <1>5 DEF OrderInv, PassedOn, AllBefore
  <2>2. AllBefore(asked, Range(offers), Range(queue))
    BY DEF OrderInv, PassedOn
  <2>3. QED
    BY <1>4, <2>1, <2>2 DEF AllBefore
<1>11. PassedOn'
  BY <1>1, <1>3, <1>8, <1>9, <1>10 DEF OrderInv, PassedOn
<1>12. QED
  BY <1>6, <1>11 DEF OrderInv

(* A file that is queued comes after all the others.                        *)
LEMMA QueueOrder ==
    ASSUME TypeInv, OrderInv, NEW f \in Files, QueueFile(f)
    PROVE  OrderInv'
<1>1. /\ queue' = Append(queue, f) /\ asked' = Append(asked, f)
      /\ UNCHANGED <<pc, batch, offers>>
      /\ f \notin Range(asked) /\ f \notin Range(StartFiles)
  BY DEF QueueFile, threadVars, serverVars
<1>2. /\ asked \in Seq(Files) /\ queue \in Seq(Files) /\ batch \in Seq(Files)
      /\ pc = "offered" => batch # <<>>
  BY DEF TypeInv, TypeOK, BatchInHand, Offering
<1>3. ToOffer' = ToOffer /\ Range(ToOffer) \subseteq Range(batch)
  BY <1>1, <1>2, RangeTail DEF ToOffer
<1>4. Range(queue') = Range(queue) \cup {f} /\ Range(asked') = Range(asked) \cup {f}
  BY <1>1, <1>2, RangeAppend
<1>5. f \notin Range(queue) \cup Range(batch) \cup Range(offers) \cup Range(ToOffer)
  BY <1>1, <1>3 DEF OrderInv, QueuedOnce
<1>6. QueuedOnce'
  <2>1. \A i, j \in DOMAIN asked' : asked'[i] = asked'[j] => i = j
    <3>1. /\ DOMAIN asked = 1 .. Len(asked) /\ DOMAIN asked' = 1 .. Len(asked) + 1
          /\ Len(asked) \in Nat
      BY <1>1, <1>2
    <3>2. /\ \A i \in 1 .. Len(asked) : asked'[i] = asked[i] /\ asked[i] # f
          /\ asked'[Len(asked) + 1] = f
      BY <1>1, <1>2, <3>1 DEF Range
    <3>3. QED
      BY <3>1, <3>2 DEF OrderInv, QueuedOnce
  <2>2. QED
    BY <1>1, <1>4, <2>1 DEF OrderInv, QueuedOnce
<1>7. InOrder(asked', offers) /\ InOrder(asked', batch) /\ InOrder(asked', queue)
  BY <1>1, <1>2, <1>5, InOrderAppend DEF OrderInv, PassedOn
<1>8. /\ AllBefore(asked', Range(offers), Range(ToOffer))
      /\ AllBefore(asked', Range(offers), Range(queue))
      /\ AllBefore(asked', Range(batch), Range(queue))
  BY <1>1, <1>2, <1>5, InOrderAppend DEF OrderInv, PassedOn
<1>9. /\ AllBefore(asked', Range(offers), {f}) /\ AllBefore(asked', Range(batch), {f})
      /\ AllBefore(asked', Range(queue), {f})
  BY <1>1, <1>2, <1>5, InOrderAppend
<1>10. InOrder(asked', queue')
  BY <1>1, <1>2, <1>7, <1>9, AppendInOrder
<1>11. AllBefore(asked', Range(offers), Range(queue')) /\ AllBefore(asked', Range(batch), Range(queue'))
  BY <1>4, <1>8, <1>9 DEF AllBefore
<1>12. PassedOn'
  BY <1>1, <1>3, <1>7, <1>8, <1>10, <1>11 DEF PassedOn
<1>13. QED
  BY <1>6, <1>12 DEF OrderInv

(* The other steps of the worker take no file up and offer none.            *)
LEMMA WorkerOrder ==
    ASSUME TypeInv, OrderInv
    PROVE  \/ Ends \/ SendsPing \/ Joins \/ JoinWaitOver \/ Connects
           \/ MakesChannel \/ InsertsChannel \/ OffersNext \/ PeerWaitOver
           \/ ReadsFile \/ RegistersOffer \/ WaitsUntilRunning
           \/ IdleTimeout \/ PongTimeout \/ JoinTimeout \/ PeerTimeout \/ DescriptionTimeout
           \/ SendSucceeds /\ ~(msg = "file_offer" /\ member)
           \/ SendFails
           => OrderInv'
<1> USE AbandonOrder, KeptOrder DEF serverVars, fileVars, Goto, Send
<1>1. batch # <<>> \/ pc \notin {"fileOffer", "offered"}
  BY DEF TypeInv, BatchInHand, Offering
<1>2. ASSUME Ends \/ SendsPing \/ WaitsUntilRunning
      PROVE  OrderInv'
  BY <1>2 DEF Ends, SendsPing, WaitsUntilRunning
<1>3. ASSUME Joins
      PROVE  OrderInv'
  BY <1>3 DEF Joins, TypeInv, TypeOK
<1>4. ASSUME JoinWaitOver
      PROVE  OrderInv'
  BY <1>4 DEF JoinWaitOver, TypeInv, TypeOK
<1>5. ASSUME Connects \/ PeerWaitOver
      PROVE  OrderInv'
  BY <1>5 DEF Connects, PeerWaitOver
<1>6. ASSUME MakesChannel \/ InsertsChannel
      PROVE  OrderInv'
  BY <1>6 DEF MakesChannel, InsertsChannel, Channelled
<1>7. ASSUME OffersNext \/ RegistersOffer
      PROVE  OrderInv'
  BY <1>7 DEF OffersNext, RegistersOffer
<1>8. ASSUME ReadsFile
      PROVE  OrderInv'
  BY <1>1, <1>8 DEF ReadsFile
<1>9. ASSUME IdleTimeout \/ PongTimeout
      PROVE  OrderInv'
  BY <1>1, <1>9 DEF IdleTimeout, PongTimeout, workerVars, threadVars
<1>10. ASSUME JoinTimeout \/ PeerTimeout \/ DescriptionTimeout
       PROVE  OrderInv'
  BY <1>10 DEF JoinTimeout, PeerTimeout, DescriptionTimeout
<1>11. ASSUME SendSucceeds, ~(msg = "file_offer" /\ member)
       PROVE  OrderInv'
  <2>1. UNCHANGED <<queue, batch, asked, offers>>
    BY <1>11 DEF SendSucceeds
  <2>2. pc = "send" /\ (pc' = "offered" => msg = "file_offer")
    BY <1>11 DEF SendSucceeds, Channelled
  <2>3. pc' = "offered" => batch # <<>>
    BY <2>2 DEF TypeInv, BatchInHand, Offering
  <2>4. QED
    BY <2>1, <2>2, <2>3
<1>12. ASSUME SendFails
       PROVE  OrderInv'
  <2>1. CASE Abandon
    BY <1>12, <2>1 DEF SendFails
  <2>2. CASE ~Abandon
    <3>1. UNCHANGED <<queue, batch, asked, offers>>
      BY <1>12, <2>2 DEF SendFails
    <3>2. pc = "send" /\ (pc' = "offered" => msg = "file_offer")
      BY <1>12, <2>2 DEF SendFails
    <3>3. pc' = "offered" => batch # <<>>
      BY <3>2 DEF TypeInv, BatchInHand, Offering
    <3>4. QED
      BY <3>1, <3>2, <3>3
  <2>3. QED
    BY <2>1, <2>2
<1>13. QED
  BY <1>2, <1>3, <1>4, <1>5, <1>6, <1>7, <1>8, <1>9, <1>10, <1>11, <1>12

(* Every step keeps the order.                                              *)
LEMMA OrderStep == TypeInv /\ OrderInv /\ [Next]_vars => OrderInv'
<1> SUFFICES ASSUME TypeInv, OrderInv
             PROVE  [Next]_vars => OrderInv'
  OBVIOUS
<1>1. ASSUME UNCHANGED <<threadVars, fileVars, offers>>
      PROVE  OrderInv'
  <2>1. pc = "offered" => batch # <<>>
    BY DEF TypeInv, BatchInHand, Offering
  <2>2. QED
    BY <1>1, <2>1, KeptOrder DEF threadVars, fileVars
<1>2. ASSUME \/ PortConnects \/ PortWakes \/ PortStopped
             \/ SocketOpens \/ OnMessageOpen \/ OnMessageClose \/ ClearsTables \/ SocketEnds
             \/ OnJoin \/ OnPeerJoin \/ OnPeerLeave \/ OnPingPong
             \/ \E f \in Files, accept \in BOOLEAN : OnFileAnswer(f, accept)
             \/ StopCalled \/ StopSetsExit \/ StopsPort \/ StopReturned
             \/ ReceiveStarts \/ LastChunk \/ TransferComplete
             \/ UNCHANGED vars
      PROVE  UNCHANGED offers
  BY <1>2
     DEF PortConnects, PortWakes, PortStopped, SocketOpens, OnMessageOpen, OnMessageClose,
         ClearsTables, SocketEnds, OnJoin, OnPeerJoin, OnPeerLeave, OnPingPong, OnFileAnswer,
         StopCalled, StopSetsExit, StopsPort, StopReturned, ReceiveStarts, LastChunk,
         TransferComplete, serverVars, vars
<1>3. QED
  BY <1>1, <1>2, OthersLeaveWorker, WorkerOrder, BeginsOrder, TakesQueueOrder, OfferedOrder,
     FileOfferOrder, QueueOrder, StepCases

(* Files asked for once each, and offered in the order they were asked for, *)
(* are what RequestsInOrder says.                                           *)
LEMMA OrderSuffices == TypeInv /\ OrderInv => RequestsInOrder
<1> SUFFICES ASSUME TypeInv, OrderInv,
                    NEW i \in DOMAIN asked, NEW j \in DOMAIN asked, i < j,
                    NEW k \in DOMAIN offers, NEW l \in DOMAIN offers,
                    offers[k] = asked[j], offers[l] = asked[i]
             PROVE  l < k
  BY DEF RequestsInOrder
<1>1. i \in Nat /\ j \in Nat /\ k \in Nat /\ l \in Nat
  BY DEF TypeInv, TypeOK
<1>2. k # l
  BY <1>1 DEF OrderInv, QueuedOnce
<1>3. ~(k < l)
  <2>1. ~Before(asked, offers[k], offers[l])
    BY <1>1 DEF Before
  <2>2. QED
    BY <2>1 DEF OrderInv, PassedOn, InOrder
<1>4. QED
  BY <1>1, <1>2, <1>3

(* Requests are handled in the order QueueFile took them, through whatever  *)
(* losses, time-outs and reconnects.                                        *)
THEOREM HandledInOrder == Spec => []RequestsInOrder
<1>1. Init => OrderInv
  <2> SUFFICES ASSUME Init PROVE OrderInv
    OBVIOUS
  <2>1. queue = <<>> /\ batch = <<>> /\ asked = <<>> /\ offers = <<>> /\ ToOffer = <<>>
    BY DEF Init, ToOffer
  <2>2. \A i, j \in DOMAIN asked : asked[i] = asked[j] => i = j
    BY <2>1
  <2>3. QueuedOnce
    BY <2>1, <2>2, EmptyRange DEF QueuedOnce
  <2>4. PassedOn
    BY <2>1, EmptyRange DEF PassedOn
  <2>5. QED
    BY <2>3, <2>4 DEF OrderInv
<1>2. QED
  BY <1>1, OrderStep, OrderSuffices, TypeInvariant, PTL DEF Spec
=============================================================================
