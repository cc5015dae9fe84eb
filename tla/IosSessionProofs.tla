-------------------------- MODULE IosSessionProofs --------------------------
(* What the iOS client guarantees for any rooms, files and numbers of      *)
(* connections, however late the tasks and jobs of earlier ones return.    *)
EXTENDS IosSession, TLAPS

(* The steps of the client one by one, for the proofs by cases below.      *)
LEMMA StepCases ==
    ASSUME [Next]_vars
    PROVE  \/ Connect \/ ConnectNowhere \/ Disconnect \/ HandleJob \/ LinkLost \/ PeerMoves
           \/ \E r \in Rooms : ServerJoins(r)
           \/ \E u \in Uuids :
                SendFile(u) \/ PeerAnswers(u) \/ Resume(u) \/ SendChunks(u) \/ SendFails(u)
           \/ \E n \in Connections :
                \/ Created(n) \/ NegotiationFails(n) \/ OfferSent(n) \/ TimerEnds(n)
                \/ RemoteAnswers(n) \/ SessionOpens(n) \/ SessionDown(n) \/ Drains(n)
           \/ UNCHANGED vars
BY DEF Next, Button, Negotiation, Sending

(* Where HandleJob goes.                                                   *)
LEMMA JobCases ==
    ASSUME HandleJob
    PROVE  \E job : /\ job = Head(jobs)
                    /\ \/ HandleNothing(job)
                       \/ signaling # 0 /\ HandleRoster(job)
                       \/ signaling # 0 /\ HandlePeerLeft(job)
                       \/ signaling # 0 /\ HandleAnswer(job)
                       \/ signaling # 0 /\ HandleDescription(job)
                       \/ HandleEnd(job) \/ HandleOpened(job)
BY DEF HandleJob

----------------------------------------------------------------------------
(* The parts of the state that a step of one kind changes together.        *)
ManagerOK ==
    /\ state \in {"idle", "joiningRooms", "waitingForPeer", "negotiating", "ready", "failed"}
    /\ signaling \in 0 .. MaxConnects /\ session \in 0 .. MaxConnects
    /\ joined \subseteq Rooms /\ peerHere \in BOOLEAN
    /\ memberOf \subseteq Rooms /\ up \in BOOLEAN

SessionsOK ==
    /\ neg \in [Connections -> {"none", "creating", "offering", "waiting", "over"}]
    /\ sess \in [Connections -> Running \cup {"none", "closed"}]
    /\ full \subseteq Connections

SendsOK ==
    /\ waiters \subseteq Uuids
    /\ sends \in [Uuids -> SendRecord]

OthersOK ==
    /\ connects \in 0 .. MaxConnects /\ moves \in 0 .. MaxMoves
    /\ peerIn \in BOOLEAN
    /\ jobs \in Seq(Job) /\ Len(jobs) <= MaxJobs

(* Posting a job keeps the queue well formed and within its bound.         *)
LEMMA PostedType ==
    ASSUME OthersOK, MayPost, NEW job \in Job
    PROVE  Posted(job) \in Seq(Job) /\ Len(Posted(job)) <= MaxJobs
BY ConstantsAssumption DEF OthersOK, MayPost, Posted

(* disconnect leaves well-formed state in every state it may leave.        *)
LEMMA DisconnectType ==
    ASSUME TypeOK, NEW s \in {"idle", "failed"}, disconnect(s)
    PROVE  ManagerOK' /\ sess' \in [Connections -> Running \cup {"none", "closed"}]
           /\ SendsOK'
<1>1. 0 \in 0 .. MaxConnects
  BY ConstantsAssumption
<1>2. ManagerOK'
  BY <1>1 DEF disconnect, ManagerOK
<1>3. sess' \in [Connections -> Running \cup {"none", "closed"}]
  BY DEF disconnect, TypeOK
<1>4. Resumed \in [Uuids -> SendRecord]
  BY DEF Resumed, TypeOK, SendRecord
<1>5. SendsOK'
  BY <1>4 DEF disconnect, SendsOK
<1>6. QED
  BY <1>2, <1>3, <1>5

(* fail, with the types right before it, leaves them right (fail,          *)
(* ConnectionManager.swift:206-210).                                       *)
LEMMA FailType ==
    ASSUME TypeOK, fail
    PROVE  ManagerOK' /\ sess' \in [Connections -> Running \cup {"none", "closed"}]
           /\ SendsOK'
<1>1. CASE state = "idle"
  BY <1>1 DEF fail, connection, TypeOK, ManagerOK, SendsOK
<1>2. CASE state # "idle"
  BY <1>2, DisconnectType DEF fail
<1>3. QED
  BY <1>1, <1>2

(* A send moves on: what becomes of its record, and of the others.         *)
LEMMA SendMoves ==
    ASSUME TypeOK, NEW u \in Uuids,
           NEW p \in {"accepted", "refused", "sending", "done", "rejected", "failed"},
           sends' = [sends EXCEPT ![u].pc = p]
    PROVE  /\ sends' \in [Uuids -> SendRecord]
           /\ sends'[u].pc = p /\ sends'[u].via = sends[u].via
           /\ \A v \in Uuids \ {u} : sends'[v] = sends[v]
<1>1. sends[u] \in SendRecord
  BY DEF TypeOK
<1>2. sends'[u] = [sends[u] EXCEPT !.pc = p] /\ \A v \in Uuids \ {u} : sends'[v] = sends[v]
  BY DEF TypeOK
<1>3. sends'[u].pc = p /\ sends'[u].via = sends[u].via /\ sends'[u].left = sends[u].left
  BY <1>1, <1>2 DEF SendRecord
<1>4. sends'[u] \in SendRecord
  <2>1. sends'[u] = [pc |-> p, via |-> sends[u].via, left |-> sends[u].left]
    BY <1>1, <1>2 DEF SendRecord
  <2>2. QED
    BY <1>1, <2>1 DEF SendRecord
<1>5. sends' \in [Uuids -> SendRecord]
  BY <1>2, <1>4 DEF TypeOK
<1>6. QED
  BY <1>2, <1>3, <1>5

(* A job on the main actor keeps the types.                                *)
LEMMA JobType == TypeOK /\ HandleJob => TypeOK'
<1> SUFFICES ASSUME TypeOK, HandleJob
             PROVE  TypeOK'
  OBVIOUS
<1>1. PICK job : /\ job = Head(jobs)
                 /\ \/ HandleNothing(job)
                    \/ signaling # 0 /\ HandleRoster(job)
                    \/ signaling # 0 /\ HandlePeerLeft(job)
                    \/ signaling # 0 /\ HandleAnswer(job)
                    \/ signaling # 0 /\ HandleDescription(job)
                    \/ HandleEnd(job) \/ HandleOpened(job)
  BY JobCases
<1>2. job \in Job /\ jobs' \in Seq(Job) /\ Len(jobs') <= MaxJobs
  BY <1>1, ConstantsAssumption DEF HandleJob, TypeOK
<1>3. OthersOK' /\ full' \subseteq Connections
  BY <1>2 DEF HandleJob, TypeOK, OthersOK
<1>4. CASE HandleNothing(job)
  BY <1>3, <1>4 DEF HandleNothing, connection, TypeOK, OthersOK
<1>5. CASE HandleRoster(job)
  <2>1. joined' \subseteq Rooms /\ peerHere' \in BOOLEAN
    <3>1. CASE job.kind = "joined"
      <4>1. job.room \in Rooms /\ job.peer \in BOOLEAN
        BY <1>2, <3>1 DEF Job
      <4>2. QED
        BY <1>5, <3>1, <4>1 DEF HandleRoster, TypeOK
    <3>2. CASE job.kind = "peerJoined"
      BY <1>5, <3>2 DEF HandleRoster, TypeOK
    <3>3. QED
      BY <1>5, <3>1, <3>2 DEF HandleRoster
  <2>2. /\ state' \in {"idle", "joiningRooms", "waitingForPeer", "negotiating", "ready", "failed"}
        /\ neg' \in [Connections -> {"none", "creating", "offering", "waiting", "over"}]
    BY <1>5 DEF HandleRoster, advanceIfPossible, TypeOK
  <2>3. ManagerOK' /\ SessionsOK' /\ SendsOK'
    BY <1>3, <1>5, <2>1, <2>2 DEF HandleRoster, TypeOK, ManagerOK, SessionsOK, SendsOK
  <2>4. QED
    BY <1>3, <2>3 DEF TypeOK, ManagerOK, SessionsOK, SendsOK, OthersOK
<1>6. CASE HandlePeerLeft(job)
  <2>1. CASE state = "ready"
    BY <1>3, <1>6, <2>1, FailType
       DEF HandlePeerLeft, TypeOK, ManagerOK, SessionsOK, SendsOK, OthersOK
  <2>2. CASE state # "ready"
    BY <1>3, <1>6, <2>2 DEF HandlePeerLeft, TypeOK, OthersOK
  <2>3. QED
    BY <2>1, <2>2
<1>7. CASE HandleAnswer(job)
  <2>1. CASE job.uuid \in waiters
    <3>1. SendsOK'
      <4>1. PICK p \in {"accepted", "refused"} : sends' = [sends EXCEPT ![job.uuid].pc = p]
        BY <1>7, <2>1 DEF HandleAnswer
      <4>2. job.uuid \in Uuids /\ waiters' = waiters \ {job.uuid}
        BY <1>7, <2>1 DEF HandleAnswer, TypeOK
      <4>3. QED
        BY <4>1, <4>2, SendMoves DEF SendsOK, TypeOK
    <3>2. QED
      BY <1>3, <1>7, <3>1 DEF HandleAnswer, connection, TypeOK, SendsOK, OthersOK
  <2>2. CASE job.uuid \notin waiters
    BY <1>3, <1>7, <2>2 DEF HandleAnswer, connection, TypeOK, OthersOK
  <2>3. QED
    BY <2>1, <2>2
<1>8. CASE HandleEnd(job)
  BY <1>3, <1>8, FailType DEF HandleEnd, TypeOK, ManagerOK, SessionsOK, SendsOK, OthersOK
<1>9. CASE HandleOpened(job)
  BY <1>3, <1>9 DEF HandleOpened, AfterOpen, TypeOK, OthersOK
<1>10. CASE HandleDescription(job)
  <2>1. sess' \in [Connections -> Running \cup {"none", "closed"}]
    BY <1>10 DEF HandleDescription, Running, TypeOK
  <2>2. QED
    BY <1>3, <1>10, <2>1 DEF HandleDescription, connection, TypeOK, OthersOK
<1>11. QED
  BY <1>1, <1>4, <1>5, <1>6, <1>7, <1>8, <1>9, <1>10

(* The tasks of negotiations keep the types.                               *)
LEMMA NegotiationType ==
    ASSUME TypeOK, NEW n \in Connections, Negotiation(n)
    PROVE  TypeOK'
<1>1. CASE Created(n)
  <2>1. n \in 0 .. MaxConnects
    BY ConstantsAssumption DEF Connections
  <2>2. QED
    BY <1>1, <2>1 DEF Created, Surplus, Running, server, TypeOK
<1>2. CASE NegotiationFails(n)
  BY <1>2, FailType DEF NegotiationFails, TypeOK, ManagerOK, SendsOK
<1>3. CASE OfferSent(n)
  BY <1>3 DEF OfferSent, connection, server, TypeOK
<1>4. CASE TimerEnds(n)
  <2>1. CASE TimesOut(n)
    BY <1>4, <2>1, FailType DEF TimerEnds, TypeOK, ManagerOK, SendsOK
  <2>2. CASE ~TimesOut(n)
    BY <1>4, <2>2 DEF TimerEnds, connection, TypeOK
  <2>3. QED
    BY <2>1, <2>2
<1>5. QED
  BY <1>1, <1>2, <1>3, <1>4 DEF Negotiation

(* A file that waits has its continuation in acceptWaiters and no other    *)
(* has; one that may yet be sent has a session to use.                     *)
SendInv ==
    \A u \in Uuids :
        /\ u \in waiters <=> sends[u].pc = "waiting"
        /\ sends[u].pc \in {"waiting", "accepted", "sending"} => sends[u].via \in Connections

(* The loop of a send stops: in its sleep, or at the end of the file.      *)
LEMMA SendAdvances ==
    ASSUME TypeOK, NEW u \in Uuids, SendChunks(u)
    PROVE  \E p \in {"sending", "done"}, left \in 0 .. MaxChunks :
             /\ sends' = [sends EXCEPT ![u] = [pc |-> p, via |-> sends[u].via, left |-> left]]
             /\ full' \subseteq full \cup {sends[u].via}
             /\ p = "sending" => sends[u].pc = "sending"
<1>1. sends[u] \in SendRecord
  BY DEF TypeOK
<1>2. CASE /\ sends' = [sends EXCEPT ![u] = [pc |-> "done", via |-> @.via, left |-> 0]]
           /\ UNCHANGED full
  <2>1. sends' = [sends EXCEPT ![u] = [pc |-> "done", via |-> sends[u].via, left |-> 0]]
    BY <1>1, <1>2 DEF TypeOK, SendRecord
  <2>2. 0 \in 0 .. MaxChunks
    BY ConstantsAssumption
  <2>3. QED
    BY <1>2, <2>1, <2>2
<1>3. ASSUME NEW left \in 1 .. sends[u].left - 1,
             sends' = [sends EXCEPT ![u].left = left], full' = full \cup {sends[u].via}
      PROVE  /\ left \in 0 .. MaxChunks
             /\ sends' =
                  [sends EXCEPT ![u] = [pc |-> "sending", via |-> sends[u].via, left |-> left]]
  <2>1. left \in 0 .. MaxChunks
    BY <1>1, <1>3, ConstantsAssumption DEF SendRecord
  <2>2. sends[u].pc = "sending"
    BY DEF SendChunks
  <2>3. [sends[u] EXCEPT !.left = left] = [pc |-> "sending", via |-> sends[u].via, left |-> left]
    BY <1>1, <2>2 DEF SendRecord
  <2>4. QED
    BY <1>3, <2>1, <2>3 DEF TypeOK
<1>4. QED
  BY <1>2, <1>3 DEF SendChunks

(* The tasks of files, and the peer's answers, keep the types.             *)
LEMMA SendType ==
    ASSUME TypeOK, SendInv, NEW u \in Uuids, SendFile(u) \/ Sending(u) \/ PeerAnswers(u)
    PROVE  TypeOK'
<1>1. CASE SendFile(u)
  <2>1. PICK chunks \in 0 .. MaxChunks :
          IF state = "ready" /\ signaling # 0 /\ session # 0
          THEN /\ waiters' = waiters \cup {u}
               /\ sends' = [sends EXCEPT
                     ![u] = [pc |-> "waiting", via |-> session, left |-> chunks]]
          ELSE /\ sends' = [sends EXCEPT ![u].pc = "failed"]
               /\ UNCHANGED waiters
    BY <1>1 DEF SendFile
  <2>2. SendsOK'
    <3>1. CASE state = "ready" /\ signaling # 0 /\ session # 0
      BY <2>1, <3>1 DEF TypeOK, SendsOK, SendRecord
    <3>2. CASE ~(state = "ready" /\ signaling # 0 /\ session # 0)
      <4>1. UNCHANGED waiters /\ sends' = [sends EXCEPT ![u].pc = "failed"]
        BY <2>1, <3>2
      <4>2. QED
        BY <4>1 DEF TypeOK, SendsOK, SendRecord
    <3>3. QED
      BY <3>1, <3>2
  <2>3. QED
    BY <1>1, <2>2 DEF SendFile, connection, server, TypeOK, SendsOK
<1>2. CASE Resume(u) \/ SendFails(u)
  <2>1. PICK p \in {"sending", "rejected", "failed"} : sends' = [sends EXCEPT ![u].pc = p]
    BY <1>2 DEF Resume, SendFails
  <2>2. SendsOK'
    BY <1>2, <2>1, SendMoves DEF Resume, SendFails, TypeOK, SendsOK
  <2>3. QED
    BY <1>2, <2>2 DEF Resume, SendFails, connection, server, TypeOK, SendsOK
<1>3. CASE SendChunks(u)
  <2>1. PICK p \in {"sending", "done"}, left \in 0 .. MaxChunks :
          /\ sends' = [sends EXCEPT ![u] = [pc |-> p, via |-> sends[u].via, left |-> left]]
          /\ full' \subseteq full \cup {sends[u].via}
    BY <1>3, SendAdvances
  <2>2. sends[u].via \in Connections /\ sends[u].via \in 0 .. MaxConnects
    BY <1>3 DEF SendChunks, SendInv, TypeOK, SendRecord
  <2>3. SendsOK' /\ full' \subseteq Connections
    BY <1>3, <2>1, <2>2 DEF SendChunks, TypeOK, SendsOK, SendRecord
  <2>4. QED
    BY <1>3, <2>3 DEF SendChunks, connection, server, TypeOK, SendsOK
<1>4. CASE PeerAnswers(u)
  <2>1. PICK k \in {"accept", "reject"} : jobs' = Posted([kind |-> k, uuid |-> u])
    BY <1>4 DEF PeerAnswers
  <2>2. [kind |-> k, uuid |-> u] \in Job
    BY DEF Job
  <2>3. jobs' \in Seq(Job) /\ Len(jobs') <= MaxJobs
    BY <1>4, <2>1, <2>2, PostedType DEF PeerAnswers, TypeOK, OthersOK
  <2>4. QED
    BY <1>4, <2>3 DEF PeerAnswers, connection, server, TypeOK
<1>5. QED
  BY <1>1, <1>2, <1>3, <1>4 DEF Sending

(* Server, link, peer and peer sessions keep the types.                    *)
LEMMA OutsideType ==
    ASSUME TypeOK,
           \/ LinkLost \/ PeerMoves \/ \E r \in Rooms : ServerJoins(r)
           \/ \E n \in Connections :
                RemoteAnswers(n) \/ SessionOpens(n) \/ SessionDown(n) \/ Drains(n)
    PROVE  TypeOK'
<1>1. CASE LinkLost
  <2>1. jobs' \in Seq(Job) /\ Len(jobs') <= MaxJobs
    BY <1>1, PostedType DEF LinkLost, Job, TypeOK, OthersOK
  <2>2. QED
    BY <1>1, <2>1 DEF LinkLost, connection, TypeOK
<1>2. CASE PeerMoves
  <2>1. jobs' \in Seq(Job) /\ Len(jobs') <= MaxJobs
    BY <1>2, PostedType DEF PeerMoves, Job, TypeOK, OthersOK
  <2>2. moves' \in 0 .. MaxMoves
    BY <1>2, ConstantsAssumption DEF PeerMoves, TypeOK
  <2>3. QED
    BY <1>2, <2>1, <2>2 DEF PeerMoves, connection, TypeOK
<1>3. ASSUME NEW r \in Rooms, ServerJoins(r)
      PROVE  TypeOK'
  <2>1. [kind |-> "joined", room |-> r, peer |-> peerIn /\ r = PeerRoom] \in Job
    <3>1. (peerIn /\ r = PeerRoom) \in BOOLEAN
      OBVIOUS
    <3>2. QED
      BY <3>1 DEF Job
  <2>2. jobs' \in Seq(Job) /\ Len(jobs') <= MaxJobs
    BY <1>3, <2>1, PostedType DEF ServerJoins, TypeOK, OthersOK
  <2>3. QED
    BY <1>3, <2>2 DEF ServerJoins, connection, TypeOK
<1>4. ASSUME NEW n \in Connections, SessionOpens(n) \/ SessionDown(n)
      PROVE  TypeOK'
  <2>1. jobs' \in Seq(Job) /\ Len(jobs') <= MaxJobs
    BY <1>4, PostedType DEF SessionOpens, SessionDown, Job, TypeOK, OthersOK
  <2>2. QED
    BY <1>4, <2>1 DEF SessionOpens, SessionDown, Running, connection, server, TypeOK
<1>5. ASSUME NEW n \in Connections, Drains(n)
      PROVE  TypeOK'
  BY <1>5 DEF Drains, connection, server, TypeOK
<1>6. ASSUME NEW n \in Connections, RemoteAnswers(n)
      PROVE  TypeOK'
  <2>1. jobs' \in Seq(Job) /\ Len(jobs') <= MaxJobs
    BY <1>6, PostedType DEF RemoteAnswers, Job, TypeOK, OthersOK
  <2>2. QED
    BY <1>6, <2>1 DEF RemoteAnswers, connection, server, TypeOK
<1>7. QED
  BY <1>1, <1>2, <1>3, <1>4, <1>5, <1>6

(* Every step keeps the types.                                             *)
LEMMA TypeStep == TypeOK /\ SendInv /\ [Next]_vars => TypeOK'
<1> SUFFICES ASSUME TypeOK, SendInv, [Next]_vars
             PROVE  TypeOK'
  OBVIOUS
<1>1. CASE Connect
  <2>1. connects + 1 \in 0 .. MaxConnects
    BY <1>1, ConstantsAssumption DEF Connect, TypeOK
  <2>2. QED
    BY <1>1, <2>1 DEF Connect, TypeOK
<1>2. CASE ConnectNowhere
  BY <1>2 DEF ConnectNowhere, server, TypeOK
<1>3. CASE Disconnect
  BY <1>3, DisconnectType DEF Disconnect, TypeOK, ManagerOK, SendsOK
<1>4. CASE UNCHANGED vars
  BY <1>4 DEF vars, connection, server, TypeOK
<1>5. QED
  BY <1>1, <1>2, <1>3, <1>4, StepCases, JobType, NegotiationType, SendType, OutsideType
     DEF Negotiation, Sending

(* disconnect, from whatever leads to it, answers every send that waits.   *)
LEMMA DisconnectSends ==
    ASSUME TypeOK, SendInv, fail \/ disconnect("idle")
    PROVE  SendInv'
<1>1. CASE UNCHANGED <<waiters, sends>>
  BY <1>1 DEF SendInv
<1>2. CASE waiters' = {} /\ sends' = Resumed
  BY <1>2 DEF SendInv, Resumed, TypeOK
<1>3. QED
  BY <1>1, <1>2 DEF fail, disconnect

(* Every step keeps a continuation for exactly the sends that wait.        *)
LEMMA SendStep == TypeOK /\ SendInv /\ [Next]_vars => SendInv'
<1> SUFFICES ASSUME TypeOK, SendInv, [Next]_vars
             PROVE  SendInv'
  OBVIOUS
<1>1. CASE UNCHANGED <<waiters, sends>>
  BY <1>1 DEF SendInv
<1>2. CASE fail \/ disconnect("idle")
  BY <1>2, DisconnectSends
<1>3. ASSUME NEW job, HandleAnswer(job)
      PROVE  SendInv'
  <2>1. CASE job.uuid \in waiters
    <3>1. PICK p \in {"accepted", "refused"} : sends' = [sends EXCEPT ![job.uuid].pc = p]
      BY <1>3, <2>1 DEF HandleAnswer
    <3>2. job.uuid \in Uuids /\ waiters' = waiters \ {job.uuid}
      BY <1>3, <2>1 DEF HandleAnswer, TypeOK
    <3>3. QED
      BY <2>1, <3>1, <3>2, SendMoves DEF SendInv
  <2>2. CASE job.uuid \notin waiters
    BY <1>1, <1>3, <2>2 DEF HandleAnswer
  <2>3. QED
    BY <2>1, <2>2
<1>4. ASSUME NEW u \in Uuids, SendFile(u)
      PROVE  SendInv'
  <2>1. session \in 0 .. MaxConnects
    BY DEF TypeOK
  <2>2. session # 0 => session \in Connections
    BY <2>1, ConstantsAssumption DEF Connections
  <2>3. CASE state = "ready" /\ signaling # 0 /\ session # 0
    <3>1. PICK chunks \in 0 .. MaxChunks :
            sends' = [sends EXCEPT ![u] = [pc |-> "waiting", via |-> session, left |-> chunks]]
      BY <1>4, <2>3 DEF SendFile
    <3>2. waiters' = waiters \cup {u}
      BY <1>4, <2>3 DEF SendFile
    <3>3. QED
      BY <2>2, <2>3, <3>1, <3>2 DEF SendInv, TypeOK
  <2>4. CASE ~(state = "ready" /\ signaling # 0 /\ session # 0)
    <3>1. sends' = [sends EXCEPT ![u].pc = "failed"] /\ waiters' = waiters /\ sends[u].pc = "none"
      BY <1>4, <2>4 DEF SendFile
    <3>2. QED
      BY <3>1, SendMoves DEF SendInv
  <2>5. QED
    BY <2>3, <2>4
<1>5. ASSUME NEW u \in Uuids, Resume(u) \/ SendChunks(u) \/ SendFails(u)
      PROVE  SendInv'
  <2>1. CASE Resume(u) \/ SendFails(u)
    <3>1. PICK p \in {"sending", "rejected", "failed"} :
            sends' = [sends EXCEPT ![u].pc = p] /\ (p = "sending" => sends[u].pc = "accepted")
      BY <2>1 DEF Resume, SendFails
    <3>2. waiters' = waiters /\ sends[u].pc # "waiting"
      BY <2>1 DEF Resume, SendFails
    <3>3. QED
      BY <3>1, <3>2, SendMoves DEF SendInv
  <2>2. CASE SendChunks(u)
    <3>1. PICK p \in {"sending", "done"}, left \in 0 .. MaxChunks :
            sends' = [sends EXCEPT ![u] = [pc |-> p, via |-> sends[u].via, left |-> left]]
      BY <2>2, SendAdvances
    <3>2. waiters' = waiters /\ sends[u].pc = "sending"
      BY <2>2 DEF SendChunks
    <3>3. QED
      BY <3>1, <3>2 DEF SendInv, TypeOK
  <2>3. QED
    BY <1>5, <2>1, <2>2
<1>6. HandleJob => \/ UNCHANGED <<waiters, sends>>
                   \/ fail
                   \/ \E job : HandleAnswer(job)
  BY JobCases DEF HandleNothing, HandleRoster, HandlePeerLeft, HandleDescription, HandleEnd,
                  HandleOpened
<1>7. QED
  BY <1>1, <1>2, <1>3, <1>4, <1>5, <1>6, StepCases
     DEF Connect, ConnectNowhere, Disconnect, LinkLost, PeerMoves, ServerJoins, PeerAnswers,
         Created, NegotiationFails, OfferSent, TimerEnds, RemoteAnswers, SessionOpens,
         SessionDown, Drains, vars

(* The app starts with the types right.                                    *)
LEMMA InitTypes == Init => TypeOK
<1> SUFFICES ASSUME Init
             PROVE  TypeOK
  OBVIOUS
<1>1. 0 \in 0 .. MaxConnects /\ 0 \in 0 .. MaxMoves /\ 0 \in 0 .. MaxChunks
  BY ConstantsAssumption
<1>2. jobs \in Seq(Job) /\ Len(jobs) <= MaxJobs
  BY ConstantsAssumption DEF Init
<1>3. sends \in [Uuids -> SendRecord]
  BY <1>1 DEF Init, SendRecord
<1>4. QED
  BY <1>1, <1>2, <1>3 DEF Init, TypeOK

(* Types and continuations together are inductive.                         *)
LEMMA TypeInvariant == Spec => [](TypeOK /\ SendInv)
<1>1. Init => SendInv
  BY DEF Init, SendInv
<1>2. QED
  BY <1>1, InitTypes, TypeStep, SendStep, PTL DEF Spec

(* The manager, its queue, its tasks and sessions always have their types. *)
THEOREM TypeCorrect == Spec => []TypeOK
BY TypeInvariant, PTL

----------------------------------------------------------------------------
(* Every step leaves a manager that is not active with nothing.            *)
LEMMA QuietStep == TypeOK /\ SendInv /\ QuietWhenInactive /\ [Next]_vars => QuietWhenInactive'
<1> SUFFICES ASSUME TypeOK, SendInv, QuietWhenInactive, [Next]_vars
             PROVE  QuietWhenInactive'
  OBVIOUS
<1> USE DEF QuietWhenInactive, isActive
<1>1. ASSUME NEW s, disconnect(s)
      PROVE  QuietWhenInactive'
  BY <1>1 DEF disconnect, Resumed, SendInv, TypeOK
<1>2. CASE fail
  <2>1. CASE state = "idle"
    BY <1>2, <2>1 DEF fail, connection
  <2>2. CASE state # "idle"
    BY <1>1, <1>2, <2>2 DEF fail
  <2>3. QED
    BY <2>1, <2>2
<1>3. CASE Connect \/ ConnectNowhere
  BY <1>3 DEF Connect, ConnectNowhere, server
<1>4. CASE HandleJob
  <2>1. PICK job : \/ HandleNothing(job)
                   \/ signaling # 0 /\ HandleRoster(job)
                   \/ signaling # 0 /\ HandlePeerLeft(job)
                   \/ signaling # 0 /\ HandleAnswer(job)
                   \/ signaling # 0 /\ HandleDescription(job)
                   \/ HandleEnd(job) \/ HandleOpened(job)
    BY <1>4, JobCases
  <2>2. CASE signaling # 0 /\ HandleRoster(job)
    BY <2>2 DEF HandleRoster, advanceIfPossible
  <2>3. CASE signaling # 0 /\ (HandleAnswer(job) \/ HandleDescription(job))
    BY <2>3 DEF HandleAnswer, HandleDescription, connection
  <2>4. CASE signaling # 0 /\ HandlePeerLeft(job)
    BY <1>2, <2>4 DEF HandlePeerLeft
  <2>5. CASE HandleNothing(job) \/ HandleEnd(job) \/ HandleOpened(job)
    BY <1>2, <2>5 DEF HandleNothing, HandleEnd, HandleOpened, AfterOpen, connection
  <2>6. QED
    BY <2>1, <2>2, <2>3, <2>4, <2>5
<1>5. CASE LinkLost \/ PeerMoves \/ \E r \in Rooms : ServerJoins(r)
  BY <1>5 DEF LinkLost, PeerMoves, ServerJoins, connection
<1>6. ASSUME NEW u \in Uuids, SendFile(u)
      PROVE  QuietWhenInactive'
  <2>1. UNCHANGED <<connection, server>> /\ (state # "ready" => waiters' = waiters)
    BY <1>6 DEF SendFile
  <2>2. SendInv'
    BY <1>6, SendStep DEF Next
  <2>3. QED
    BY <2>1, <2>2 DEF SendInv, connection, server
<1>7. ASSUME NEW u \in Uuids, PeerAnswers(u) \/ Resume(u) \/ SendChunks(u) \/ SendFails(u)
      PROVE  QuietWhenInactive'
  <2>1. UNCHANGED <<connection, server, waiters>>
    BY <1>7 DEF PeerAnswers, Resume, SendChunks, SendFails
  <2>2. SendInv'
    BY <1>7, SendStep DEF Next, Sending
  <2>3. QED
    BY <2>1, <2>2 DEF SendInv, connection, server
<1>8. ASSUME NEW n \in Connections, Created(n) \/ OfferSent(n)
      PROVE  QuietWhenInactive'
  BY <1>8 DEF Created, MayAdopt, OfferSent, connection, server
<1>9. ASSUME NEW n \in Connections, NegotiationFails(n) \/ TimerEnds(n)
      PROVE  QuietWhenInactive'
  BY <1>2, <1>9 DEF NegotiationFails, TimerEnds, connection
<1>10. ASSUME NEW n \in Connections,
              RemoteAnswers(n) \/ SessionOpens(n) \/ SessionDown(n) \/ Drains(n)
       PROVE  QuietWhenInactive'
  BY <1>10 DEF RemoteAnswers, SessionOpens, SessionDown, Drains, connection, server
<1>11. CASE UNCHANGED vars
  BY <1>11 DEF vars, connection, server
<1>12. QED
  BY <1>1, <1>3, <1>4, <1>5, <1>6, <1>7, <1>8, <1>9, <1>10, <1>11, StepCases DEF Disconnect

(* Whatever returns late, a manager that is idle or has failed keeps no    *)
(* link, session or roster, and leaves no send waiting for an answer.      *)
THEOREM InactiveIsQuiet == Spec => []QuietWhenInactive
<1>1. Init => QuietWhenInactive
  BY DEF Init, QuietWhenInactive
<1>2. QED
  BY <1>1, TypeInvariant, QuietStep, PTL DEF Spec

----------------------------------------------------------------------------
(* Every step closes the session it lets go of.                            *)
LEMMA LeakStep == TypeOK /\ NoSessionLeaks /\ [Next]_vars => NoSessionLeaks'
<1> SUFFICES ASSUME TypeOK, NoSessionLeaks, [Next]_vars
             PROVE  NoSessionLeaks'
  OBVIOUS
<1> USE DEF NoSessionLeaks, TypeOK
<1>1. CASE UNCHANGED <<session, sess>>
  BY <1>1
<1>2. ASSUME NEW s, disconnect(s)
      PROVE  NoSessionLeaks'
  BY <1>2 DEF disconnect, Running, Connections
<1>3. CASE fail
  BY <1>1, <1>2, <1>3 DEF fail, connection
<1>4. ASSUME NEW n \in Connections, Created(n)
      PROVE  NoSessionLeaks'
  <2>1. \A k \in Connections \ {n} : sess'[k] = sess[k]
    BY <1>4 DEF Created, Surplus
  <2>2. CASE MayAdopt
    <3>1. \A k \in Connections : sess[k] \notin Running
      BY <2>2 DEF MayAdopt, Connections
    <3>2. session' = n
      BY <1>4, <2>2 DEF Created
    <3>3. QED
      BY <2>1, <3>1, <3>2
  <2>3. CASE ~MayAdopt
    <3>1. session' = session /\ sess'[n] = "closed"
      BY <1>4, <2>3 DEF Created, Surplus
    <3>2. QED
      BY <2>1, <3>1 DEF Running
  <2>4. QED
    BY <2>2, <2>3
<1>5. ASSUME NEW n \in Connections, SessionOpens(n) \/ SessionDown(n)
      PROVE  NoSessionLeaks'
  <2>1. session' = session /\ sess[n] \in Running
    BY <1>5 DEF SessionOpens, SessionDown, Running, connection
  <2>2. \A k \in Connections \ {n} : sess'[k] = sess[k]
    BY <1>5 DEF SessionOpens, SessionDown
  <2>3. QED
    BY <2>1, <2>2
<1>6. ASSUME NEW job, HandleDescription(job)
      PROVE  NoSessionLeaks'
  BY <1>6 DEF HandleDescription, Running, connection
<1>7. HandleJob => fail \/ UNCHANGED <<session, sess>> \/ \E job : HandleDescription(job)
  BY JobCases
     DEF HandleNothing, HandleRoster, HandlePeerLeft, HandleAnswer, HandleEnd, HandleOpened,
         connection
<1>8. QED
  BY <1>1, <1>2, <1>3, <1>4, <1>5, <1>6, <1>7, StepCases
     DEF Connect, ConnectNowhere, Disconnect, LinkLost, PeerMoves, ServerJoins, SendFile,
         PeerAnswers, Resume, SendChunks, SendFails, NegotiationFails, OfferSent, TimerEnds,
         RemoteAnswers, Drains, connection, vars

(* No peer connection is left running: each is the one in use or closed,   *)
(* whichever negotiation created it and whenever it came back.             *)
THEOREM SessionsDoNotLeak == Spec => []NoSessionLeaks
<1>1. Init => NoSessionLeaks
  BY DEF Init, NoSessionLeaks, Running
<1>2. QED
  BY <1>1, TypeInvariant, LeakStep, PTL DEF Spec

----------------------------------------------------------------------------
(* What is left when a connection ends.                                    *)
LEMMA Ends ==
    ASSUME fail \/ disconnect("idle")
    PROVE  \/ /\ state = "idle" /\ UNCHANGED <<connection, up, memberOf, sess, waiters, sends>>
           \/ /\ state' = "idle" \/ state' = "failed"
              /\ signaling' = 0 /\ session' = 0
              /\ joined' = {} /\ peerHere' = FALSE /\ up' = FALSE /\ memberOf' = {}
BY DEF fail, disconnect

(* The queue after a job has been posted: the others keep their places.    *)
LEMMA AfterPost ==
    ASSUME TypeOK, NEW job, jobs' = Posted(job)
    PROVE  /\ DOMAIN jobs' = DOMAIN jobs \cup {Len(jobs) + 1}
           /\ \A i \in DOMAIN jobs : i \in Nat /\ i < Len(jobs) + 1
           /\ \A i \in DOMAIN jobs : jobs'[i] = jobs[i]
           /\ jobs'[Len(jobs) + 1] = job
BY DEF TypeOK, Posted

(* The queue after its first job has been taken.                           *)
LEMMA AfterTake ==
    ASSUME TypeOK, jobs # <<>>, jobs' = Tail(jobs)
    PROVE  /\ \A i \in DOMAIN jobs :
                \/ i = 1 /\ jobs[i] = Head(jobs)
                \/ i - 1 \in DOMAIN jobs' /\ jobs'[i - 1] = jobs[i]
           /\ \A i \in DOMAIN jobs' : i \in Nat /\ i + 1 \in DOMAIN jobs /\ jobs'[i] = jobs[i + 1]
           /\ \A i \in DOMAIN jobs : i \in Nat
BY DEF TypeOK

(* A job that waits is handled now or waits on, and one that is posted     *)
(* waits.                                                                  *)
LEMMA WaitsOn ==
    ASSUME TypeOK, NEW kind, Waiting(kind),
           \/ jobs' = jobs
           \/ \E job : jobs' = Posted(job)
           \/ jobs # <<>> /\ jobs' = Tail(jobs) /\ Head(jobs).kind # kind
    PROVE  Waiting(kind)'
<1>1. CASE jobs' = jobs
  BY <1>1 DEF Waiting
<1>2. ASSUME NEW job, jobs' = Posted(job)
      PROVE  Waiting(kind)'
  BY <1>2, AfterPost DEF Waiting
<1>3. CASE jobs # <<>> /\ jobs' = Tail(jobs) /\ Head(jobs).kind # kind
  BY <1>3, AfterTake DEF Waiting
<1>4. QED
  BY <1>1, <1>2, <1>3

(* A job that has just been posted waits in the main actor's queue.         *)
LEMMA PostedWaits ==
    ASSUME TypeOK, NEW job, jobs' = Posted(job)
    PROVE  Waiting(job.kind)'
BY AfterPost DEF Waiting

----------------------------------------------------------------------------
(* The connection in use is the last one, and exists while the manager is  *)
(* active; only a live link is a member of rooms.                          *)
LinkInv ==
    /\ isActive <=> signaling # 0
    /\ signaling # 0 => signaling = connects
    /\ up => isActive
    /\ ~up => memberOf = {}

(* Every step keeps the link and the state together.                       *)
LEMMA LinkStep == TypeOK /\ LinkInv /\ [Next]_vars => LinkInv'
<1> SUFFICES ASSUME TypeOK, LinkInv, [Next]_vars
             PROVE  LinkInv'
  OBVIOUS
<1> USE DEF LinkInv, isActive
<1>1. CASE UNCHANGED <<state, signaling, connects, up, memberOf>>
  BY <1>1
<1>2. CASE connects' = connects /\ (fail \/ disconnect("idle"))
  <2>1. CASE UNCHANGED <<connection, up, memberOf>>
    BY <1>1, <1>2, <2>1 DEF connection
  <2>2. CASE /\ state' = "idle" \/ state' = "failed"
             /\ signaling' = 0 /\ up' = FALSE /\ memberOf' = {}
    BY <2>2
  <2>3. QED
    BY <1>2, <2>1, <2>2, Ends
<1>3. CASE Connect
  <2>1. connects + 1 # 0
    BY DEF TypeOK
  <2>2. QED
    BY <1>3, <2>1 DEF Connect
<1>4. CASE ConnectNowhere
  BY <1>4 DEF ConnectNowhere, server
<1>5. CASE LinkLost
  BY <1>5 DEF LinkLost, connection
<1>6. ASSUME NEW r \in Rooms, ServerJoins(r)
      PROVE  LinkInv'
  BY <1>6 DEF ServerJoins, connection
<1>7. ASSUME NEW job, signaling # 0, HandleRoster(job), connects' = connects
      PROVE  LinkInv'
  BY <1>7 DEF HandleRoster, advanceIfPossible
<1>8. ASSUME NEW job, HandleOpened(job), connects' = connects
      PROVE  LinkInv'
  BY <1>8 DEF HandleOpened, AfterOpen
<1>9. CASE HandleJob
  <2>1. connects' = connects
    BY <1>9 DEF HandleJob
  <2>2. \/ UNCHANGED <<state, signaling, up, memberOf>>
        \/ fail
        \/ \E job : signaling # 0 /\ HandleRoster(job)
        \/ \E job : HandleOpened(job)
    BY <1>9, JobCases DEF HandleNothing, HandlePeerLeft, HandleAnswer, HandleDescription, HandleEnd,
                             connection
  <2>3. QED
    BY <1>1, <1>2, <1>7, <1>8, <2>1, <2>2
<1>10. ASSUME NEW u \in Uuids,
              SendFile(u) \/ PeerAnswers(u) \/ Resume(u) \/ SendChunks(u) \/ SendFails(u)
       PROVE  LinkInv'
  BY <1>1, <1>10
     DEF SendFile, PeerAnswers, Resume, SendChunks, SendFails, connection, server
<1>11. ASSUME NEW n \in Connections,
              \/ Created(n) \/ OfferSent(n) \/ RemoteAnswers(n)
              \/ SessionOpens(n) \/ SessionDown(n) \/ Drains(n)
       PROVE  LinkInv'
  BY <1>1, <1>11
     DEF Created, OfferSent, RemoteAnswers, SessionOpens, SessionDown, Drains, connection, server
<1>12. ASSUME NEW n \in Connections, NegotiationFails(n) \/ TimerEnds(n)
       PROVE  LinkInv'
  BY <1>1, <1>2, <1>12 DEF NegotiationFails, TimerEnds, connection
<1>13. CASE PeerMoves \/ UNCHANGED vars
  BY <1>1, <1>13 DEF PeerMoves, connection, server, vars
<1>14. CASE Disconnect
  BY <1>2, <1>14 DEF Disconnect
<1>15. QED
  BY <1>3, <1>4, <1>5, <1>6, <1>9, <1>10, <1>11, <1>12, <1>13, <1>14, StepCases

----------------------------------------------------------------------------
(* What happens to the session in use is not overlooked: the second half    *)
(* of ReadyIsOpen.                                                          *)
ChannelIsNoticed ==
    session # 0 =>
        /\ sess[session] \in Running
        /\ sess[session] = "open" => state = "ready" \/ Waiting("opened")
        /\ sess[session] = "down" => Waiting("down")

(* A session is in use only while the manager negotiates or is ready, and  *)
(* then its negotiation has come past the point that would close it.       *)
ChannelInv ==
    /\ session # 0 => state \in {"negotiating", "ready"} /\ neg[session] # "creating"
    /\ ChannelIsNoticed

(* A step that leaves the session and the state alone, but may post a job  *)
(* or take one that says nothing of the session.                           *)
LEMMA ChannelKept ==
    ASSUME TypeOK, ChannelInv, UNCHANGED <<state, session, sess, neg>>,
           \/ jobs' = jobs
           \/ \E job : jobs' = Posted(job)
           \/ jobs # <<>> /\ jobs' = Tail(jobs) /\ Head(jobs).kind \notin {"opened", "down"}
    PROVE  ChannelInv'
<1>1. Waiting("opened") => Waiting("opened")'
  BY WaitsOn
<1>2. Waiting("down") => Waiting("down")'
  BY WaitsOn
<1>3. QED
  BY <1>1, <1>2 DEF ChannelInv, ChannelIsNoticed

(* A step that leaves no session in use.                                   *)
LEMMA ChannelGone ==
    ASSUME ChannelInv, fail \/ disconnect("idle") \/ (~isActive /\ UNCHANGED session)
    PROVE  session' = 0
BY Ends DEF ChannelInv, isActive, connection

(* The jobs on the main actor keep watch of the session.                   *)
LEMMA JobChannel == TypeOK /\ LinkInv /\ ChannelInv /\ HandleJob => ChannelInv'
<1> SUFFICES ASSUME TypeOK, LinkInv, ChannelInv, HandleJob
             PROVE  ChannelInv'
  OBVIOUS
<1>1. PICK job : /\ job = Head(jobs)
                 /\ \/ HandleNothing(job)
                    \/ signaling # 0 /\ HandleRoster(job)
                    \/ signaling # 0 /\ HandlePeerLeft(job)
                    \/ signaling # 0 /\ HandleAnswer(job)
                    \/ signaling # 0 /\ HandleDescription(job)
                    \/ HandleEnd(job) \/ HandleOpened(job)
  BY JobCases
<1>2. jobs # <<>> /\ jobs' = Tail(jobs)
  BY DEF HandleJob
<1>3. CASE fail
  BY <1>3, ChannelGone DEF ChannelInv, ChannelIsNoticed
<1>4. CASE HandleNothing(job)
  <2>1. UNCHANGED <<state, session, sess, neg>> /\ job.kind \notin {"opened", "down"}
    BY <1>4 DEF HandleNothing, connection
  <2>2. QED
    BY <1>1, <1>2, <2>1, ChannelKept
<1>5. CASE HandleRoster(job)
  <2>1. UNCHANGED <<session, sess>> /\ job.kind \notin {"opened", "down"}
    BY <1>5 DEF HandleRoster
  <2>2. CASE session = 0
    BY <2>1, <2>2 DEF ChannelInv, ChannelIsNoticed
  <2>3. CASE session # 0
    <3>1. ~MayAdvance
      BY <2>3 DEF ChannelInv, MayAdvance
    <3>2. UNCHANGED <<state, neg>>
      BY <1>5, <3>1 DEF HandleRoster, advanceIfPossible
    <3>3. QED
      BY <1>1, <1>2, <2>1, <3>2, ChannelKept
  <2>4. QED
    BY <2>2, <2>3
<1>6. CASE HandlePeerLeft(job)
  <2>1. CASE state # "ready"
    <3>1. UNCHANGED <<state, session, sess, neg>> /\ job.kind \notin {"opened", "down"}
      BY <1>6, <2>1 DEF HandlePeerLeft
    <3>2. QED
      BY <1>1, <1>2, <3>1, ChannelKept
  <2>2. QED
    BY <1>3, <1>6, <2>1 DEF HandlePeerLeft
<1>7. CASE HandleAnswer(job)
  <2>1. UNCHANGED <<state, session, sess, neg>> /\ job.kind \notin {"opened", "down"}
    BY <1>7 DEF HandleAnswer, connection
  <2>2. QED
    BY <1>1, <1>2, <2>1, ChannelKept
<1>8. CASE HandleOpened(job)
  <2>1. UNCHANGED <<session, sess, neg>> /\ job.kind = "opened" /\ state' = AfterOpen
    BY <1>8 DEF HandleOpened
  <2>2. Waiting("down") => Waiting("down")'
    BY <1>1, <1>2, <2>1, WaitsOn
  <2>3. session # 0 => state' = "ready"
    BY <2>1 DEF ChannelInv, AfterOpen
  <2>4. QED
    BY <2>1, <2>2, <2>3 DEF ChannelInv, ChannelIsNoticed
<1>9. CASE HandleDescription(job)
  <2>1. UNCHANGED <<state, session, neg>> /\ job.kind = "answer"
    BY <1>9 DEF HandleDescription, connection
  <2>2. Waiting("opened") => Waiting("opened")'
    BY <1>1, <1>2, <2>1, WaitsOn
  <2>3. Waiting("down") => Waiting("down")'
    BY <1>1, <1>2, <2>1, WaitsOn
  <2>4. session # 0 => \/ sess'[session] = sess[session]
                       \/ sess'[session] \in {"answered", "misled"}
    BY <1>9, ConstantsAssumption DEF HandleDescription, TypeOK, Connections
  <2>5. QED
    BY <2>1, <2>2, <2>3, <2>4 DEF ChannelInv, ChannelIsNoticed, Running
<1>10. QED
  BY <1>1, <1>3, <1>4, <1>5, <1>6, <1>7, <1>8, <1>9 DEF HandleEnd

(* So does every other step, those of the tasks of earlier connections     *)
(* among them.                                                             *)
LEMMA ChannelStep == TypeOK /\ LinkInv /\ ChannelInv /\ [Next]_vars => ChannelInv'
<1> SUFFICES ASSUME TypeOK, LinkInv, ChannelInv, [Next]_vars
             PROVE  ChannelInv'
  OBVIOUS
<1>1. ASSUME session' = 0
      PROVE  ChannelInv'
  BY <1>1 DEF ChannelInv, ChannelIsNoticed
<1>2. CASE Connect \/ ConnectNowhere
  BY <1>1, <1>2, ChannelGone DEF Connect, ConnectNowhere
<1>3. CASE Disconnect
  BY <1>1, <1>3, ChannelGone DEF Disconnect
<1>4. CASE LinkLost \/ PeerMoves \/ \E r \in Rooms : ServerJoins(r)
  <2>1. UNCHANGED <<state, session, sess, neg>> /\ (jobs' = jobs \/ \E job : jobs' = Posted(job))
    BY <1>4 DEF LinkLost, PeerMoves, ServerJoins, connection
  <2>2. QED
    BY <2>1, ChannelKept
<1>5. ASSUME NEW u \in Uuids,
             SendFile(u) \/ PeerAnswers(u) \/ Resume(u) \/ SendChunks(u) \/ SendFails(u)
      PROVE  ChannelInv'
  <2>1. UNCHANGED <<state, session, sess, neg>> /\ (jobs' = jobs \/ \E job : jobs' = Posted(job))
    BY <1>5 DEF SendFile, PeerAnswers, Resume, SendChunks, SendFails, connection
  <2>2. QED
    BY <2>1, ChannelKept
<1>6. ASSUME NEW n \in Connections, Created(n)
      PROVE  ChannelInv'
  <2>1. UNCHANGED state /\ neg[n] = "creating"
    BY <1>6 DEF Created
  <2>2. CASE MayAdopt
    <3>1. session' = n /\ sess'[n] = "live" /\ neg'[n] = "offering"
      BY <1>6, <2>2 DEF Created, TypeOK
    <3>2. QED
      BY <2>1, <2>2, <3>1 DEF MayAdopt, ChannelInv, ChannelIsNoticed, Running
  <2>3. CASE ~MayAdopt
    <3>1. session' = session /\ sess' = [sess EXCEPT ![n] = "closed"] /\ jobs' = jobs
          /\ neg' = [neg EXCEPT ![n] = "over"]
      BY <1>6, <2>3 DEF Created, Surplus
    <3>2. session # 0 => sess'[session] = sess[session] /\ neg'[session] = neg[session]
      BY <2>1, <3>1 DEF ChannelInv, TypeOK
    <3>3. QED
      BY <2>1, <3>1, <3>2 DEF ChannelInv, ChannelIsNoticed, Waiting
  <2>4. QED
    BY <2>2, <2>3
<1>7. ASSUME NEW n \in Connections, OfferSent(n)
      PROVE  ChannelInv'
  <2>1. UNCHANGED <<state, session, sess, jobs>> /\ neg' = [neg EXCEPT ![n] = "waiting"]
    BY <1>7 DEF OfferSent, connection
  <2>2. session # 0 => neg'[session] # "creating"
    BY <2>1, ConstantsAssumption DEF ChannelInv, TypeOK, Connections
  <2>3. QED
    BY <2>1, <2>2 DEF ChannelInv, ChannelIsNoticed, Waiting
<1>8. ASSUME NEW n \in Connections, NegotiationFails(n)
      PROVE  ChannelInv'
  BY <1>1, <1>8, ChannelGone DEF NegotiationFails
<1>9. ASSUME NEW n \in Connections, TimerEnds(n)
      PROVE  ChannelInv'
  <2>1. CASE ~TimesOut(n)
    <3>1. UNCHANGED <<state, session, sess, jobs>> /\ neg' = [neg EXCEPT ![n] = "over"]
      BY <1>9, <2>1 DEF TimerEnds, connection
    <3>2. session # 0 => neg'[session] # "creating"
      BY <3>1, ConstantsAssumption DEF ChannelInv, TypeOK, Connections
    <3>3. QED
      BY <3>1, <3>2 DEF ChannelInv, ChannelIsNoticed, Waiting
  <2>2. QED
    BY <1>1, <1>9, <2>1, ChannelGone DEF TimerEnds
<1>10. ASSUME NEW n \in Connections, NEW kind, NEW s,
              UNCHANGED <<state, session, neg>>,
              sess' = [sess EXCEPT ![n] = s], jobs' = Posted([kind |-> kind]),
              <<s, kind>> \in {<<"open", "opened">>, <<"down", "down">>}
       PROVE  ChannelInv'
  <2>1. Waiting("opened") => Waiting("opened")'
    BY <1>10, WaitsOn
  <2>2. Waiting("down") => Waiting("down")'
    BY <1>10, WaitsOn
  <2>3. Waiting(kind)'
    BY <1>10, PostedWaits
  <2>4. \A k \in Connections : sess'[k] = IF k = n THEN s ELSE sess[k]
    BY <1>10 DEF TypeOK
  <2>5. session # 0 => session \in Connections
    BY ConstantsAssumption DEF TypeOK, Connections
  <2>6. QED
    BY <1>10, <2>1, <2>2, <2>3, <2>4, <2>5 DEF ChannelInv, ChannelIsNoticed, Running
<1>11. ASSUME NEW n \in Connections, SessionOpens(n) \/ SessionDown(n)
       PROVE  ChannelInv'
  BY <1>10, <1>11 DEF SessionOpens, SessionDown, connection
<1>12. ASSUME NEW n \in Connections, RemoteAnswers(n) \/ Drains(n)
       PROVE  ChannelInv'
  <2>1. UNCHANGED <<state, session, sess, neg>> /\ (jobs' = jobs \/ \E job : jobs' = Posted(job))
    BY <1>12 DEF RemoteAnswers, Drains, connection
  <2>2. QED
    BY <2>1, ChannelKept
<1>13. CASE UNCHANGED vars
  BY <1>13, ChannelKept DEF vars, connection
<1>14. QED
  BY <1>2, <1>3, <1>4, <1>5, <1>6, <1>7, <1>8, <1>9, <1>11, <1>12, <1>13, StepCases, JobChannel

----------------------------------------------------------------------------
(* What a job says of the peer: that it is in its room, or that it is not. *)
SaysHere(job) == \/ job.kind = "peerJoined"
                 \/ job.kind = "joined" /\ job.room = PeerRoom /\ job.peer

SaysGone(job) == \/ job.kind = "peerLeft"
                 \/ job.kind = "joined" /\ job.room = PeerRoom /\ ~job.peer

(* A room the server has let the link into is known, or about to be.       *)
JoinsInv ==
    \A r \in memberOf :
        \/ r \in joined
        \/ \E i \in DOMAIN jobs : jobs[i].kind = "joined" /\ jobs[i].room = r

(* A peer that is there is known, or about to be, and whatever an earlier  *)
(* connection has left in the queue does not have the last word.           *)
RosterInv ==
    peerIn /\ PeerRoom \in memberOf =>
        /\ peerHere \/ \E i \in DOMAIN jobs : SaysHere(jobs[i])
        /\ \A i \in DOMAIN jobs :
             SaysGone(jobs[i]) => \E j \in DOMAIN jobs : j > i /\ SaysHere(jobs[j])

(* The manager does not wait with everything it waits for.                 *)
MetInv ==
    state \in {"joiningRooms", "waitingForPeer"} => ~(peerHere /\ joined = Rooms)

PeerInv == JoinsInv /\ RosterInv /\ MetInv

(* A job is posted that does not deny the peer.                            *)
LEMMA PostKeeps ==
    ASSUME TypeOK, JoinsInv, RosterInv, UNCHANGED <<joined, peerHere, memberOf, peerIn>>,
           NEW job, jobs' = Posted(job), ~SaysGone(job)
    PROVE  JoinsInv' /\ RosterInv'
<1>1. /\ DOMAIN jobs' = DOMAIN jobs \cup {Len(jobs) + 1}
      /\ \A i \in DOMAIN jobs : jobs'[i] = jobs[i]
      /\ jobs'[Len(jobs) + 1] = job
  BY AfterPost
<1>2. JoinsInv'
  BY <1>1 DEF JoinsInv
<1>3. RosterInv'
  BY <1>1 DEF RosterInv, SaysHere, SaysGone
<1>4. QED
  BY <1>2, <1>3

(* The first job is taken for what it says.                                *)
LEMMA TakeKeeps ==
    ASSUME TypeOK, JoinsInv, RosterInv, UNCHANGED <<memberOf, peerIn>>,
           jobs # <<>>, jobs' = Tail(jobs), joined \subseteq joined',
           Head(jobs).kind = "joined" => Head(jobs).room \in joined',
           SaysHere(Head(jobs)) => peerHere',
           SaysHere(Head(jobs)) \/ SaysGone(Head(jobs)) \/ peerHere' = peerHere
    PROVE  JoinsInv' /\ RosterInv'
<1>1. /\ \A i \in DOMAIN jobs :
           \/ i = 1 /\ jobs[i] = Head(jobs)
           \/ i - 1 \in DOMAIN jobs' /\ jobs'[i - 1] = jobs[i]
      /\ \A i \in DOMAIN jobs' : i \in Nat /\ i + 1 \in DOMAIN jobs /\ jobs'[i] = jobs[i + 1]
      /\ \A i \in DOMAIN jobs : i \in Nat
  BY AfterTake
<1>2. JoinsInv'
  <2>1. ASSUME NEW r \in memberOf, r \notin joined'
        PROVE  \E i \in DOMAIN jobs' : jobs'[i].kind = "joined" /\ jobs'[i].room = r
    <3>1. PICK i \in DOMAIN jobs : jobs[i].kind = "joined" /\ jobs[i].room = r
      BY <2>1 DEF JoinsInv
    <3>2. QED
      BY <1>1, <2>1, <3>1
  <2>2. QED
    BY <2>1 DEF JoinsInv
<1>3. ASSUME peerIn, PeerRoom \in memberOf
      PROVE  /\ peerHere' \/ \E i \in DOMAIN jobs' : SaysHere(jobs'[i])
             /\ \A i \in DOMAIN jobs' :
                  SaysGone(jobs'[i]) => \E j \in DOMAIN jobs' : j > i /\ SaysHere(jobs'[j])
  <2>1. ASSUME NEW i \in DOMAIN jobs, SaysHere(jobs[i]), i # 1
        PROVE  \E j \in DOMAIN jobs' : j = i - 1 /\ SaysHere(jobs'[j])
    <3>1. i - 1 \in DOMAIN jobs' /\ jobs'[i - 1] = jobs[i]
      BY <1>1, <2>1
    <3>2. QED
      BY <2>1, <3>1
  <2>2. ASSUME NEW i \in DOMAIN jobs', SaysGone(jobs'[i])
        PROVE  \E j \in DOMAIN jobs' : j > i /\ SaysHere(jobs'[j])
    <3>1. i \in Nat /\ i + 1 \in DOMAIN jobs /\ SaysGone(jobs[i + 1])
      BY <1>1, <2>2
    <3>2. PICK j \in DOMAIN jobs : j > i + 1 /\ SaysHere(jobs[j])
      BY <1>3, <3>1 DEF RosterInv
    <3>3. j \in Nat
      BY <1>1
    <3>4. j # 1 /\ j - 1 > i
      BY <3>1, <3>2, <3>3
    <3>5. QED
      BY <2>1, <3>2, <3>4
  <2>3. CASE SaysHere(Head(jobs))
    BY <2>2, <2>3
  <2>4. CASE SaysGone(Head(jobs))
    <3>1. 1 \in DOMAIN jobs /\ jobs[1] = Head(jobs)
      BY DEF TypeOK
    <3>2. PICK j \in DOMAIN jobs : j > 1 /\ SaysHere(jobs[j])
      BY <1>3, <2>4, <3>1 DEF RosterInv
    <3>3. QED
      BY <2>1, <2>2, <3>2
  <2>5. CASE ~SaysHere(Head(jobs)) /\ peerHere' = peerHere
    <3>1. CASE peerHere
      BY <2>2, <2>5, <3>1
    <3>2. CASE ~peerHere
      <4>1. PICK i \in DOMAIN jobs : SaysHere(jobs[i])
        BY <1>3, <3>2 DEF RosterInv
      <4>2. i # 1
        BY <1>1, <2>5, <4>1
      <4>3. QED
        BY <2>1, <2>2, <4>1, <4>2
    <3>3. QED
      BY <3>1, <3>2
  <2>6. QED
    BY <2>3, <2>4, <2>5
<1>4. RosterInv'
  BY <1>3 DEF RosterInv
<1>5. QED
  BY <1>2, <1>4

(* Without a room there is nothing to know.                                *)
LEMMA NoRooms ==
    ASSUME memberOf' = {}
    PROVE  JoinsInv' /\ RosterInv'
BY DEF JoinsInv, RosterInv

(* A connection that ends is in no room, nor is a manager without one.     *)
LEMMA RoomsGone ==
    ASSUME LinkInv, fail \/ disconnect("idle") \/ (signaling = 0 /\ UNCHANGED memberOf)
    PROVE  memberOf' = {}
BY Ends DEF LinkInv, isActive

(* A manager that is not active, or has just ended a connection, does not  *)
(* wait at all, and one that goes on knowing what it knew is where it was. *)
LEMMA StillMet ==
    ASSUME MetInv, \/ fail \/ disconnect("idle")
                   \/ state' \in {"idle", "negotiating", "ready", "failed"}
                   \/ UNCHANGED <<state, joined, peerHere>>
    PROVE  MetInv'
<1>1. CASE fail \/ disconnect("idle")
  BY <1>1, Ends DEF MetInv, connection
<1>2. CASE state' \in {"idle", "negotiating", "ready", "failed"}
  BY <1>2 DEF MetInv
<1>3. CASE UNCHANGED <<state, joined, peerHere>>
  BY <1>3 DEF MetInv
<1>4. QED
  BY <1>1, <1>2, <1>3

(* The jobs on the main actor do not overlook the peer.                    *)
LEMMA JobPeer == TypeOK /\ LinkInv /\ PeerInv /\ HandleJob => PeerInv'
<1> SUFFICES ASSUME TypeOK, LinkInv, PeerInv, HandleJob
             PROVE  PeerInv'
  OBVIOUS
<1> USE DEF PeerInv
<1>1. PICK job : /\ job = Head(jobs)
                 /\ \/ HandleNothing(job)
                    \/ signaling # 0 /\ HandleRoster(job)
                    \/ signaling # 0 /\ HandlePeerLeft(job)
                    \/ signaling # 0 /\ HandleAnswer(job)
                    \/ signaling # 0 /\ HandleDescription(job)
                    \/ HandleEnd(job) \/ HandleOpened(job)
  BY JobCases
<1>2. jobs # <<>> /\ jobs' = Tail(jobs) /\ UNCHANGED peerIn
  BY DEF HandleJob
<1>3. CASE fail
  BY <1>3, RoomsGone, NoRooms, StillMet
<1>4. CASE HandleNothing(job)
  <2>1. signaling = 0 /\ UNCHANGED <<state, joined, peerHere, memberOf>>
    BY <1>4 DEF HandleNothing, connection
  <2>2. QED
    BY <2>1, RoomsGone, NoRooms, StillMet
<1>5. CASE HandleRoster(job)
  <2>1. /\ job.kind \in {"joined", "peerJoined"} /\ UNCHANGED memberOf
        /\ joined' = IF job.kind = "joined" THEN joined \cup {job.room} ELSE joined
        /\ peerHere' = IF job.kind = "peerJoined" THEN TRUE
                       ELSE IF job.room = PeerRoom THEN job.peer ELSE peerHere
    BY <1>5 DEF HandleRoster
  <2>2. JoinsInv' /\ RosterInv'
    <3>1. joined \subseteq joined' /\ (job.kind = "joined" => job.room \in joined')
      BY <2>1
    <3>2. SaysHere(job) => peerHere'
      BY <2>1 DEF SaysHere
    <3>3. SaysHere(job) \/ SaysGone(job) \/ peerHere' = peerHere
      BY <2>1 DEF SaysHere, SaysGone
    <3>4. QED
      BY <1>1, <1>2, <2>1, <3>1, <3>2, <3>3, TakeKeeps
  <2>3. MetInv'
    <3>1. advanceIfPossible
      BY <1>5, <2>1 DEF HandleRoster, LooksForPeer
    <3>2. CASE MayAdvance
      BY <3>1, <3>2 DEF advanceIfPossible, MetInv
    <3>3. CASE ~MayAdvance
      BY <3>1, <3>3 DEF advanceIfPossible, MayAdvance, MetInv
    <3>4. QED
      BY <3>2, <3>3
  <2>4. QED
    BY <2>2, <2>3
<1>6. ASSUME HandlePeerLeft(job), state # "ready"
      PROVE  PeerInv'
  <2>1. job.kind = "peerLeft" /\ peerHere' = FALSE /\ UNCHANGED <<state, joined, memberOf>>
    BY <1>6 DEF HandlePeerLeft
  <2>2. JoinsInv' /\ RosterInv'
    BY <1>1, <1>2, <2>1, TakeKeeps DEF SaysHere, SaysGone
  <2>3. MetInv'
    BY <2>1 DEF MetInv
  <2>4. QED
    BY <2>2, <2>3
<1>7. CASE HandleAnswer(job) \/ HandleDescription(job) \/ HandleOpened(job)
  <2>1. /\ job.kind \in {"accept", "reject", "answer", "opened"}
        /\ UNCHANGED <<joined, peerHere, memberOf>> /\ (state' = state \/ state' = "ready")
    BY <1>7 DEF HandleAnswer, HandleDescription, HandleOpened, AfterOpen, connection
  <2>2. JoinsInv' /\ RosterInv'
    BY <1>1, <1>2, <2>1, TakeKeeps DEF SaysHere, SaysGone
  <2>3. MetInv'
    BY <2>1, StillMet
  <2>4. QED
    BY <2>2, <2>3
<1>8. QED
  BY <1>1, <1>3, <1>4, <1>5, <1>6, <1>7 DEF HandleEnd, HandlePeerLeft

(* What the server and the peer do is posted, where the app is to know it. *)
LEMMA ServerPeer ==
    ASSUME TypeOK, LinkInv, PeerInv, LinkLost \/ PeerMoves \/ \E r \in Rooms : ServerJoins(r)
    PROVE  PeerInv'
<1> USE DEF PeerInv
<1>1. UNCHANGED <<state, joined, peerHere>>
  BY DEF LinkLost, PeerMoves, ServerJoins, connection
<1>2. MetInv'
  BY <1>1, StillMet
<1>3. CASE LinkLost
  BY <1>2, <1>3, NoRooms DEF LinkLost
<1>4. CASE PeerMoves
  <2>1. UNCHANGED <<up, memberOf>> /\ peerIn' = ~peerIn
    BY <1>4 DEF PeerMoves
  <2>2. CASE up /\ PeerRoom \in memberOf
    <3>1. jobs' = Posted([kind |-> IF peerIn THEN "peerLeft" ELSE "peerJoined"])
      BY <1>4, <2>2 DEF PeerMoves
    <3>2. /\ DOMAIN jobs' = DOMAIN jobs \cup {Len(jobs) + 1}
          /\ \A i \in DOMAIN jobs : i \in Nat /\ i < Len(jobs) + 1
          /\ \A i \in DOMAIN jobs : jobs'[i] = jobs[i]
          /\ jobs'[Len(jobs) + 1] = [kind |-> IF peerIn THEN "peerLeft" ELSE "peerJoined"]
      BY <3>1, AfterPost
    <3>3. JoinsInv'
      BY <1>1, <2>1, <3>2 DEF JoinsInv
    <3>4. CASE peerIn
      BY <1>2, <2>1, <3>3, <3>4 DEF RosterInv
    <3>5. CASE ~peerIn
      <4>1. Len(jobs) + 1 \in DOMAIN jobs' /\ SaysHere(jobs'[Len(jobs) + 1])
            /\ ~SaysGone(jobs'[Len(jobs) + 1])
        <5>1. jobs'[Len(jobs) + 1].kind = "peerJoined"
          BY <3>2, <3>5
        <5>2. QED
          BY <3>2, <5>1 DEF SaysHere, SaysGone
      <4>2. \A i \in DOMAIN jobs' : SaysGone(jobs'[i]) => Len(jobs) + 1 > i
        BY <3>2, <4>1 DEF TypeOK
      <4>3. RosterInv'
        BY <4>1, <4>2 DEF RosterInv
      <4>4. QED
        BY <1>2, <3>3, <4>3
    <3>6. QED
      BY <3>4, <3>5
  <2>3. CASE ~(up /\ PeerRoom \in memberOf)
    <3>1. jobs' = jobs /\ PeerRoom \notin memberOf'
      BY <1>4, <2>1, <2>3 DEF PeerMoves, LinkInv
    <3>2. QED
      BY <1>1, <1>2, <2>1, <3>1 DEF JoinsInv, RosterInv
  <2>4. QED
    BY <2>2, <2>3
<1>5. ASSUME NEW r \in Rooms, ServerJoins(r)
      PROVE  PeerInv'
  <2> DEFINE job == [kind |-> "joined", room |-> r, peer |-> peerIn /\ r = PeerRoom]
  <2>1. memberOf' = memberOf \cup {r} /\ jobs' = Posted(job) /\ UNCHANGED peerIn
    BY <1>5 DEF ServerJoins
  <2>2. job.kind = "joined" /\ job.room = r /\ job.peer = (peerIn /\ r = PeerRoom)
    OBVIOUS
  <2> HIDE DEF job
  <2>3. /\ DOMAIN jobs' = DOMAIN jobs \cup {Len(jobs) + 1}
        /\ \A i \in DOMAIN jobs : i \in Nat /\ i < Len(jobs) + 1
        /\ \A i \in DOMAIN jobs : jobs'[i] = jobs[i]
        /\ jobs'[Len(jobs) + 1] = job
    BY <2>1, AfterPost
  <2>4. JoinsInv'
    BY <1>1, <2>1, <2>2, <2>3 DEF JoinsInv
  <2>5. CASE r = PeerRoom
    <3>1. peerIn => SaysHere(job) /\ ~SaysGone(job)
      BY <2>2, <2>5 DEF SaysHere, SaysGone
    <3>2. peerIn => \A i \in DOMAIN jobs' : SaysGone(jobs'[i]) => Len(jobs) + 1 > i
      BY <2>3, <3>1
    <3>3. RosterInv'
      BY <2>1, <2>3, <3>1, <3>2 DEF RosterInv
    <3>4. QED
      BY <1>2, <2>4, <3>3
  <2>6. CASE r # PeerRoom
    <3>1. ~SaysHere(job) /\ ~SaysGone(job)
      BY <2>2, <2>6 DEF SaysHere, SaysGone
    <3>2. RosterInv'
      BY <1>1, <2>1, <2>3, <2>6, <3>1 DEF RosterInv
    <3>3. QED
      BY <1>2, <2>4, <3>2
  <2>7. QED
    BY <2>5, <2>6
<1>6. QED
  BY <1>3, <1>4, <1>5

(* Every step keeps the peer in view.                                      *)
LEMMA PeerStep ==
    TypeOK /\ LinkInv /\ QuietWhenInactive /\ PeerInv /\ [Next]_vars => PeerInv'
<1> SUFFICES ASSUME TypeOK, LinkInv, QuietWhenInactive, PeerInv, [Next]_vars
             PROVE  PeerInv'
  OBVIOUS
<1> USE DEF PeerInv
<1>1. CASE UNCHANGED <<connection, jobs, memberOf, peerIn>>
  <2>1. UNCHANGED <<state, joined, peerHere>>
    BY <1>1 DEF connection
  <2>2. QED
    BY <1>1, <2>1 DEF JoinsInv, RosterInv, MetInv
<1>2. CASE fail \/ disconnect("idle")
  BY <1>2, RoomsGone, NoRooms, StillMet
<1>3. CASE Connect
  <2>1. memberOf' = {}
    BY <1>3 DEF Connect, LinkInv
  <2>2. joined' = {} /\ PeerRoom \in Rooms
    BY <1>3, ConstantsAssumption DEF Connect, QuietWhenInactive
  <2>3. MetInv'
    BY <2>2 DEF MetInv
  <2>4. QED
    BY <2>1, <2>3, NoRooms
<1>4. CASE ConnectNowhere
  <2>1. memberOf' = {} /\ state' = "failed"
    BY <1>4 DEF ConnectNowhere, LinkInv, server
  <2>2. QED
    BY <2>1, NoRooms, StillMet
<1>5. ASSUME NEW u \in Uuids, PeerAnswers(u)
      PROVE  PeerInv'
  <2>1. PICK k \in {"accept", "reject"} : jobs' = Posted([kind |-> k, uuid |-> u])
    BY <1>5 DEF PeerAnswers
  <2>2. UNCHANGED <<state, joined, peerHere, memberOf, peerIn>>
    BY <1>5 DEF PeerAnswers, connection, server
  <2>3. QED
    BY <2>1, <2>2, PostKeeps, StillMet DEF SaysGone
<1>6. ASSUME NEW u \in Uuids, SendFile(u) \/ Resume(u) \/ SendChunks(u) \/ SendFails(u)
      PROVE  PeerInv'
  BY <1>1, <1>6 DEF SendFile, Resume, SendChunks, SendFails, server
<1>7. ASSUME NEW n \in Connections, RemoteAnswers(n) \/ SessionOpens(n) \/ SessionDown(n)
      PROVE  PeerInv'
  <2>1. PICK job \in {[kind |-> "opened"], [kind |-> "down"], [kind |-> "answer", of |-> n]} :
          jobs' = Posted(job)
    BY <1>7 DEF RemoteAnswers, SessionOpens, SessionDown
  <2>2. UNCHANGED <<state, joined, peerHere, memberOf, peerIn>>
    BY <1>7 DEF RemoteAnswers, SessionOpens, SessionDown, connection, server
  <2>3. QED
    BY <2>1, <2>2, PostKeeps, StillMet DEF SaysGone
<1>8. ASSUME NEW n \in Connections, Created(n) \/ OfferSent(n) \/ Drains(n)
      PROVE  PeerInv'
  <2>1. UNCHANGED <<state, joined, peerHere, jobs, memberOf, peerIn>>
    BY <1>8 DEF Created, OfferSent, Drains, connection, server
  <2>2. QED
    BY <2>1 DEF JoinsInv, RosterInv, MetInv
<1>9. ASSUME NEW n \in Connections, NegotiationFails(n) \/ TimerEnds(n)
      PROVE  PeerInv'
  BY <1>1, <1>2, <1>9 DEF NegotiationFails, TimerEnds
<1>10. CASE UNCHANGED vars
  BY <1>1, <1>10 DEF vars, server
<1>11. QED
  BY <1>2, <1>3, <1>4, <1>5, <1>6, <1>7, <1>8, <1>9, <1>10, StepCases, JobPeer, ServerPeer
     DEF Disconnect

(* The peer is not overlooked: with the joins and its arrival handled, in  *)
(* whatever order they came and with whatever earlier connections left in  *)
(* the queue, the app has gone on to the negotiation.                      *)
THEOREM PeerMet == Spec => []PeerIsMet
<1>1. Init => LinkInv /\ PeerInv
  BY DEF Init, LinkInv, PeerInv, JoinsInv, RosterInv, MetInv, isActive
<1>2. Spec => [](TypeOK /\ LinkInv /\ PeerInv)
  BY <1>1, TypeInvariant, InactiveIsQuiet, LinkStep, PeerStep, PTL DEF Spec
<1>3. TypeOK /\ LinkInv /\ PeerInv => PeerIsMet
  <2> SUFFICES ASSUME TypeOK, LinkInv, PeerInv,
                      up, memberOf = Rooms, peerIn, jobs = <<>>,
                      state \notin {"negotiating", "ready"}
               PROVE  FALSE
    BY DEF PeerIsMet
  <2>1. DOMAIN jobs = {}
    OBVIOUS
  <2>2. joined = Rooms
    BY <2>1 DEF PeerInv, JoinsInv, TypeOK
  <2>3. peerHere
    BY <2>1, ConstantsAssumption DEF PeerInv, RosterInv
  <2>4. state \in {"joiningRooms", "waitingForPeer"}
    BY DEF LinkInv, isActive, TypeOK
  <2>5. QED
    BY <2>2, <2>3, <2>4 DEF PeerInv, MetInv
<1>4. QED
  BY <1>2, <1>3, PTL

----------------------------------------------------------------------------
(* Everything the server has to say of the joins of this connection has    *)
(* been posted.                                                             *)
AllJoined == memberOf = Rooms \/ ~up

(* The answer to the offer of the session in use stands behind all the     *)
(* joins of its connection, so that none is left when the session has it.  *)
AnsweredInv ==
    /\ \A i \in DOMAIN jobs : jobs[i].kind = "answer" =>
         /\ neg[jobs[i].of] \in {"waiting", "over"}
         /\ session = jobs[i].of =>
              AllJoined /\ \A k \in DOMAIN jobs : k > i => jobs[k].kind # "joined"
    /\ \A n \in Connections : sess[n] = "answered" =>
         AllJoined /\ \A i \in DOMAIN jobs : jobs[i].kind # "joined"

(* No join stands before an opening.  So one that comes late is handled    *)
(* while its session is still in use, or before the next connection has    *)
(* joined anything.                                                         *)
OpenedInv ==
    \A i \in DOMAIN jobs : jobs[i].kind = "opened" =>
        /\ joined = {} \/ (session # 0 /\ sess[session] \in {"open", "down"})
        /\ \A k \in DOMAIN jobs : k < i => jobs[k].kind # "joined"

(* The manager goes past waiting only with its rooms, and is ready only    *)
(* with a session that has opened.                                         *)
StateInv ==
    /\ state \in {"negotiating", "ready"} => joined = Rooms
    /\ state = "ready" => session # 0 /\ sess[session] \in {"open", "down"}

(* An answer names a negotiation, which is not nil.                        *)
LEMMA AnswerNames ==
    ASSUME TypeOK, NEW i \in DOMAIN jobs, jobs[i].kind = "answer"
    PROVE  jobs[i].of \in Connections /\ jobs[i].of # 0
<1>1. jobs[i] \in Job
  BY DEF TypeOK
<1>2. QED
  BY <1>1 DEF Job, Connections

(* A step that posts neither a join nor an answer, takes no session that   *)
(* had an offer out, and answers none.                                     *)
LEMMA AnsweredKept ==
    ASSUME TypeOK, AnsweredInv,
           \/ jobs' = jobs
           \/ \E job : jobs' = Posted(job) /\ job.kind \notin {"joined", "answer"}
           \/ jobs # <<>> /\ jobs' = Tail(jobs),
           \A n \in Connections : neg[n] \in {"waiting", "over"} => neg'[n] \in {"waiting", "over"},
           session' # 0 =>
             /\ session' = session \/ neg[session'] = "creating"
             /\ AllJoined => AllJoined',
           \A n \in Connections : sess'[n] = "answered" => sess[n] = "answered" /\ session' # 0
    PROVE  AnsweredInv'
<1> DEFINE WasBehind(i) ==
      \/ jobs'[i].kind \notin {"joined", "answer"}
      \/ \E j \in DOMAIN jobs :
           /\ jobs'[i] = jobs[j]
           /\ \A k \in DOMAIN jobs' : k > i =>
                \/ jobs'[k].kind \notin {"joined", "answer"}
                \/ \E l \in DOMAIN jobs : l > j /\ jobs'[k] = jobs[l]
<1>1. ASSUME NEW i \in DOMAIN jobs'
      PROVE  WasBehind(i)
  <2>1. CASE jobs' = jobs
    BY <1>1, <2>1
  <2>2. ASSUME NEW job, jobs' = Posted(job), job.kind \notin {"joined", "answer"}
        PROVE  WasBehind(i)
    BY <1>1, <2>2, AfterPost
  <2>3. CASE jobs # <<>> /\ jobs' = Tail(jobs)
    <3>1. \A k \in DOMAIN jobs' : k \in Nat /\ k + 1 \in DOMAIN jobs /\ jobs'[k] = jobs[k + 1]
      BY <2>3, AfterTake
    <3>2. \A k \in DOMAIN jobs' : k > i => k + 1 > i + 1
      BY <1>1, <3>1
    <3>3. QED
      BY <1>1, <3>1, <3>2
  <2>4. QED
    BY <2>1, <2>2, <2>3
<1>2. ASSUME NEW i \in DOMAIN jobs', jobs'[i].kind = "answer"
      PROVE  /\ neg'[jobs'[i].of] \in {"waiting", "over"}
             /\ session' = jobs'[i].of =>
                  AllJoined' /\ \A k \in DOMAIN jobs' : k > i => jobs'[k].kind # "joined"
  <2>1. PICK j \in DOMAIN jobs :
          /\ jobs'[i] = jobs[j]
          /\ \A k \in DOMAIN jobs' : k > i =>
               \/ jobs'[k].kind \notin {"joined", "answer"}
               \/ \E l \in DOMAIN jobs : l > j /\ jobs'[k] = jobs[l]
    BY <1>1, <1>2
  <2>2. /\ jobs[j].of \in Connections /\ jobs[j].of # 0
        /\ neg[jobs[j].of] \in {"waiting", "over"}
        /\ session = jobs[j].of =>
             AllJoined /\ \A k \in DOMAIN jobs : k > j => jobs[k].kind # "joined"
    BY <1>2, <2>1, AnswerNames DEF AnsweredInv
  <2>3. QED
    BY <2>1, <2>2
<1>3. ASSUME NEW n \in Connections, sess'[n] = "answered"
      PROVE  AllJoined' /\ \A i \in DOMAIN jobs' : jobs'[i].kind # "joined"
  <2>1. AllJoined' /\ \A i \in DOMAIN jobs : jobs[i].kind # "joined"
    BY <1>3 DEF AnsweredInv
  <2>2. QED
    BY <1>1, <2>1
<1>4. QED
  BY <1>2, <1>3 DEF AnsweredInv

(* A connection that has not gone on to its negotiation has none, and      *)
(* neither has one to come: each starts one at most.                       *)
NegInv ==
    /\ \A n \in Connections : n > connects => neg[n] = "none"
    /\ state \in {"joiningRooms", "waitingForPeer"} => neg[signaling] = "none"

(* Every step starts a negotiation only where there was none.              *)
LEMMA NegStep == TypeOK /\ LinkInv /\ NegInv /\ [Next]_vars => NegInv'
<1> SUFFICES ASSUME TypeOK, LinkInv, NegInv, [Next]_vars
             PROVE  NegInv'
  OBVIOUS
<1>1. CASE UNCHANGED <<state, signaling, connects, neg>>
  BY <1>1 DEF NegInv
<1>2. CASE UNCHANGED <<connects, neg>> /\ state' \notin {"joiningRooms", "waitingForPeer"}
  BY <1>2 DEF NegInv
<1>3. ASSUME fail \/ disconnect("idle")
      PROVE  state' \in {"idle", "failed"}
  BY <1>3, Ends DEF connection
<1>4. CASE Connect
  <2>1. /\ connects' = connects + 1 /\ signaling' = connects + 1 /\ neg' = neg
        /\ connects < MaxConnects /\ connects \in Nat
    BY <1>4 DEF Connect, TypeOK
  <2>2. \A n \in Connections : n \in Nat
    BY DEF Connections
  <2>3. connects + 1 \in Connections /\ connects + 1 > connects
    BY <2>1, ConstantsAssumption DEF Connections
  <2>4. QED
    BY <2>1, <2>2, <2>3 DEF NegInv
<1>5. CASE ConnectNowhere \/ Disconnect
  BY <1>2, <1>3, <1>5 DEF ConnectNowhere, Disconnect
<1>6. ASSUME NEW job, signaling # 0, HandleRoster(job), UNCHANGED connects
      PROVE  NegInv'
  <2>1. CASE UNCHANGED <<state, neg>>
    BY <1>1, <1>6, <2>1 DEF HandleRoster
  <2>2. CASE /\ state' = "waitingForPeer" /\ neg' = neg /\ MayAdvance
    <3>1. isActive /\ state \notin {"negotiating", "ready"} /\ signaling' = signaling
      BY <1>6, <2>2 DEF LinkInv, MayAdvance, HandleRoster
    <3>2. QED
      BY <1>6, <2>2, <3>1 DEF NegInv, isActive, TypeOK
  <2>3. CASE state' = "negotiating" /\ neg' = [neg EXCEPT ![signaling] = "creating"]
    <3>1. connects \in Nat /\ signaling = connects /\ \A n \in Connections : n \in Nat
      BY <1>6 DEF LinkInv, TypeOK, Connections
    <3>2. \A n \in Connections : n > connects => neg'[n] = neg[n]
      BY <2>3, <3>1 DEF TypeOK
    <3>3. QED
      BY <1>6, <2>3, <3>2 DEF NegInv
  <2>4. QED
    BY <1>6, <2>1, <2>2, <2>3 DEF HandleRoster, advanceIfPossible
<1>7. CASE HandleJob
  <2>1. PICK job : \/ HandleNothing(job)
                   \/ signaling # 0 /\ HandleRoster(job)
                   \/ signaling # 0 /\ HandlePeerLeft(job)
                   \/ signaling # 0 /\ HandleAnswer(job)
                   \/ signaling # 0 /\ HandleDescription(job)
                   \/ HandleEnd(job) \/ HandleOpened(job)
    BY <1>7, JobCases
  <2>2. UNCHANGED connects
    BY <1>7 DEF HandleJob
  <2>3. CASE HandleOpened(job)
    BY <1>1, <1>2, <2>2, <2>3 DEF HandleOpened, AfterOpen
  <2>4. CASE HandleNothing(job) \/ HandlePeerLeft(job) \/ HandleAnswer(job)
             \/ HandleDescription(job) \/ HandleEnd(job)
    BY <1>1, <1>2, <1>3, <2>2, <2>4
       DEF HandleNothing, HandlePeerLeft, HandleAnswer, HandleDescription, HandleEnd, connection
  <2>5. QED
    BY <1>6, <2>1, <2>2, <2>3, <2>4
<1>8. ASSUME NEW n \in Connections, NEW p, neg[n] # "none", neg' = [neg EXCEPT ![n] = p],
             UNCHANGED connects,
             UNCHANGED <<state, signaling>> \/ state' \in {"idle", "failed"}
      PROVE  NegInv'
  <2>1. \A k \in Connections \ {n} : neg'[k] = neg[k]
    BY <1>8 DEF TypeOK
  <2>2. state \in {"joiningRooms", "waitingForPeer"} => neg'[signaling] = neg[signaling]
    BY <1>8 DEF NegInv, TypeOK
  <2>3. QED
    BY <1>8, <2>1, <2>2 DEF NegInv
<1>9. ASSUME NEW n \in Connections, Negotiation(n)
      PROVE  NegInv'
  <2>1. \E p : neg' = [neg EXCEPT ![n] = p]
    BY <1>9 DEF Negotiation, Created, NegotiationFails, OfferSent, TimerEnds
  <2>2. neg[n] # "none" /\ UNCHANGED connects
    BY <1>9 DEF Negotiation, Created, NegotiationFails, OfferSent, TimerEnds
  <2>3. UNCHANGED <<state, signaling>> \/ state' \in {"idle", "failed"}
    BY <1>3, <1>9
       DEF Negotiation, Created, NegotiationFails, OfferSent, TimerEnds, connection
  <2>4. QED
    BY <1>8, <2>1, <2>2, <2>3
<1>10. QED
  BY <1>1, <1>4, <1>5, <1>7, <1>9, StepCases
     DEF LinkLost, PeerMoves, ServerJoins, SendFile, PeerAnswers, Resume, SendChunks, SendFails,
         RemoteAnswers, SessionOpens, SessionDown, Drains, Negotiation, connection, vars

(* When a connection ends, no session is left that has an answer.          *)
LEMMA AnsweredEnds ==
    ASSUME TypeOK, NoSessionLeaks, ChannelInv, fail \/ disconnect("idle")
    PROVE  session' = 0 /\ \A n \in Connections : sess'[n] # "answered"
<1>1. session' = 0
  BY ChannelGone
<1>2. ASSUME session = 0, sess' = sess
      PROVE  \A n \in Connections : sess'[n] # "answered"
  BY <1>2 DEF NoSessionLeaks, Running, Connections
<1>3. ASSUME NEW s, disconnect(s)
      PROVE  \A n \in Connections : sess'[n] # "answered"
  BY <1>2, <1>3 DEF disconnect, NoSessionLeaks, Running, TypeOK
<1>4. CASE state = "idle" /\ fail
  <2>1. session' = session /\ sess' = sess
    BY <1>4 DEF fail, connection
  <2>2. QED
    BY <1>1, <1>2, <2>1
<1>5. QED
  BY <1>1, <1>3, <1>4 DEF fail

(* The answer is handled behind the joins of its connection.               *)
LEMMA JobAnswered ==
    ASSUME TypeOK, LinkInv, NegInv, ChannelInv, NoSessionLeaks, AnsweredInv, HandleJob
    PROVE  AnsweredInv'
<1>1. PICK job : /\ job = Head(jobs)
                 /\ \/ HandleNothing(job)
                    \/ signaling # 0 /\ HandleRoster(job)
                    \/ signaling # 0 /\ HandlePeerLeft(job)
                    \/ signaling # 0 /\ HandleAnswer(job)
                    \/ signaling # 0 /\ HandleDescription(job)
                    \/ HandleEnd(job) \/ HandleOpened(job)
  BY JobCases
<1>2. jobs # <<>> /\ jobs' = Tail(jobs)
  BY DEF HandleJob
<1>3. session = 0 => \A n \in Connections : sess[n] # "answered"
  BY DEF NoSessionLeaks, Running, Connections
<1>4. CASE fail /\ UNCHANGED neg
  BY <1>2, <1>4, AnsweredEnds, AnsweredKept
<1>5. CASE UNCHANGED <<session, sess, neg, up, memberOf>>
  BY <1>2, <1>3, <1>5, AnsweredKept DEF AllJoined
<1>6. CASE signaling # 0 /\ HandleRoster(job)
  <2>1. UNCHANGED <<session, sess, up, memberOf>>
    BY <1>6 DEF HandleRoster
  <2>2. \A n \in Connections : neg[n] \in {"waiting", "over"} => neg'[n] \in {"waiting", "over"}
    <3>1. CASE UNCHANGED neg
      BY <3>1
    <3>2. CASE MayAdvance /\ neg' = [neg EXCEPT ![signaling] = "creating"]
      <4>1. neg[signaling] = "none"
        BY <1>6, <3>2 DEF MayAdvance, LinkInv, NegInv, isActive, TypeOK
      <4>2. QED
        BY <3>2, <4>1 DEF TypeOK
    <3>3. QED
      BY <1>6, <3>1, <3>2 DEF HandleRoster, advanceIfPossible
  <2>3. QED
    BY <1>2, <1>3, <2>1, <2>2, AnsweredKept DEF AllJoined
<1>7. CASE HandleDescription(job)
  <2>1. UNCHANGED <<session, neg, up, memberOf>> /\ job.kind = "answer"
    BY <1>7 DEF HandleDescription, connection
  <2>2. CASE \A n \in Connections : sess'[n] = "answered" => sess[n] = "answered"
    BY <1>2, <1>3, <2>1, <2>2, AnsweredKept DEF AllJoined
  <2>3. ASSUME NEW n \in Connections, sess'[n] = "answered", sess[n] # "answered"
        PROVE  AnsweredInv'
    <3>1. /\ session # 0 /\ n = session /\ job.of = session
          /\ sess' = [sess EXCEPT ![session] = "answered"]
      BY <1>7, <2>3 DEF HandleDescription, TypeOK
    <3>2. 1 \in DOMAIN jobs /\ jobs[1] = job
      BY <1>1, <1>2 DEF TypeOK
    <3>3. AllJoined /\ \A k \in DOMAIN jobs : k > 1 => jobs[k].kind # "joined"
      BY <2>1, <3>1, <3>2 DEF AnsweredInv
    <3>4. \A i \in DOMAIN jobs' : i \in Nat /\ i + 1 \in DOMAIN jobs /\ jobs'[i] = jobs[i + 1]
      BY <1>2, AfterTake
    <3>5. \A i \in DOMAIN jobs' : i + 1 > 1 /\ i >= 1
      BY <1>2, <3>4 DEF TypeOK
    <3>6. AllJoined' /\ \A i \in DOMAIN jobs' : jobs'[i].kind # "joined"
      BY <2>1, <3>3, <3>4, <3>5 DEF AllJoined
    <3>7. \A i \in DOMAIN jobs' :
            jobs'[i].kind = "answer" => neg'[jobs'[i].of] \in {"waiting", "over"}
      BY <2>1, <3>4 DEF AnsweredInv
    <3>8. QED
      BY <3>6, <3>7 DEF AnsweredInv
  <2>4. QED
    BY <2>2, <2>3
<1>8. CASE HandleNothing(job) \/ HandleAnswer(job) \/ HandleOpened(job)
  BY <1>5, <1>8 DEF HandleNothing, HandleAnswer, HandleOpened, connection
<1>9. CASE HandlePeerLeft(job) \/ HandleEnd(job)
  BY <1>4, <1>5, <1>9 DEF HandlePeerLeft, HandleEnd
<1>10. QED
  BY <1>1, <1>6, <1>7, <1>8, <1>9

(* Every step keeps the answers behind the joins.                          *)
LEMMA AnsweredStep ==
    TypeOK /\ LinkInv /\ NegInv /\ QuietWhenInactive /\ ChannelInv /\ NoSessionLeaks
        /\ AnsweredInv /\ [Next]_vars => AnsweredInv'
<1> SUFFICES ASSUME TypeOK, LinkInv, NegInv, QuietWhenInactive, ChannelInv, NoSessionLeaks,
                    AnsweredInv, [Next]_vars
             PROVE  AnsweredInv'
  OBVIOUS
<1>1. session = 0 => \A n \in Connections : sess[n] # "answered"
  BY DEF NoSessionLeaks, Running, Connections
<1>2. CASE Connect \/ ConnectNowhere
  <2>1. session' = 0 /\ UNCHANGED <<sess, neg, jobs>>
    BY <1>2, ChannelGone DEF Connect, ConnectNowhere
  <2>2. session = 0
    BY <1>2 DEF Connect, ConnectNowhere, QuietWhenInactive
  <2>3. QED
    BY <1>1, <2>1, <2>2, AnsweredKept
<1>3. ASSUME fail \/ disconnect("idle"), jobs' = jobs,
             \A n \in Connections : neg[n] \in {"waiting", "over"} => neg'[n] \in {"waiting", "over"}
      PROVE  AnsweredInv'
  BY <1>3, AnsweredEnds, AnsweredKept
<1>4. CASE Disconnect
  BY <1>3, <1>4 DEF Disconnect
<1>5. ASSUME UNCHANGED <<session, sess, neg>>, AllJoined => AllJoined',
             \/ jobs' = jobs
             \/ \E job : jobs' = Posted(job) /\ job.kind \notin {"joined", "answer"}
      PROVE  AnsweredInv'
  BY <1>1, <1>5, AnsweredKept
<1>6. CASE LinkLost
  <2>1. \E job : jobs' = Posted(job) /\ job.kind \notin {"joined", "answer"}
    BY <1>6 DEF LinkLost
  <2>2. QED
    BY <1>5, <1>6, <2>1 DEF LinkLost, AllJoined, connection
<1>7. CASE PeerMoves
  <2>1. jobs' = jobs \/ \E job : jobs' = Posted(job) /\ job.kind \notin {"joined", "answer"}
    <3>1. [kind |-> IF peerIn THEN "peerLeft" ELSE "peerJoined"].kind \notin {"joined", "answer"}
      OBVIOUS
    <3>2. QED
      BY <1>7, <3>1 DEF PeerMoves
  <2>2. QED
    BY <1>5, <1>7, <2>1 DEF PeerMoves, AllJoined, connection
<1>8. ASSUME NEW r \in Rooms, ServerJoins(r)
      PROVE  AnsweredInv'
  <2>1. ~AllJoined /\ UNCHANGED <<session, sess, neg>>
    BY <1>8 DEF ServerJoins, AllJoined, connection
  <2>2. PICK job : jobs' = Posted(job) /\ job.kind = "joined"
    BY <1>8 DEF ServerJoins
  <2>3. \A i \in DOMAIN jobs' : jobs'[i].kind = "answer" => i \in DOMAIN jobs /\ jobs'[i] = jobs[i]
    BY <2>2, AfterPost
  <2>4. QED
    BY <2>1, <2>3 DEF AnsweredInv
<1>9. ASSUME NEW u \in Uuids, PeerAnswers(u)
      PROVE  AnsweredInv'
  <2>1. PICK k \in {"accept", "reject"} : jobs' = Posted([kind |-> k, uuid |-> u])
    BY <1>9 DEF PeerAnswers
  <2>2. QED
    BY <1>5, <1>9, <2>1 DEF PeerAnswers, AllJoined, connection, server
<1>10. ASSUME NEW u \in Uuids, SendFile(u) \/ Resume(u) \/ SendChunks(u) \/ SendFails(u)
       PROVE  AnsweredInv'
  BY <1>5, <1>10
     DEF SendFile, Resume, SendChunks, SendFails, AllJoined, connection, server
<1>11. ASSUME NEW n \in Connections, Negotiation(n)
       PROVE  AnsweredInv'
  <2>1. \A k \in Connections : neg[k] \in {"waiting", "over"} => neg'[k] \in {"waiting", "over"}
    BY <1>11 DEF Negotiation, Created, NegotiationFails, OfferSent, TimerEnds, TypeOK
  <2>2. jobs' = jobs
    BY <1>11 DEF Negotiation, Created, NegotiationFails, OfferSent, TimerEnds
  <2>3. CASE fail
    BY <1>3, <2>1, <2>2, <2>3
  <2>4. CASE UNCHANGED <<session, sess, up, memberOf>>
    BY <1>1, <2>1, <2>2, <2>4, AnsweredKept DEF AllJoined
  <2>5. CASE Created(n)
    <3>1. UNCHANGED <<up, memberOf>> /\ neg[n] = "creating"
          /\ (session' = session \/ session' = n) /\ n # 0
      BY <2>5 DEF Created, server, Connections
    <3>2. \E s \in {"live", "closed"} : sess' = [sess EXCEPT ![n] = s]
      BY <2>5 DEF Created, Surplus
    <3>3. \A k \in Connections : sess'[k] = "answered" => sess[k] = "answered"
      BY <3>2 DEF TypeOK
    <3>4. QED
      BY <1>1, <2>1, <2>2, <3>1, <3>3, AnsweredKept DEF AllJoined
  <2>6. QED
    BY <1>11, <2>3, <2>4, <2>5
       DEF Negotiation, NegotiationFails, OfferSent, TimerEnds, connection, server
<1>12. ASSUME NEW n \in Connections, RemoteAnswers(n)
       PROVE  AnsweredInv'
  <2>1. UNCHANGED <<session, sess, neg, up, memberOf>> /\ AllJoined /\ neg[n] = "waiting"
    BY <1>12 DEF RemoteAnswers, AllJoined, connection, server
  <2>2. PICK job : jobs' = Posted(job) /\ job.kind = "answer" /\ job.of = n
    BY <1>12 DEF RemoteAnswers
  <2>3. /\ DOMAIN jobs' = DOMAIN jobs \cup {Len(jobs) + 1}
        /\ \A i \in DOMAIN jobs : i \in Nat /\ i < Len(jobs) + 1
        /\ \A i \in DOMAIN jobs : jobs'[i] = jobs[i]
        /\ jobs'[Len(jobs) + 1] = job
    BY <2>2, AfterPost
  <2>4. \A k \in DOMAIN jobs' : k > Len(jobs) + 1 => FALSE
    BY <2>3 DEF TypeOK
  <2>5. AllJoined'
    BY <2>1 DEF AllJoined
  <2>6. ASSUME NEW i \in DOMAIN jobs', jobs'[i].kind = "answer"
        PROVE  /\ neg'[jobs'[i].of] \in {"waiting", "over"}
               /\ session' = jobs'[i].of =>
                    \A k \in DOMAIN jobs' : k > i => jobs'[k].kind # "joined"
    BY <2>1, <2>2, <2>3, <2>4, <2>6 DEF AnsweredInv
  <2>7. ASSUME NEW m \in Connections, sess'[m] = "answered"
        PROVE  \A i \in DOMAIN jobs' : jobs'[i].kind # "joined"
    BY <2>1, <2>2, <2>3, <2>7 DEF AnsweredInv
  <2>8. QED
    BY <2>5, <2>6, <2>7 DEF AnsweredInv
<1>13. ASSUME NEW n \in Connections, SessionOpens(n) \/ SessionDown(n) \/ Drains(n)
       PROVE  AnsweredInv'
  <2>1. UNCHANGED <<session, neg, up, memberOf>>
    BY <1>13 DEF SessionOpens, SessionDown, Drains, connection, server
  <2>2. jobs' = jobs \/ \E job : jobs' = Posted(job) /\ job.kind \notin {"joined", "answer"}
    BY <1>13 DEF SessionOpens, SessionDown, Drains
  <2>3. \A k \in Connections : sess'[k] = "answered" => sess[k] = "answered"
    BY <1>13 DEF SessionOpens, SessionDown, Drains, TypeOK
  <2>4. QED
    BY <1>1, <2>1, <2>2, <2>3, AnsweredKept DEF AllJoined
<1>14. CASE UNCHANGED vars
  BY <1>5, <1>14 DEF vars, AllJoined, connection, server
<1>15. QED
  BY <1>2, <1>4, <1>6, <1>7, <1>8, <1>9, <1>10, <1>11, <1>12, <1>13, <1>14, StepCases, JobAnswered
     DEF Negotiation

(* A step that posts no opening and leaves the rooms as they are, or none, *)
(* and the session in use as far as it is open.                            *)
LEMMA OpenedKept ==
    ASSUME TypeOK, OpenedInv,
           \/ jobs' = jobs
           \/ \E job : jobs' = Posted(job) /\ job.kind # "opened"
           \/ jobs # <<>> /\ jobs' = Tail(jobs),
           \/ joined' = {}
           \/ /\ joined' = joined
              /\ session # 0 /\ sess[session] \in {"open", "down"} =>
                   session' # 0 /\ sess'[session'] \in {"open", "down"}
    PROVE  OpenedInv'
<1> DEFINE WasBefore(i) ==
      \E j \in DOMAIN jobs :
        /\ jobs'[i] = jobs[j]
        /\ \A k \in DOMAIN jobs' : k < i => \E l \in DOMAIN jobs : l < j /\ jobs'[k] = jobs[l]
<1>1. ASSUME NEW i \in DOMAIN jobs', jobs'[i].kind = "opened"
      PROVE  WasBefore(i)
  <2>1. CASE jobs' = jobs
    BY <1>1, <2>1
  <2>2. ASSUME NEW job, jobs' = Posted(job), job.kind # "opened"
        PROVE  WasBefore(i)
    <3>1. i \in DOMAIN jobs /\ i < Len(jobs) + 1
      BY <1>1, <2>2, AfterPost
    <3>2. \A k \in DOMAIN jobs' : k < i => k \in DOMAIN jobs
      BY <2>2, <3>1, AfterPost DEF TypeOK
    <3>3. QED
      BY <2>2, <3>1, <3>2, AfterPost
  <2>3. CASE jobs # <<>> /\ jobs' = Tail(jobs)
    <3>1. \A k \in DOMAIN jobs' : k \in Nat /\ k + 1 \in DOMAIN jobs /\ jobs'[k] = jobs[k + 1]
      BY <2>3, AfterTake
    <3>2. \A k \in DOMAIN jobs' : k < i => k + 1 < i + 1
      BY <1>1, <3>1
    <3>3. QED
      BY <1>1, <3>1, <3>2
  <2>4. QED
    BY <2>1, <2>2, <2>3
<1>2. QED
  BY <1>1 DEF OpenedInv

(* The jobs on the main actor leave no opening behind a join.              *)
LEMMA JobOpened ==
    ASSUME TypeOK, NoSessionLeaks, OpenedInv, HandleJob
    PROVE  OpenedInv'
<1>1. PICK job : /\ job = Head(jobs)
                 /\ \/ HandleNothing(job)
                    \/ signaling # 0 /\ HandleRoster(job)
                    \/ signaling # 0 /\ HandlePeerLeft(job)
                    \/ signaling # 0 /\ HandleAnswer(job)
                    \/ signaling # 0 /\ HandleDescription(job)
                    \/ HandleEnd(job) \/ HandleOpened(job)
  BY JobCases
<1>2. jobs # <<>> /\ jobs' = Tail(jobs)
  BY DEF HandleJob
<1>3. CASE UNCHANGED <<joined, session, sess>>
  BY <1>2, <1>3, OpenedKept
<1>4. CASE fail
  <2>1. joined' = {} \/ UNCHANGED <<joined, session, sess>>
    BY <1>4 DEF fail, disconnect, connection
  <2>2. QED
    BY <1>2, <1>3, <2>1, OpenedKept
<1>5. CASE HandleRoster(job)
  <2>1. UNCHANGED <<session, sess>> /\ (joined' = joined \/ job.kind = "joined")
    BY <1>5 DEF HandleRoster
  <2>2. CASE job.kind = "joined"
    <3>1. 1 \in DOMAIN jobs /\ jobs[1].kind = "joined"
      BY <1>1, <1>2, <2>2 DEF TypeOK
    <3>2. \A i \in DOMAIN jobs : i > 1 => jobs[i].kind # "opened"
      BY <3>1 DEF OpenedInv
    <3>3. \A i \in DOMAIN jobs' : i + 1 \in DOMAIN jobs /\ i + 1 > 1 /\ jobs'[i] = jobs[i + 1]
      BY <1>2, AfterTake DEF TypeOK
    <3>4. QED
      BY <3>2, <3>3 DEF OpenedInv
  <2>3. QED
    BY <1>3, <2>1, <2>2
<1>6. CASE HandleDescription(job)
  <2>1. UNCHANGED <<joined, session>>
    BY <1>6 DEF HandleDescription, connection
  <2>2. session # 0 /\ sess[session] \in {"open", "down"} => sess' = sess
    BY <1>6 DEF HandleDescription
  <2>3. QED
    BY <1>2, <2>1, <2>2, OpenedKept
<1>7. QED
  BY <1>1, <1>3, <1>4, <1>5, <1>6
     DEF HandleNothing, HandlePeerLeft, HandleAnswer, HandleEnd, HandleOpened, connection

(* Every step keeps the openings in front of the joins.                    *)
LEMMA OpenedStep ==
    TypeOK /\ QuietWhenInactive /\ ChannelInv /\ NoSessionLeaks /\ AnsweredInv /\ OpenedInv
        /\ [Next]_vars => OpenedInv'
<1> SUFFICES ASSUME TypeOK, QuietWhenInactive, ChannelInv, NoSessionLeaks, AnsweredInv,
                    OpenedInv, [Next]_vars
             PROVE  OpenedInv'
  OBVIOUS
<1>1. ASSUME UNCHANGED <<joined, session, sess>>,
             \/ jobs' = jobs
             \/ \E job : jobs' = Posted(job) /\ job.kind # "opened"
      PROVE  OpenedInv'
  BY <1>1, OpenedKept
<1>2. ASSUME fail \/ disconnect("idle"), jobs' = jobs
      PROVE  OpenedInv'
  <2>1. joined' = {} \/ UNCHANGED <<joined, session, sess>>
    BY <1>2 DEF fail, disconnect, connection
  <2>2. QED
    BY <1>1, <1>2, <2>1, OpenedKept
<1>3. CASE Button
  <2>1. Connect \/ ConnectNowhere => joined' = {} /\ jobs' = jobs
    BY DEF Connect, ConnectNowhere, QuietWhenInactive
  <2>2. QED
    BY <1>2, <1>3, <2>1, OpenedKept DEF Button, Disconnect
<1>4. CASE LinkLost \/ PeerMoves
  <2>1. UNCHANGED <<joined, session, sess>>
    BY <1>4 DEF LinkLost, PeerMoves, connection
  <2>2. jobs' = jobs \/ \E job : jobs' = Posted(job) /\ job.kind # "opened"
    <3>1. [kind |-> IF peerIn THEN "peerLeft" ELSE "peerJoined"].kind # "opened"
      OBVIOUS
    <3>2. [kind |-> "lost"].kind # "opened"
      OBVIOUS
    <3>3. QED
      BY <1>4, <3>1, <3>2 DEF LinkLost, PeerMoves
  <2>3. QED
    BY <1>1, <2>1, <2>2
<1>5. ASSUME NEW r \in Rooms, ServerJoins(r)
      PROVE  OpenedInv'
  <2>1. \E job : jobs' = Posted(job) /\ job.kind # "opened"
    BY <1>5 DEF ServerJoins
  <2>2. QED
    BY <1>1, <1>5, <2>1 DEF ServerJoins, connection
<1>6. ASSUME NEW u \in Uuids,
             SendFile(u) \/ PeerAnswers(u) \/ Resume(u) \/ SendChunks(u) \/ SendFails(u)
      PROVE  OpenedInv'
  <2>1. jobs' = jobs \/ \E k \in {"accept", "reject"} : jobs' = Posted([kind |-> k, uuid |-> u])
    BY <1>6 DEF SendFile, PeerAnswers, Resume, SendChunks, SendFails
  <2>2. \A k \in {"accept", "reject"} : [kind |-> k, uuid |-> u].kind # "opened"
    OBVIOUS
  <2>3. UNCHANGED <<joined, session, sess>>
    BY <1>6 DEF SendFile, PeerAnswers, Resume, SendChunks, SendFails, connection
  <2>4. QED
    BY <1>1, <2>1, <2>2, <2>3
<1>7. ASSUME NEW n \in Connections, Created(n)
      PROVE  OpenedInv'
  <2>1. UNCHANGED <<joined, jobs>> /\ neg[n] = "creating"
    BY <1>7 DEF Created
  <2>2. CASE MayAdopt
    BY <2>1, <2>2, OpenedKept DEF MayAdopt
  <2>3. CASE ~MayAdopt
    <3>1. session' = session /\ sess' = [sess EXCEPT ![n] = "closed"]
      BY <1>7, <2>3 DEF Created, Surplus
    <3>2. session # 0 => session # n
      BY <2>1 DEF ChannelInv
    <3>3. session # 0 => sess'[session] = sess[session]
      BY <3>1, <3>2, ConstantsAssumption DEF TypeOK, Connections
    <3>4. QED
      BY <2>1, <3>1, <3>3, OpenedKept
  <2>4. QED
    BY <2>2, <2>3
<1>8. ASSUME NEW n \in Connections, NegotiationFails(n) \/ OfferSent(n) \/ TimerEnds(n)
      PROVE  OpenedInv'
  BY <1>1, <1>2, <1>8 DEF NegotiationFails, OfferSent, TimerEnds, connection
<1>9. ASSUME NEW n \in Connections, RemoteAnswers(n) \/ Drains(n)
      PROVE  OpenedInv'
  <2>1. jobs' = jobs \/ jobs' = Posted([kind |-> "answer", of |-> n])
    BY <1>9 DEF RemoteAnswers, Drains
  <2>2. [kind |-> "answer", of |-> n].kind # "opened"
    OBVIOUS
  <2>3. UNCHANGED <<joined, session, sess>>
    BY <1>9 DEF RemoteAnswers, Drains, connection
  <2>4. QED
    BY <1>1, <2>1, <2>2, <2>3
<1>10. ASSUME NEW n \in Connections, SessionDown(n)
       PROVE  OpenedInv'
  <2>1. UNCHANGED <<joined, session>> /\ sess' = [sess EXCEPT ![n] = "down"]
    BY <1>10 DEF SessionDown, connection
  <2>2. \E job : jobs' = Posted(job) /\ job.kind # "opened"
    BY <1>10 DEF SessionDown
  <2>3. session # 0 => sess'[session] = sess[session] \/ sess'[session] = "down"
    BY <2>1, ConstantsAssumption DEF TypeOK, Connections
  <2>4. QED
    BY <2>1, <2>2, <2>3, OpenedKept
<1>11. ASSUME NEW n \in Connections, SessionOpens(n)
       PROVE  OpenedInv'
  <2>1. session' = session /\ sess' = [sess EXCEPT ![n] = "open"] /\ sess[n] = "answered"
    BY <1>11 DEF SessionOpens, connection
  <2>2. session = n /\ n # 0 /\ \A i \in DOMAIN jobs : jobs[i].kind # "joined"
    BY <2>1 DEF NoSessionLeaks, Running, AnsweredInv, Connections
  <2>3. session' # 0 /\ sess'[session'] = "open"
    BY <2>1, <2>2 DEF TypeOK
  <2>4. PICK job : jobs' = Posted(job) /\ job.kind = "opened"
    BY <1>11 DEF SessionOpens
  <2>5. \A k \in DOMAIN jobs' : jobs'[k].kind # "joined"
    BY <2>2, <2>4, AfterPost
  <2>6. QED
    BY <2>3, <2>5 DEF OpenedInv
<1>12. CASE UNCHANGED vars
  BY <1>1, <1>12 DEF vars, connection
<1>13. QED
  BY <1>3, <1>4, <1>5, <1>6, <1>7, <1>8, <1>9, <1>10, <1>11, <1>12, StepCases, JobOpened
     DEF Button

(* A step that keeps the state and the session keeps what they say of each *)
(* other; one that ends the connection leaves nothing to say.              *)
LEMMA StateKept ==
    ASSUME StateInv,
           \/ state' \notin {"negotiating", "ready"}
           \/ /\ UNCHANGED <<state, joined, session>>
              /\ session # 0 /\ sess[session] \in {"open", "down"} =>
                   sess'[session] \in {"open", "down"}
    PROVE  StateInv'
BY DEF StateInv

(* Every step keeps the state and the session together.                    *)
LEMMA StateStep ==
    TypeOK /\ ChannelInv /\ OpenedInv /\ StateInv /\ [Next]_vars => StateInv'
<1> SUFFICES ASSUME TypeOK, ChannelInv, OpenedInv, StateInv, [Next]_vars
             PROVE  StateInv'
  OBVIOUS
<1>1. CASE UNCHANGED <<state, joined, session, sess>>
  BY <1>1, StateKept
<1>2. CASE fail \/ disconnect("idle")
  <2>1. state' \in {"idle", "failed"} \/ UNCHANGED <<state, joined, session, sess>>
    BY <1>2 DEF fail, disconnect, connection
  <2>2. QED
    BY <1>1, <2>1, StateKept
<1>3. CASE Connect \/ ConnectNowhere
  BY <1>3, StateKept DEF Connect, ConnectNowhere
<1>4. ASSUME NEW job, HandleRoster(job), job.kind = "joined" => job.room \in Rooms
      PROVE  StateInv'
  <2>1. UNCHANGED <<session, sess>> /\ joined \subseteq joined' /\ joined' \subseteq Rooms
    BY <1>4 DEF HandleRoster, TypeOK
  <2>2. CASE MayAdvance
    <3>1. joined' = Rooms
      BY <2>2 DEF MayAdvance
    <3>2. state' # "ready"
      BY <1>4, <2>2 DEF HandleRoster, LooksForPeer, advanceIfPossible
    <3>3. QED
      BY <3>1, <3>2 DEF StateInv
  <2>3. CASE ~MayAdvance
    <3>1. state' = state
      BY <1>4, <2>3 DEF HandleRoster, LooksForPeer, advanceIfPossible
    <3>2. QED
      BY <2>1, <3>1 DEF StateInv
  <2>4. QED
    BY <2>2, <2>3
<1>5. ASSUME NEW job, HandleOpened(job), job = Head(jobs), jobs # <<>>
      PROVE  StateInv'
  <2>1. UNCHANGED <<session, joined, sess>> /\ job.kind = "opened" /\ state' = AfterOpen
    BY <1>5 DEF HandleOpened
  <2>2. CASE state = "negotiating"
    <3>1. joined = Rooms /\ joined # {}
      BY <2>2, ConstantsAssumption DEF StateInv
    <3>2. 1 \in DOMAIN jobs /\ jobs[1].kind = "opened"
      BY <1>5, <2>1 DEF TypeOK
    <3>3. session # 0 /\ sess[session] \in {"open", "down"}
      BY <3>1, <3>2 DEF OpenedInv
    <3>4. QED
      BY <2>1, <3>1, <3>3 DEF StateInv
  <2>3. CASE state # "negotiating"
    BY <1>1, <2>1, <2>3 DEF AfterOpen
  <2>4. QED
    BY <2>2, <2>3
<1>6. ASSUME NEW job, HandleDescription(job)
      PROVE  StateInv'
  <2>1. UNCHANGED <<state, joined, session>>
    BY <1>6 DEF HandleDescription, connection
  <2>2. session # 0 /\ sess[session] \in {"open", "down"} => sess' = sess
    BY <1>6 DEF HandleDescription
  <2>3. QED
    BY <2>1, <2>2, StateKept
<1>7. ASSUME NEW job, HandlePeerLeft(job)
      PROVE  StateInv'
  BY <1>1, <1>2, <1>7 DEF HandlePeerLeft
<1>8. CASE HandleJob
  <2>1. PICK job : /\ job = Head(jobs)
                   /\ \/ HandleNothing(job)
                      \/ signaling # 0 /\ HandleRoster(job)
                      \/ signaling # 0 /\ HandlePeerLeft(job)
                      \/ signaling # 0 /\ HandleAnswer(job)
                      \/ signaling # 0 /\ HandleDescription(job)
                      \/ HandleEnd(job) \/ HandleOpened(job)
    BY <1>8, JobCases
  <2>2. jobs # <<>> /\ job \in Job
    BY <1>8, <2>1 DEF HandleJob, TypeOK
  <2>3. job.kind = "joined" => job.room \in Rooms
    BY <2>2 DEF Job
  <2>4. CASE HandleNothing(job) \/ HandleAnswer(job) \/ HandleEnd(job)
    BY <1>1, <1>2, <2>4 DEF HandleNothing, HandleAnswer, HandleEnd, connection
  <2>5. QED
    BY <1>4, <1>5, <1>6, <1>7, <2>1, <2>2, <2>3, <2>4
<1>9. ASSUME NEW n \in Connections, Created(n)
      PROVE  StateInv'
  <2>1. UNCHANGED <<state, joined>> /\ neg[n] = "creating"
    BY <1>9 DEF Created
  <2>2. CASE MayAdopt
    BY <2>1, <2>2 DEF MayAdopt, StateInv
  <2>3. CASE ~MayAdopt
    <3>1. session' = session /\ sess' = [sess EXCEPT ![n] = "closed"]
      BY <1>9, <2>3 DEF Created, Surplus
    <3>2. session # 0 => session # n
      BY <2>1 DEF ChannelInv
    <3>3. session # 0 => sess'[session] = sess[session]
      BY <3>1, <3>2, ConstantsAssumption DEF TypeOK, Connections
    <3>4. QED
      BY <2>1, <3>1, <3>3, StateKept
  <2>4. QED
    BY <2>2, <2>3
<1>10. ASSUME NEW n \in Connections, NegotiationFails(n) \/ OfferSent(n) \/ TimerEnds(n)
       PROVE  StateInv'
  BY <1>1, <1>2, <1>10 DEF NegotiationFails, OfferSent, TimerEnds, connection
<1>11. ASSUME NEW n \in Connections, SessionOpens(n) \/ SessionDown(n)
       PROVE  StateInv'
  <2>1. UNCHANGED <<state, joined, session>>
    BY <1>11 DEF SessionOpens, SessionDown, connection
  <2>2. session # 0 => sess'[session] = sess[session] \/ sess'[session] \in {"open", "down"}
    BY <1>11, ConstantsAssumption DEF SessionOpens, SessionDown, TypeOK, Connections
  <2>3. QED
    BY <2>1, <2>2, StateKept
<1>12. ASSUME NEW n \in Connections, RemoteAnswers(n) \/ Drains(n)
       PROVE  StateInv'
  BY <1>1, <1>12 DEF RemoteAnswers, Drains, connection
<1>13. ASSUME NEW u \in Uuids,
              SendFile(u) \/ PeerAnswers(u) \/ Resume(u) \/ SendChunks(u) \/ SendFails(u)
       PROVE  StateInv'
  BY <1>1, <1>13 DEF SendFile, PeerAnswers, Resume, SendChunks, SendFails, connection
<1>14. CASE LinkLost \/ PeerMoves \/ (\E r \in Rooms : ServerJoins(r)) \/ UNCHANGED vars
  BY <1>1, <1>14 DEF LinkLost, PeerMoves, ServerJoins, connection, vars
<1>15. QED
  BY <1>2, <1>3, <1>8, <1>9, <1>10, <1>11, <1>12, <1>13, <1>14, StepCases DEF Disconnect

(* Although no job says which connection or session it comes from: the app *)
(* is ready only with a channel that has opened, and what happens to the   *)
(* session in use is handled or about to be.                               *)
THEOREM ReadyWhenOpen == Spec => []ReadyIsOpen
<1>1. Init => /\ LinkInv /\ NegInv /\ ChannelInv
              /\ AnsweredInv /\ OpenedInv /\ StateInv
  <2> SUFFICES ASSUME Init
               PROVE  /\ LinkInv /\ NegInv /\ ChannelInv
                      /\ AnsweredInv /\ OpenedInv /\ StateInv
    OBVIOUS
  <2>1. LinkInv /\ ChannelInv /\ StateInv
    BY DEF Init, LinkInv, ChannelInv, ChannelIsNoticed, StateInv, isActive
  <2>2. NegInv
    BY DEF Init, NegInv
  <2>3. DOMAIN jobs = {} /\ \A n \in Connections : sess[n] = "none"
    BY DEF Init
  <2>4. AnsweredInv /\ OpenedInv
    BY <2>3 DEF AnsweredInv, OpenedInv
  <2>5. QED
    BY <2>1, <2>2, <2>4
<1>2. Spec => [](/\ TypeOK /\ LinkInv /\ NegInv /\ ChannelInv
                 /\ AnsweredInv /\ OpenedInv /\ StateInv)
  BY <1>1, TypeInvariant, InactiveIsQuiet, SessionsDoNotLeak, LinkStep, NegStep, ChannelStep,
     AnsweredStep, OpenedStep, StateStep, PTL DEF Spec
<1>3. ChannelInv /\ StateInv => ReadyIsOpen
  BY DEF ChannelInv, ChannelIsNoticed, StateInv, ReadyIsOpen
<1>4. QED
  BY <1>2, <1>3, PTL
=============================================================================
