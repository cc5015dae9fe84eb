----------------------------- MODULE IosSession -----------------------------
(***************************************************************************)
(* The iOS client (src/iOS/Sources/CloudNodeClient): the connection manager *)
(* on the main actor, with the jobs other threads post to it, the tasks it *)
(* starts and awaits (one per negotiation, one per file sent), the         *)
(* signalling client and the peer sessions.                                *)
(*                                                                         *)
(* Connections are numbered.  Each starts at most one negotiation, whose   *)
(* peer session has its number, whatever connection comes to use it.  Code *)
(* between two awaits is one step.  Jobs are handled in the order they are *)
(* posted: the closures are isolated to the main actor, so the tasks enter *)
(* its queue when they are created (tools version 6.0 in Package.swift.in).*)
(* A message is posted as the server sends it.  Candidates, which are only *)
(* passed on to the session, are part of SessionOpens; the answer, which   *)
(* is too, is not: it comes through the queue, behind the joins.           *)
(***************************************************************************)
EXTENDS Naturals, Sequences, FiniteSets

CONSTANTS
    Rooms,          \* the rooms joined: config.room and config.peerRoom
    PeerRoom,       \* config.peerRoom
    Uuids,          \* the files sent, each once
    MaxConnects,    \* bound: uses of the Connect button
    MaxMoves,       \* bound: arrivals and departures of the peer
    MaxChunks,      \* bound: chunks of a file
    MaxJobs         \* bound: jobs in the queue when another is posted

ASSUME ConstantsAssumption ==
    /\ PeerRoom \in Rooms
    /\ {MaxConnects, MaxMoves, MaxChunks, MaxJobs} \subseteq Nat

VARIABLES
    state,      \* ConnectionManager.state
    connects,   \* connections so far
    signaling,  \* the connection in use, with its config; 0 is nil
    session,    \* the peer session in use; 0 is nil
    joined,     \* joinedRooms
    peerHere,   \* the roster of PeerRoom has the peer
    waiters,    \* the keys of acceptWaiters
    jobs,       \* the main actor's queue
    up,         \* the signalling connection is alive
    memberOf,   \* the rooms whose join the server has answered on it
    peerIn,     \* the peer is in its room
    moves,      \* the peer's arrivals and departures so far
    neg,        \* where the negotiation of each connection is
    sess,       \* each peer session: "none", "live" (no answer yet), "answered",
                \* "misled" (by the answer to another), "open", "down" or "closed"
    full,       \* the sessions with more than the high-water mark buffered
    sends       \* where each send is, the session it uses, the chunks left

connection == <<state, signaling, session, joined, peerHere>>
server == <<up, memberOf, peerIn, moves>>
vars == <<connection, connects, waiters, jobs, server, neg, sess, full, sends>>

Connections == 1 .. MaxConnects

Job == [kind : {"joined"}, room : Rooms, peer : BOOLEAN]
    \cup [kind : {"peerJoined", "peerLeft", "lost", "opened", "down"}]
    \cup [kind : {"accept", "reject"}, uuid : Uuids]
    \cup [kind : {"answer"}, of : Connections]

SendRecord ==
    [pc : {"none", "waiting", "accepted", "refused", "sending", "done", "rejected", "failed"},
     via : 0 .. MaxConnects, left : 0 .. MaxChunks]

Posted(job) == Append(jobs, job)
MayPost == Len(jobs) < MaxJobs

(* A session that has been created and not closed. *)
Running == {"live", "answered", "misled", "open", "down"}

isActive == state \notin {"idle", "failed"}

----------------------------------------------------------------------------
(* Mutated forms of definitions below, used to test the properties.        *)

(* the time-out looks at the connection it was started for *)
TimesOutOwn(n) == state = "negotiating" /\ session = n /\ signaling = n

(* a created session is taken whatever happened meanwhile *)
MayAdoptAny == TRUE

(* it is not asked whether another session has been taken *)
MayAdoptAnother == state = "negotiating"

(* an opening is taken in any state *)
AfterOpenAlways == "ready"

(* the state takes the word for the session's *)
AfterOpenOfSession == IF state = "negotiating" THEN "open" ELSE state

(* the peer is looked for only in the answer to the own join *)
LooksForPeerOnJoin(job) == job.kind = "joined"

(* a closed channel still counts what it had buffered *)
FullWhenClosed(n) == n \in full

----------------------------------------------------------------------------
(* disconnect and what it shares with fail *)

(* The sends that waited for an answer are resumed with "no". *)
Resumed ==
    [u \in Uuids |-> IF u \in waiters THEN [sends[u] EXCEPT !.pc = "refused"] ELSE sends[u]]

(* disconnect, leaving the manager in state s. *)
disconnect(s) ==
    /\ state' = s
    /\ signaling' = 0 /\ session' = 0 /\ joined' = {} /\ peerHere' = FALSE
    /\ up' = FALSE /\ memberOf' = {}
    /\ sess' = IF session = 0 THEN sess ELSE [sess EXCEPT ![session] = "closed"]
    /\ waiters' = {} /\ sends' = Resumed

(* fail: nothing to do without a connection ("failed" fails again). *)
fail ==
    IF state = "idle"
    THEN UNCHANGED <<connection, up, memberOf, sess, waiters, sends>>
    ELSE disconnect("failed")

Disconnect ==
    /\ isActive
    /\ disconnect("idle")
    /\ UNCHANGED <<connects, jobs, peerIn, moves, neg, full>>

(* connect, from the button: what is left of the last connection is already *)
(* cleared then, and the joins are sent at once.                            *)
Connect ==
    /\ ~isActive /\ connects < MaxConnects
    /\ connects' = connects + 1
    /\ signaling' = connects + 1
    /\ up' = TRUE
    /\ state' = "joiningRooms"
    /\ UNCHANGED <<session, joined, peerHere, waiters, jobs, memberOf, peerIn, moves,
                   neg, sess, full, sends>>

(* connect with an address that is no URL. *)
ConnectNowhere ==
    /\ ~isActive
    /\ state' = "failed"
    /\ UNCHANGED <<connects, signaling, session, joined, peerHere, waiters, jobs, server,
                   neg, sess, full, sends>>

----------------------------------------------------------------------------
(* The server and the peer, as the messages the signalling client posts     *)

ServerJoins(r) ==
    /\ up /\ r \notin memberOf /\ MayPost
    /\ memberOf' = memberOf \cup {r}
    /\ jobs' = Posted([kind |-> "joined", room |-> r, peer |-> peerIn /\ r = PeerRoom])
    /\ UNCHANGED <<connection, connects, waiters, up, peerIn, moves, neg, sess, full, sends>>

PeerMoves ==
    /\ moves < MaxMoves /\ MayPost
    /\ moves' = moves + 1
    /\ peerIn' = ~peerIn
    /\ jobs' = IF up /\ PeerRoom \in memberOf
               THEN Posted([kind |-> IF peerIn THEN "peerLeft" ELSE "peerJoined"])
               ELSE jobs
    /\ UNCHANGED <<connection, connects, waiters, up, memberOf, neg, sess, full, sends>>

PeerAnswers(u) ==
    /\ up /\ u \in waiters /\ MayPost
    /\ \A i \in DOMAIN jobs : jobs[i].kind \in {"accept", "reject"} => jobs[i].uuid # u
    /\ \E k \in {"accept", "reject"} : jobs' = Posted([kind |-> k, uuid |-> u])
    /\ UNCHANGED <<connection, connects, waiters, server, neg, sess, full, sends>>

(* The answer to an offer.  The server has the joins of this connection     *)
(* before the offer, and has answered them.                                 *)
RemoteAnswers(n) ==
    /\ up /\ memberOf = Rooms /\ sess[n] = "live" /\ neg[n] = "waiting" /\ MayPost
    /\ \A i \in DOMAIN jobs : jobs[i] # [kind |-> "answer", of |-> n]
    /\ jobs' = Posted([kind |-> "answer", of |-> n])
    /\ UNCHANGED <<connection, connects, waiters, server, neg, sess, full, sends>>

(* finish: a failed receive or send; what was posted before stays posted.   *)
LinkLost ==
    /\ up /\ MayPost
    /\ up' = FALSE /\ memberOf' = {}
    /\ jobs' = Posted([kind |-> "lost"])
    /\ UNCHANGED <<connection, connects, waiters, peerIn, moves, neg, sess, full, sends>>

----------------------------------------------------------------------------
(* The jobs on the main actor *)

(* advanceIfPossible is entered in a state it acts on, with both joins. *)
MayAdvance == state \notin {"negotiating", "ready"} /\ joined' = Rooms

(* The messages that make handle call it. *)
LooksForPeer(job) == job.kind \in {"joined", "peerJoined"}

(* advanceIfPossible, after handle has stored the roster. *)
advanceIfPossible ==
    IF MayAdvance
    THEN /\ state' = IF peerHere' THEN "negotiating" ELSE "waitingForPeer"
         /\ neg' = IF peerHere' THEN [neg EXCEPT ![signaling] = "creating"] ELSE neg
    ELSE UNCHANGED <<state, neg>>

(* handle: "join" and "peer_joined". *)
HandleRoster(job) ==
    /\ job.kind \in {"joined", "peerJoined"}
    /\ joined' = IF job.kind = "joined" THEN joined \cup {job.room} ELSE joined
    /\ peerHere' = IF job.kind = "peerJoined" THEN TRUE
                   ELSE IF job.room = PeerRoom THEN job.peer ELSE peerHere
    /\ IF LooksForPeer(job) THEN advanceIfPossible ELSE UNCHANGED <<state, neg>>
    /\ UNCHANGED <<signaling, session, waiters, up, memberOf, sess, sends>>

(* handle: "peer_left", which ends the connection once it is ready. *)
HandlePeerLeft(job) ==
    /\ job.kind = "peerLeft"
    /\ IF state = "ready"
       THEN fail
       ELSE /\ peerHere' = FALSE
            /\ UNCHANGED <<state, signaling, session, joined, waiters, up, memberOf, sess, sends>>
    /\ UNCHANGED neg

(* handle: "file_accept" and "file_reject". *)
HandleAnswer(job) ==
    /\ job.kind \in {"accept", "reject"}
    /\ IF job.uuid \in waiters
       THEN /\ waiters' = waiters \ {job.uuid}
            /\ sends' = [sends EXCEPT ![job.uuid].pc =
                            IF job.kind = "accept" THEN "accepted" ELSE "refused"]
       ELSE UNCHANGED <<waiters, sends>>
    /\ UNCHANGED <<connection, up, memberOf, neg, sess>>

(* handle: "answer", given to whatever session is in use.  One that has no  *)
(* answer yet takes it, and takes no other after it.                        *)
HandleDescription(job) ==
    /\ job.kind = "answer"
    /\ sess' = IF session # 0 /\ sess[session] = "live"
               THEN [sess EXCEPT ![session] = IF job.of = session THEN "answered" ELSE "misled"]
               ELSE sess
    /\ UNCHANGED <<connection, waiters, up, memberOf, neg, sends>>

(* handle drops a message that finds no connection. *)
HandleNothing(job) ==
    /\ signaling = 0 /\ job.kind \notin {"lost", "opened", "down"}
    /\ UNCHANGED <<connection, waiters, up, memberOf, neg, sess, sends>>

(* The closures of onClose, of the link or of a session: neither looks at   *)
(* the connection it was set for.                                           *)
HandleEnd(job) ==
    /\ job.kind \in {"lost", "down"}
    /\ fail
    /\ UNCHANGED neg

AfterOpen == IF state = "negotiating" THEN "ready" ELSE state

(* The closure of onOpen. *)
HandleOpened(job) ==
    /\ job.kind = "opened"
    /\ state' = AfterOpen
    /\ UNCHANGED <<signaling, session, joined, peerHere, waiters, up, memberOf, neg, sess, sends>>

HandleJob ==
    /\ jobs # <<>> /\ jobs' = Tail(jobs)
    /\ LET job == Head(jobs) IN
         \/ HandleNothing(job)
         \/ signaling # 0 /\ \/ HandleRoster(job) \/ HandlePeerLeft(job)
                             \/ HandleAnswer(job) \/ HandleDescription(job)
         \/ HandleEnd(job) \/ HandleOpened(job)
    /\ UNCHANGED <<connects, peerIn, moves, full>>

----------------------------------------------------------------------------
(* The task of a negotiation *)

(* A session that has been created is taken when one is wanted. *)
MayAdopt == state = "negotiating" /\ session = 0

(* One that comes too late is closed. *)
Surplus(n) == [sess EXCEPT ![n] = "closed"]

Created(n) ==
    /\ neg[n] = "creating"
    /\ IF MayAdopt
       THEN /\ session' = n
            /\ sess' = [sess EXCEPT ![n] = "live"]
            /\ neg' = [neg EXCEPT ![n] = "offering"]
       ELSE /\ sess' = Surplus(n)
            /\ neg' = [neg EXCEPT ![n] = "over"]
            /\ UNCHANGED session
    /\ UNCHANGED <<state, signaling, joined, peerHere, connects, waiters, jobs, server, full,
                   sends>>

(* No peer connection, or no offer: makeOffer throws, on a closed session too. *)
NegotiationFails(n) ==
    /\ neg[n] \in {"creating", "offering"}
    /\ neg' = [neg EXCEPT ![n] = "over"]
    /\ fail
    /\ UNCHANGED <<connects, jobs, peerIn, moves, full>>

(* makeOffer returns, even when the session was closed while it gathered,   *)
(* and the offer goes out on the signalling client of this moment.          *)
OfferSent(n) ==
    /\ neg[n] = "offering"
    /\ neg' = [neg EXCEPT ![n] = "waiting"]
    /\ UNCHANGED <<connection, connects, waiters, jobs, server, sess, full, sends>>

TimesOut(n) == state = "negotiating" /\ session = n

(* The end of the 30 seconds. *)
TimerEnds(n) ==
    /\ neg[n] = "waiting"
    /\ neg' = [neg EXCEPT ![n] = "over"]
    /\ IF TimesOut(n) THEN fail ELSE UNCHANGED <<connection, up, memberOf, sess, waiters, sends>>
    /\ UNCHANGED <<connects, jobs, peerIn, moves, full>>

----------------------------------------------------------------------------
(* The peer sessions *)

SessionOpens(n) ==
    /\ sess[n] = "answered" /\ MayPost
    /\ sess' = [sess EXCEPT ![n] = "open"]
    /\ jobs' = Posted([kind |-> "opened"])
    /\ UNCHANGED <<connection, connects, waiters, server, neg, full, sends>>

(* The channel closes or the connection fails. *)
SessionDown(n) ==
    /\ sess[n] \in Running \ {"down"} /\ MayPost
    /\ sess' = [sess EXCEPT ![n] = "down"]
    /\ jobs' = Posted([kind |-> "down"])
    /\ UNCHANGED <<connection, connects, waiters, server, neg, full, sends>>

Drains(n) ==
    /\ n \in full /\ sess[n] = "open"
    /\ full' = full \ {n}
    /\ UNCHANGED <<connection, connects, waiters, jobs, server, neg, sess, sends>>

----------------------------------------------------------------------------
(* The task of a file: send *)

(* Up to the continuation: an offer, where there is a session to use. *)
SendFile(u) ==
    /\ sends[u].pc = "none"
    /\ \E chunks \in 0 .. MaxChunks :
         IF state = "ready" /\ signaling # 0 /\ session # 0
         THEN /\ waiters' = waiters \cup {u}
              /\ sends' = [sends EXCEPT ![u] = [pc |-> "waiting", via |-> session, left |-> chunks]]
         ELSE /\ sends' = [sends EXCEPT ![u].pc = "failed"]
              /\ UNCHANGED waiters
    /\ UNCHANGED <<connection, connects, jobs, server, neg, sess, full>>

(* The continuation, with the answer. *)
Resume(u) ==
    /\ sends[u].pc \in {"accepted", "refused"}
    /\ sends' = [sends EXCEPT ![u].pc = IF sends[u].pc = "accepted" THEN "sending" ELSE "rejected"]
    /\ UNCHANGED <<connection, connects, waiters, jobs, server, neg, sess, full>>

(* A channel that has been deleted reports an error, taken for an empty buffer. *)
Full(n) == n \in full /\ sess[n] # "closed"

(* The loop, until it sleeps with too much buffered or has sent everything. *)
SendChunks(u) ==
    /\ sends[u].pc = "sending"
    /\ ~Full(sends[u].via)
    /\ sess[sends[u].via] = "open" \/ sends[u].left = 0
    /\ \/ /\ sends' = [sends EXCEPT ![u] = [pc |-> "done", via |-> @.via, left |-> 0]]
          /\ UNCHANGED full
       \/ \E left \in 1 .. sends[u].left - 1 :
            /\ sends' = [sends EXCEPT ![u].left = left]
            /\ full' = full \cup {sends[u].via}
    /\ UNCHANGED <<connection, connects, waiters, jobs, server, neg, sess>>

(* A chunk is refused: the channel is not open any more. *)
SendFails(u) ==
    /\ sends[u].pc = "sending" /\ sends[u].left > 0
    /\ ~Full(sends[u].via) /\ sess[sends[u].via] # "open"
    /\ sends' = [sends EXCEPT ![u].pc = "failed"]
    /\ UNCHANGED <<connection, connects, waiters, jobs, server, neg, sess, full>>

----------------------------------------------------------------------------
Init ==
    /\ state = "idle" /\ connects = 0 /\ signaling = 0 /\ session = 0
    /\ joined = {} /\ peerHere = FALSE /\ waiters = {} /\ jobs = <<>>
    /\ up = FALSE /\ memberOf = {} /\ peerIn \in BOOLEAN /\ moves = 0
    /\ neg = [n \in Connections |-> "none"]
    /\ sess = [n \in Connections |-> "none"]
    /\ full = {}
    /\ sends = [u \in Uuids |-> [pc |-> "none", via |-> 0, left |-> 0]]

Button == Connect \/ ConnectNowhere \/ Disconnect

Negotiation(n) == Created(n) \/ NegotiationFails(n) \/ OfferSent(n) \/ TimerEnds(n)

(* A full buffer does not stay so. *)
BufferMoves(n) == n \in full /\ (Drains(n) \/ SessionDown(n))

Sending(u) == Resume(u) \/ SendChunks(u) \/ SendFails(u)

Next ==
    \/ Button \/ HandleJob \/ LinkLost \/ PeerMoves
    \/ \E r \in Rooms : ServerJoins(r)
    \/ \E u \in Uuids : SendFile(u) \/ PeerAnswers(u) \/ Sending(u)
    \/ \E n \in Connections :
         Negotiation(n) \/ RemoteAnswers(n) \/ SessionOpens(n) \/ SessionDown(n) \/ Drains(n)

Spec == Init /\ [][Next]_vars

(* The main actor runs its jobs and its tasks, and an open channel sends    *)
(* what it has buffered or fails.  Nobody has to press a button, answer, or *)
(* keep a connection alive.                                                 *)
FairSpec ==
    /\ Spec
    /\ WF_vars(HandleJob)
    /\ \A n \in Connections :
         WF_vars(Negotiation(n)) /\ WF_vars(BufferMoves(n))
    /\ \A u \in Uuids : WF_vars(Sending(u))

----------------------------------------------------------------------------
(* Properties *)

(* The variables have the types of the state they stand for. *)
TypeOK ==
    /\ state \in {"idle", "joiningRooms", "waitingForPeer", "negotiating", "ready", "failed"}
    /\ connects \in 0 .. MaxConnects
    /\ signaling \in 0 .. MaxConnects /\ session \in 0 .. MaxConnects
    /\ joined \subseteq Rooms /\ memberOf \subseteq Rooms
    /\ peerHere \in BOOLEAN /\ up \in BOOLEAN /\ peerIn \in BOOLEAN
    /\ waiters \subseteq Uuids /\ full \subseteq Connections
    /\ jobs \in Seq(Job) /\ Len(jobs) <= MaxJobs
    /\ moves \in 0 .. MaxMoves
    /\ neg \in [Connections -> {"none", "creating", "offering", "waiting", "over"}]
    /\ sess \in [Connections -> Running \cup {"none", "closed"}]
    /\ sends \in [Uuids -> SendRecord]

(* After disconnect or a failure nothing of the connection is left, and no  *)
(* task that returns late brings any of it back: no link, no session, no    *)
(* roster, no send that waits.                                              *)
QuietWhenInactive ==
    ~isActive =>
        /\ signaling = 0 /\ session = 0 /\ joined = {} /\ ~peerHere /\ ~up
        /\ \A u \in Uuids : sends[u].pc # "waiting"

(* A peer connection that has not been closed is the one in use: whenever a *)
(* session is created, and whoever takes it, none is left running.          *)
NoSessionLeaks == \A n \in Connections : sess[n] \in Running => session = n

(* A job of this kind is still to be handled. *)
Waiting(kind) == \E i \in DOMAIN jobs : jobs[i].kind = kind

(* What src/README.md says of the app: it "opens a data channel to the      *)
(* remote client, and then lets you pick photos to send", which             *)
(* ContentView.swift does in the state "ready".  No job asks which          *)
(* connection or session it comes from; still the app is ready only with a  *)
(* session whose channel has opened, the session in use has not been        *)
(* closed, and its opening and its end have been handled or are about to.   *)
ReadyIsOpen ==
    /\ state = "ready" => session # 0 /\ sess[session] \in {"open", "down"}
    /\ session # 0 =>
         /\ sess[session] \in Running
         /\ sess[session] = "open" => state = "ready" \/ Waiting("opened")
         /\ sess[session] = "down" => Waiting("down")

(* The peer is not overlooked: once the joins and its arrival are handled,  *)
(* in whatever order the server sent them and with whatever an earlier      *)
(* connection left in the queue, the app is past waiting for it.            *)
PeerIsMet ==
    up /\ memberOf = Rooms /\ peerIn /\ jobs = <<>> => state \in {"negotiating", "ready"}

(* A negotiation does not last for ever, even one that took the session of  *)
(* an earlier connection.                                                   *)
NegotiationEnds == state = "negotiating" ~> state # "negotiating"

(* A file that is being sent is done or has failed in the end, also when    *)
(* the connection goes away while the channel's buffer is full; one that    *)
(* waits for an answer waits only as long as the connection is ready.       *)
SendsEnd ==
    \A u \in Uuids :
        /\ sends[u].pc = "sending" ~> sends[u].pc \in {"done", "failed"}
        /\ sends[u].pc = "waiting" ~> sends[u].pc # "waiting" \/ [](state = "ready")
=============================================================================
