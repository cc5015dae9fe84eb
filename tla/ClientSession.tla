---------------------------- MODULE ClientSession ----------------------------
(***************************************************************************)
(* The session of one client (src/src/WebRTCClient.cpp): the worker thread *)
(* that joins a room, connects to a peer, offers queued files and pings    *)
(* the server, against the threads it races with: the WebSocket callbacks, *)
(* the port thread that reconnects (src/src/MessagePortClient.cpp), the    *)
(* data channel that finishes a received file, and the application that    *)
(* queues files and stops the client.                                      *)
(*                                                                         *)
(* The client has one room and one peer.  m_clientStateMutex is held over  *)
(* one blocking call only, the sending of a join (JoinRooms); every other  *)
(* critical section is a single step.  The server is a part of the         *)
(* environment: it handles what reaches it at once and answers later.      *)
(***************************************************************************)
EXTENDS Integers, Sequences, SequencesExt

CONSTANTS
    Files,      \* paths given to QueueFile
    StartFiles, \* the --file entries, a sequence
    NoFile,     \* the empty path
    HasPeer,    \* whether --peer is given
    Unreadable, \* files of which get_file_info fails
    Timeouts,   \* the waits that may time out, of Waits
    Stops,      \* whether the application may call Stop
    MaxLosses,  \* bound: lost or failed connections
    MaxReceives,\* bound: files received from the peer
    MaxLeaves   \* bound: departures of the peer

Waits == {"join", "peer", "pong", "description"}

ASSUME ConstantsAssumption ==
    /\ StartFiles \in Seq(Files)
    /\ NoFile \notin Files
    /\ HasPeer \in BOOLEAN /\ Stops \in BOOLEAN
    /\ Timeouts \subseteq Waits
    /\ MaxLosses \in Nat /\ MaxReceives \in Nat /\ MaxLeaves \in Nat

VARIABLES
    clientState,    \* m_clientState
    transportOpen,  \* m_transportOpen
    pc,             \* where the worker thread is
    ret,            \* what JoinRooms or MakeDataChannel is called for
    msg,            \* the message SendMessage is sending
    queue,          \* m_queuedFiles
    batch,          \* the files of OfferFiles still to be offered
    asked,          \* every file QueueFile has taken, in order
    inRoom,         \* m_rooms shows the client in its room
    peerHere,       \* m_rooms shows the peer in the room
    channel,        \* m_dataChannels: none, "new", or the fate of its offer: "open", "dead"
    pending,        \* the files in m_pendingOffers
    isRunning,      \* m_isRunning of the port
    stopRequested,  \* m_stopRequested of the port
    disconnected,   \* m_disconnected of the port
    port,           \* where the port thread is
    sock,           \* where the port's current socket, with its callback thread, is
    stopper,        \* where the thread that calls Stop is
    receiving,      \* the data channel's thread: "data" coming in, or the last chunk "written"
    member,         \* the server has this connection in the room
    replies,        \* answers of the server to come: "joined", "pong"
    offers,         \* the offers the server has passed on, in order
    unanswered,     \* those of them the peer has yet to answer
    losses, receives, leaves

stateVars == <<clientState, transportOpen>>
threadVars == <<pc, ret, msg>>
fileVars == <<queue, batch, asked>>
rosterVars == <<inRoom, peerHere>>
tableVars == <<channel, pending>>
portVars == <<isRunning, stopRequested, disconnected, port, sock, losses>>
appVars == <<stopper, receiving, receives>>
serverVars == <<member, replies, offers, unanswered, leaves>>
workerVars == <<threadVars, fileVars>>
vars == <<stateVars, workerVars, rosterVars, tableVars, portVars, appVars, serverVars>>

States == {"INIT", "WAITING_FOR_JOIN", "JOINED", "RUN", "PING", "WAIT_FOR_PONG",
           "WAIT_FOR_FILE_ACCEPT", "EXIT"}

Stopped == clientState \in {"INIT", "EXIT"}

(* JoinRooms holds m_clientStateMutex while SendMessage waits for the port. *)
MutexFree == ~(pc \in {"wait", "send"} /\ msg = "join")

----------------------------------------------------------------------------
(* Mutated forms of definitions below, used to test the properties.        *)

(* an empty path is queued *)
ValidAny(f) == TRUE

(* the port thread does not look for a requested stop *)
PortWaitOverIfLost == disconnected

(* a session that has offered its files stays as it is *)
AfterOffersUnchanged == clientState

(* the newest request first *)
TakenNewestFirst(q) == Reverse(q)


(* ClearRooms left out of OnMessageClose *)
AfterLossKept(known) == known


----------------------------------------------------------------------------
(* The worker thread: StartClient's loop *)

Goto(p) == pc' = p /\ UNCHANGED <<ret, msg>>

Send(m) == pc' = "wait" /\ msg' = m /\ UNCHANGED ret

(* Back in the loop, with the files still to be offered forgotten. *)
Abandon == Goto("main") /\ batch' = <<>> /\ UNCHANGED <<queue, asked>>

Ends ==
    /\ pc = "main" /\ clientState = "EXIT"
    /\ Goto("ended")
    /\ UNCHANGED <<stateVars, fileVars, rosterVars, tableVars, portVars, appVars, serverVars>>

(* CLIENT_INIT: the files of --file are offered in every new session. *)
Begins ==
    /\ pc = "main" /\ clientState = "INIT" /\ transportOpen
    /\ pc' = "join" /\ ret' = "connect" /\ UNCHANGED msg
    /\ batch' = StartFiles
    /\ UNCHANGED <<stateVars, queue, asked, rosterVars, tableVars, portVars, appVars, serverVars>>

Taken(q) == q

(* CLIENT_RUN with queued files: all of them are taken out. *)
TakesQueue ==
    /\ pc = "main" /\ clientState = "RUN" /\ queue # <<>>
    /\ Goto("offerNext")
    /\ batch' = Taken(queue) /\ queue' = <<>>
    /\ UNCHANGED <<stateVars, asked, rosterVars, tableVars, portVars, appVars, serverVars>>

(* CLIENT_RUN for the time of a ping interval. *)
IdleTimeout ==
    /\ pc = "main" /\ clientState = "RUN" /\ queue = <<>>
    /\ clientState' = "PING"
    /\ UNCHANGED <<transportOpen, workerVars, rosterVars, tableVars, portVars, appVars, serverVars>>

SendsPing ==
    /\ pc = "main" /\ clientState = "PING"
    /\ clientState' = "WAIT_FOR_PONG"
    /\ Send("ping")
    /\ UNCHANGED <<transportOpen, fileVars, rosterVars, tableVars, portVars, appVars, serverVars>>

PongTimeout ==
    /\ pc = "main" /\ clientState = "WAIT_FOR_PONG" /\ "pong" \in Timeouts
    /\ clientState' = "EXIT"
    /\ UNCHANGED <<transportOpen, workerVars, rosterVars, tableVars, portVars, appVars, serverVars>>

----------------------------------------------------------------------------
(* JoinRooms and JoinRoom *)

Joins ==
    /\ pc = "join"
    /\ \/ /\ clientState = "EXIT"
          /\ Abandon /\ UNCHANGED stateVars
       \/ /\ clientState # "EXIT" /\ inRoom
          /\ Goto(ret) /\ UNCHANGED <<stateVars, fileVars>>
       \/ /\ clientState # "EXIT" /\ ~inRoom
          /\ clientState' = "WAITING_FOR_JOIN"
          /\ Send("join") /\ UNCHANGED <<transportOpen, fileVars>>
    /\ UNCHANGED <<rosterVars, tableVars, portVars, appVars, serverVars>>

JoinWaitOver ==
    /\ pc = "waitJoin"
    /\ \/ clientState = "JOINED" /\ Goto(ret) /\ UNCHANGED <<clientState, fileVars>>
       \/ Stopped /\ Abandon /\ UNCHANGED clientState
    /\ UNCHANGED <<transportOpen, rosterVars, tableVars, portVars, appVars, serverVars>>

JoinTimeout ==
    /\ pc = "waitJoin" /\ clientState # "JOINED" /\ ~Stopped /\ "join" \in Timeouts
    /\ clientState' = "EXIT"
    /\ Abandon
    /\ UNCHANGED <<transportOpen, rosterVars, tableVars, portVars, appVars, serverVars>>

(* ConnectPeer: waits for the peer, however long. *)
Connects ==
    /\ pc = "connect"
    /\ \/ ~HasPeer /\ Goto("offerNext") /\ UNCHANGED fileVars
       \/ HasPeer /\ Stopped /\ Abandon
       \/ HasPeer /\ ~Stopped /\ peerHere /\ Goto("channel") /\ UNCHANGED fileVars
    /\ UNCHANGED <<stateVars, rosterVars, tableVars, portVars, appVars, serverVars>>

(* Where ConnectPeer and OfferFiles go on once there is a data channel. *)
Channelled == IF ret = "connect" THEN "offerNext" ELSE "fileOffer"

(* MakeDataChannel, unless there is a channel. *)
MakesChannel ==
    /\ pc = "channel"
    /\ IF channel # "none" THEN Goto(Channelled) ELSE Goto("insert")
    /\ UNCHANGED <<stateVars, fileVars, rosterVars, tableVars, portVars, appVars, serverVars>>

(* obtainInitialDescription: no ICE candidates within its time. *)
DescriptionTimeout ==
    /\ pc = "insert" /\ "description" \in Timeouts
    /\ clientState' = IF Stopped THEN clientState ELSE "EXIT"
    /\ Abandon
    /\ UNCHANGED <<transportOpen, rosterVars, tableVars, portVars, appVars, serverVars>>

InsertsChannel ==
    /\ pc = "insert"
    /\ channel' = "new"
    /\ Send("offer")
    /\ UNCHANGED <<stateVars, fileVars, rosterVars, pending, portVars, appVars, serverVars>>

----------------------------------------------------------------------------
(* OfferFiles and SendFileOffer *)

AfterOffers ==
    IF Stopped \/ clientState = "WAIT_FOR_FILE_ACCEPT" THEN clientState ELSE "RUN"

OffersNext ==
    /\ pc = "offerNext"
    /\ \/ batch = <<>> /\ clientState' = AfterOffers /\ Goto("main")
       \/ batch # <<>> /\ pc' = "join" /\ ret' = "peer" /\ UNCHANGED <<clientState, msg>>
    /\ UNCHANGED <<transportOpen, fileVars, rosterVars, tableVars, portVars, appVars, serverVars>>

PeerWaitOver ==
    /\ pc = "peer"
    /\ \/ Stopped /\ Abandon
       \/ ~Stopped /\ peerHere /\ Goto("channel") /\ UNCHANGED fileVars
    /\ UNCHANGED <<stateVars, rosterVars, tableVars, portVars, appVars, serverVars>>

PeerTimeout ==
    /\ pc = "peer" /\ ~Stopped /\ ~peerHere /\ "peer" \in Timeouts
    /\ clientState' = "EXIT"
    /\ Abandon
    /\ UNCHANGED <<transportOpen, rosterVars, tableVars, portVars, appVars, serverVars>>

(* The file's details and its channel; without them the file is passed over. *)
ReadsFile ==
    /\ pc = "fileOffer"
    /\ IF Head(batch) \in Unreadable \/ channel = "none" THEN Goto("offered") ELSE Goto("register")
    /\ UNCHANGED <<stateVars, fileVars, rosterVars, tableVars, portVars, appVars, serverVars>>

(* The state becomes CLIENT_WAIT_FOR_FILE_ACCEPT whatever it was. *)
RegistersOffer ==
    /\ pc = "register"
    /\ clientState' = "WAIT_FOR_FILE_ACCEPT"
    /\ pending' = pending \cup {Head(batch)}
    /\ Send("file_offer")
    /\ UNCHANGED <<transportOpen, fileVars, rosterVars, channel, portVars, appVars, serverVars>>

Offered ==
    /\ pc = "offered"
    /\ IF Stopped THEN Abandon
       ELSE Goto("offerNext") /\ batch' = Tail(batch) /\ UNCHANGED <<queue, asked>>
    /\ UNCHANGED <<stateVars, rosterVars, tableVars, portVars, appVars, serverVars>>

----------------------------------------------------------------------------
(* SendMessage: WaitUntilRunning, then Send, which looks at the port again. *)

WaitsUntilRunning ==
    /\ pc = "wait"
    /\ isRunning \/ stopRequested
    /\ Goto("send")
    /\ UNCHANGED <<stateVars, fileVars, rosterVars, tableVars, portVars, appVars, serverVars>>

(* What the server makes of the message.  It passes on nothing of a client  *)
(* that is not in the room.                                                 *)
SendSucceeds ==
    /\ pc = "send" /\ isRunning
    /\ \/ /\ msg = "join"
          /\ member' = TRUE /\ replies' = replies \cup {"joined"}
          /\ Goto("waitJoin")
          /\ UNCHANGED <<channel, offers, unanswered, leaves>>
       \/ /\ msg = "ping"
          /\ replies' = replies \cup {"pong"}
          /\ Goto("main")
          /\ UNCHANGED <<channel, member, offers, unanswered, leaves>>
       \/ /\ msg = "offer"
          /\ channel' = IF channel = "new" THEN IF member THEN "open" ELSE "dead" ELSE channel
          /\ Goto(Channelled)
          /\ UNCHANGED serverVars
       \/ /\ msg = "file_offer"
          /\ offers' = IF member THEN Append(offers, Head(batch)) ELSE offers
          /\ unanswered' = IF member THEN unanswered \cup {Head(batch)} ELSE unanswered
          /\ Goto("offered")
          /\ UNCHANGED <<channel, member, replies, leaves>>
    /\ UNCHANGED <<stateVars, fileVars, rosterVars, pending, portVars, appVars>>

SendFails ==
    /\ pc = "send" /\ ~isRunning
    /\ \/ /\ msg = "join"
          /\ clientState' = "EXIT" /\ Abandon /\ UNCHANGED tableVars
       \/ /\ msg = "ping"
          /\ clientState' = IF clientState = "WAIT_FOR_PONG" THEN "EXIT" ELSE clientState
          /\ Goto("main") /\ UNCHANGED <<tableVars, fileVars>>
       \/ /\ msg = "offer"
          /\ channel' = IF channel = "new" THEN "none" ELSE channel
          /\ clientState' = IF Stopped THEN clientState ELSE "EXIT"
          /\ Abandon /\ UNCHANGED pending
       \/ /\ msg = "file_offer"
          /\ pending' = pending \ {Head(batch)}
          /\ clientState' = "RUN"
          /\ Goto("offered") /\ UNCHANGED <<channel, fileVars>>
    /\ UNCHANGED <<transportOpen, rosterVars, portVars, appVars, serverVars>>

----------------------------------------------------------------------------
(* Messages handled by the callback thread of the socket *)

Handles ==
    /\ sock = "up" /\ MutexFree
    /\ UNCHANGED <<transportOpen, workerVars, portVars, appVars>>

AfterJoinReply == IF clientState = "WAITING_FOR_JOIN" THEN "JOINED" ELSE clientState

(* OnJoin of the client's own name. *)
OnJoin ==
    /\ Handles
    /\ "joined" \in replies /\ replies' = replies \ {"joined"}
    /\ inRoom' = TRUE /\ peerHere' \in BOOLEAN
    /\ clientState' = AfterJoinReply
    /\ UNCHANGED <<tableVars, member, offers, unanswered, leaves>>

(* OnJoin and OnLeave of the peer. *)
OnPeerJoin ==
    /\ Handles
    /\ inRoom /\ member /\ ~peerHere
    /\ peerHere' = TRUE
    /\ UNCHANGED <<clientState, inRoom, tableVars, serverVars>>

OnPeerLeave ==
    /\ Handles
    /\ inRoom /\ member /\ peerHere
    /\ leaves < MaxLeaves /\ leaves' = leaves + 1
    /\ peerHere' = FALSE
    /\ UNCHANGED <<clientState, inRoom, tableVars, member, replies, offers, unanswered>>

OnPingPong ==
    /\ Handles
    /\ "pong" \in replies /\ replies' = replies \ {"pong"}
    /\ clientState' = IF clientState = "WAIT_FOR_PONG" THEN "RUN" ELSE clientState
    /\ UNCHANGED <<rosterVars, tableVars, member, offers, unanswered, leaves>>

AfterAnswer(accept) ==
    IF clientState = "WAIT_FOR_FILE_ACCEPT" /\ (accept => channel # "none")
    THEN "RUN" ELSE clientState

(* OnFileAccept or OnFileReject. *)
OnFileAnswer(f, accept) ==
    /\ Handles
    /\ f \in unanswered /\ unanswered' = unanswered \ {f}
    /\ pending' = pending \ {f}
    /\ clientState' = IF f \in pending THEN AfterAnswer(accept) ELSE clientState
    /\ UNCHANGED <<rosterVars, channel, member, replies, offers, leaves>>

----------------------------------------------------------------------------
(* The port: its thread and its socket *)

(* A fresh socket, or the end when a stop is requested. *)
PortConnects ==
    /\ port = "make"
    /\ IF stopRequested
       THEN port' = "ended" /\ UNCHANGED <<disconnected, sock>>
       ELSE port' = "watch" /\ disconnected' = FALSE /\ sock' = "connecting"
    /\ UNCHANGED <<stateVars, workerVars, rosterVars, tableVars, isRunning, stopRequested, losses,
                   appVars, serverVars>>

PortWaitOver == disconnected \/ stopRequested

PortWakes ==
    /\ port = "watch" /\ PortWaitOver
    /\ port' = "stopping"
    /\ UNCHANGED <<stateVars, workerVars, rosterVars, tableVars, isRunning, stopRequested,
                   disconnected, sock, losses, appVars, serverVars>>

(* The socket is stopped once its callback thread is through. *)
PortStopped ==
    /\ port = "stopping" /\ sock = "down"
    /\ port' = "make"
    /\ UNCHANGED <<stateVars, workerVars, rosterVars, tableVars, isRunning, stopRequested,
                   disconnected, sock, losses, appVars, serverVars>>

SocketOpens ==
    /\ sock = "connecting"
    /\ sock' = "opened"
    /\ isRunning' = ~stopRequested
    /\ UNCHANGED <<stateVars, workerVars, rosterVars, tableVars, stopRequested, disconnected, port,
                   losses, appVars, serverVars>>

OnMessageOpen ==
    /\ sock = "opened" /\ MutexFree
    /\ sock' = "up"
    /\ transportOpen' = TRUE
    /\ UNCHANGED <<clientState, workerVars, rosterVars, tableVars, isRunning, stopRequested,
                   disconnected, port, losses, appVars, serverVars>>

(* The connection is lost, refused, or closed by the port itself. *)
SocketEnds ==
    /\ \/ sock = "up" /\ sock' = "closed"
       \/ sock = "connecting" /\ sock' = "down"
    /\ \/ port = "stopping" /\ UNCHANGED losses
       \/ port = "watch" /\ losses < MaxLosses /\ losses' = losses + 1
    /\ isRunning' = FALSE /\ disconnected' = TRUE
    /\ member' = FALSE /\ replies' = {} /\ unanswered' = {}
    /\ UNCHANGED <<stateVars, workerVars, rosterVars, tableVars, stopRequested, port, appVars, offers, leaves>>

(* OnMessageClose, up to the release of m_clientStateMutex. *)
OnMessageClose ==
    /\ sock = "closed" /\ MutexFree
    /\ IF clientState = "EXIT"
       THEN sock' = "down" /\ UNCHANGED stateVars
       ELSE sock' = "clearing" /\ clientState' = "INIT" /\ transportOpen' = FALSE
    /\ UNCHANGED <<workerVars, rosterVars, tableVars, isRunning, stopRequested, disconnected, port,
                   losses, appVars, serverVars>>

(* What a roster shows after ClearRooms. *)
AfterLoss(known) == FALSE

(* The rest of it: the channels and the rooms are cleared. *)
ClearsTables ==
    /\ sock = "clearing" /\ sock' = "down"
    /\ channel' = "none"
    /\ inRoom' = AfterLoss(inRoom) /\ peerHere' = AfterLoss(peerHere)
    /\ receiving' = IF receiving = "data" THEN "no" ELSE receiving
    /\ UNCHANGED <<stateVars, workerVars, pending, isRunning, stopRequested, disconnected, port,
                   losses, stopper, receives, serverVars>>

----------------------------------------------------------------------------
(* The application and the data channel *)

Valid(f) == f # NoFile

QueueFile(f) ==
    /\ MutexFree /\ clientState # "EXIT"
    /\ Valid(f)
    /\ f \notin Range(asked) \cup Range(StartFiles)   \* bound: each file once
    /\ queue' = Append(queue, f) /\ asked' = Append(asked, f)
    /\ UNCHANGED <<stateVars, threadVars, batch, rosterVars, tableVars, portVars, appVars, serverVars>>

(* Stop is called. *)
StopCalled ==
    /\ Stops /\ stopper = "no" /\ stopper' = "called"
    /\ UNCHANGED <<stateVars, workerVars, rosterVars, tableVars, portVars, receiving, receives,
                   serverVars>>

StopSetsExit ==
    /\ stopper = "called" /\ MutexFree
    /\ stopper' = "exit"
    /\ clientState' = "EXIT"
    /\ UNCHANGED <<transportOpen, workerVars, rosterVars, tableVars, portVars, receiving, receives,
                   serverVars>>

(* MessagePortClient::Stop, up to the join of the port thread. *)
StopsPort ==
    /\ stopper = "exit" /\ stopper' = "port"
    /\ isRunning' = FALSE /\ stopRequested' = TRUE
    /\ UNCHANGED <<stateVars, workerVars, rosterVars, tableVars, disconnected, port, sock, losses,
                   receiving, receives, serverVars>>

(* Both threads have been joined. *)
StopReturned ==
    /\ stopper = "port" /\ port = "ended" /\ pc = "ended"
    /\ stopper' = "returned"
    /\ UNCHANGED <<stateVars, workerVars, rosterVars, tableVars, portVars, receiving, receives,
                   serverVars>>

(* A file offered by the peer starts to come in. *)
ReceiveStarts ==
    /\ sock = "up" /\ member /\ inRoom /\ receiving = "no" /\ receives < MaxReceives
    /\ receiving' = "data" /\ receives' = receives + 1
    /\ UNCHANGED <<stateVars, workerVars, rosterVars, tableVars, portVars, stopper, serverVars>>

(* OnIncomingChunk writes the last chunk ... *)
LastChunk ==
    /\ receiving = "data" /\ receiving' = "written"
    /\ UNCHANGED <<stateVars, workerVars, rosterVars, tableVars, portVars, stopper, receives,
                   serverVars>>

(* ... and sets the state to CLIENT_RUN, whatever it was. *)
TransferComplete ==
    /\ receiving = "written" /\ MutexFree
    /\ receiving' = "no"
    /\ clientState' = "RUN"
    /\ UNCHANGED <<transportOpen, workerVars, rosterVars, tableVars, portVars, stopper, receives,
                   serverVars>>

----------------------------------------------------------------------------
Init ==
    /\ clientState = "INIT" /\ transportOpen = FALSE
    /\ pc = "main" /\ ret = "connect" /\ msg = "join"
    /\ queue = <<>> /\ batch = <<>> /\ asked = <<>>
    /\ inRoom = FALSE /\ peerHere = FALSE
    /\ channel = "none" /\ pending = {}
    /\ isRunning = FALSE /\ stopRequested = FALSE /\ disconnected = FALSE
    /\ port = "make" /\ sock = "down"
    /\ stopper = "no" /\ receiving = "no"
    /\ member = FALSE /\ replies = {} /\ offers = <<>> /\ unanswered = {}
    /\ losses = 0 /\ receives = 0 /\ leaves = 0

WorkerTimeout ==
    IdleTimeout \/ PongTimeout \/ JoinTimeout \/ PeerTimeout \/ DescriptionTimeout

WorkerStep ==
    \/ Ends \/ Begins \/ TakesQueue \/ SendsPing
    \/ Joins \/ JoinWaitOver \/ Connects \/ MakesChannel \/ InsertsChannel
    \/ OffersNext \/ PeerWaitOver \/ ReadsFile \/ RegistersOffer \/ Offered
    \/ WaitsUntilRunning \/ SendSucceeds \/ SendFails

PortStep == PortConnects \/ PortWakes \/ PortStopped

SocketStep == SocketOpens \/ OnMessageOpen \/ OnMessageClose \/ ClearsTables

StopStep == StopSetsExit \/ StopsPort \/ StopReturned

Next ==
    \/ WorkerStep \/ WorkerTimeout \/ PortStep \/ SocketStep \/ SocketEnds
    \/ OnJoin \/ OnPeerJoin \/ OnPeerLeave \/ OnPingPong
    \/ \E f \in Files, accept \in BOOLEAN : OnFileAnswer(f, accept)
    \/ \E f \in Files \cup {NoFile} : QueueFile(f)
    \/ StopCalled \/ StopStep \/ ReceiveStarts \/ LastChunk \/ TransferComplete

Spec == Init /\ [][Next]_vars

(* Every thread keeps running and a wait that can time out does so, the     *)
(* server can be reached when the losses are over, it answers, and the peer *)
(* comes back and answers.  Nobody has to call Stop.                        *)
FairSpec ==
    /\ Spec
    /\ WF_vars(WorkerStep) /\ WF_vars(WorkerTimeout) /\ WF_vars(PortStep) /\ WF_vars(SocketStep)
    /\ WF_vars(port = "stopping" /\ SocketEnds)
    /\ WF_vars(OnJoin) /\ WF_vars(OnPingPong)
    /\ WF_vars(OnPeerJoin)
    /\ \A f \in Files : WF_vars(\E accept \in BOOLEAN : OnFileAnswer(f, accept))
    /\ WF_vars(StopStep) /\ WF_vars(LastChunk) /\ WF_vars(TransferComplete)

----------------------------------------------------------------------------
(* Properties *)

(* The variables have the types of the state they stand for. *)
TypeOK ==
    /\ clientState \in States /\ transportOpen \in BOOLEAN
    /\ pc \in {"main", "join", "connect", "channel", "insert", "offerNext", "peer", "fileOffer",
               "register", "offered", "wait", "send", "waitJoin", "ended"}
    /\ ret \in {"connect", "peer"} /\ msg \in {"join", "ping", "offer", "file_offer"}
    /\ queue \in Seq(Files) /\ batch \in Seq(Files) /\ asked \in Seq(Files)
    /\ inRoom \in BOOLEAN /\ peerHere \in BOOLEAN
    /\ channel \in {"none", "new", "open", "dead"} /\ pending \subseteq Files
    /\ isRunning \in BOOLEAN /\ stopRequested \in BOOLEAN /\ disconnected \in BOOLEAN
    /\ port \in {"make", "watch", "stopping", "ended"}
    /\ sock \in {"connecting", "opened", "up", "closed", "clearing", "down"}
    /\ stopper \in {"no", "called", "exit", "port", "returned"}
    /\ receiving \in {"no", "data", "written"}
    /\ member \in BOOLEAN /\ replies \subseteq {"joined", "pong"}
    /\ offers \in Seq(Files) /\ unanswered \subseteq Files
    /\ losses \in 0 .. MaxLosses /\ receives \in 0 .. MaxReceives /\ leaves \in 0 .. MaxLeaves

(* The loop of StartClient never finds the two states of a join: in one its *)
(* last wait would never end, in the other the loop would spin.             *)
NeverParked == pc = "main" => clientState \notin {"WAITING_FOR_JOIN", "JOINED"}

(* Requests are handled in the order QueueFile took them, whatever becomes  *)
(* of the session (WebRTCClient.hpp:90-92).                                 *)
RequestsInOrder ==
    \A i, j \in DOMAIN asked : i < j =>
        \A k, l \in DOMAIN offers : offers[k] = asked[j] /\ offers[l] = asked[i] => l < k

(* The client is running: nobody has called Stop, and it has not given up   *)
(* after a time-out (CLIENT_EXIT).                                          *)
Serving == stopper = "no" /\ clientState # "EXIT"

(* A live session's roster is of the connection it has now: the rooms of a  *)
(* lost one are forgotten before the next one opens (OnMessageClose).  A    *)
(* received file may undo an exit for which OnMessageClose cleared nothing. *)
RosterOfThisConnection ==
    Serving /\ receives = 0 /\ inRoom /\ sock \in {"opened", "up"} => member



(* Stop returns, both threads it joins having come to their end, when no    *)
(* file is queued: SendFileOffer overwrites the state Stop sets.            *)
StopReturns ==
    stopper = "called" /\ asked = <<>> ~> stopper = "returned" \/ asked # <<>>
=============================================================================
