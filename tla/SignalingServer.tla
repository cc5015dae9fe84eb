-------------------------- MODULE SignalingServer --------------------------
(***************************************************************************)
(* The signalling server of CloudNode (src/src/WebRTCServer.cpp and the    *)
(* room table of src/src/WebRTC.cpp) together with the part of a client    *)
(* that the server's promises are about: the roster of each room a client  *)
(* keeps from the notifications it receives (OnJoin and OnLeave of         *)
(* src/src/WebRTCClient.cpp).                                              *)
(*                                                                         *)
(* All handlers of the server run on the single uWebSockets loop thread,   *)
(* so one handler is one atomic step.  A socket is one WebSocket           *)
(* connection: a client that reconnects comes back on another socket with  *)
(* the same name.  The client's end can disappear long before the server's *)
(* close handler runs; the socket is "broken" in between.                  *)
(***************************************************************************)
EXTENDS Integers, Sequences, FiniteSets, SequencesExt

CONSTANTS
    Names,      \* client names (the x-client-id header)
    Rooms,      \* room names
    Sockets,    \* WebSocket connections over the life of the server
    Owner,      \* the name each socket was upgraded with
    NoSocket,   \* no entry in m_clientDB
    Relays,     \* the kinds of relayed message the clients send
    Overlap,    \* what another socket of the name may be when a socket opens:
                \* a subset of {"open", "broken"}, empty for one at a time
    MaxInbox    \* bound: requests wait while an inbox is this long

RoomRelays == {"offer", "file_offer", "file_accept", "file_reject", "file_complete"}
DirectRelays == {"answer", "candidate"}
Notices == {"peer_joined", "peer_left"}

ASSUME ConstantsAssumption ==
    /\ IsFiniteSet(Rooms)
    /\ Owner \in [Sockets -> Names]
    /\ NoSocket \notin Sockets
    /\ Relays \subseteq RoomRelays \cup DirectRelays
    /\ Overlap \subseteq {"open", "broken"}
    /\ MaxInbox \in Nat

VARIABLES
    status,     \* each socket: "new", "open", "broken" (client end gone) or "closed"
    m_rooms,    \* the members of each room; a room without entry has none
    m_clientDB, \* the socket each name is addressed through
    inbox,      \* what the server has sent on each socket and the client has not handled
    view,       \* the client's own m_rooms, per socket
    awaiting,   \* the rooms whose own peer_joined the client on a socket waits for
    lost        \* the kinds of message the server sent on a closed socket

vars == <<status, m_rooms, m_clientDB, inbox, view, awaiting, lost>>

----------------------------------------------------------------------------
(* Messages *)

(* A mutated form of Notice, used to test the properties: arguments swapped *)
NoticeSwapped(kind, who, room, peers) ==
    [kind |-> kind, peer |-> room, room |-> who, peers |-> peers]

Notice(kind, who, room, peers) ==
    [kind |-> kind, peer |-> who, room |-> room, peers |-> peers]

Relayed(kind, from) == [kind |-> kind, peer |-> from]

Message ==
    [kind : Notices, peer : Names, room : Rooms, peers : SUBSET Names]
        \cup [kind : RoomRelays \cup DirectRelays \cup {"pong"}, peer : Names]

(* The sockets a set of names is addressed through, given the client table. *)
Addressed(db, names) == {db[n] : n \in names} \ {NoSocket}

(* The inboxes after m is sent on each of the targets: a socket whose client *)
(* end is gone takes the bytes and nobody reads them.                        *)
Posted(targets, m) ==
    [s \in Sockets |-> IF s \in targets /\ status[s] = "open"
                       THEN Append(inbox[s], m) ELSE inbox[s]]

(* The kinds of message lost so far, after one of this kind to the targets. *)
LostAfter(targets, kind) ==
    IF \E s \in targets : status[s] = "closed" THEN lost \cup {kind} ELSE lost

(* A socket whose close handler has not run. *)
Registered(s) == status[s] \in {"open", "broken"}

(* Requests are not taken while a client has this much left to read. *)
Calm == \A s \in Sockets : Len(inbox[s]) < MaxInbox

----------------------------------------------------------------------------
(* Mutated forms of definitions below, used to test the properties.        *)

(* an existing entry of m_clientDB is kept *)
JoinedDBKeepsOld(s) ==
    IF m_clientDB[Owner[s]] = NoSocket
    THEN [m_clientDB EXCEPT ![Owner[s]] = s] ELSE m_clientDB

(* the newcomer is left out of the notification *)
JoinNotifiesOthersOnly(s, r) == m_rooms[r]

(* the notification is built before the name is erased *)
LeaveRosterBeforeErase(n, r) == m_rooms[r]

(* only the sender's membership is looked at *)
MayRelayAnyRecipient(s, to, r) == Owner[s] \in m_rooms[r]

----------------------------------------------------------------------------
(* Handlers of the server *)

Init ==
    /\ status = [s \in Sockets |-> "new"]
    /\ m_rooms = [r \in Rooms |-> {}]
    /\ m_clientDB = [n \in Names |-> NoSocket]
    /\ inbox = [s \in Sockets |-> <<>>]
    /\ view = [s \in Sockets |-> [r \in Rooms |-> {}]]
    /\ awaiting = [s \in Sockets |-> {}]
    /\ lost = {}

(* OnMessageOpen only logs: a name is known to the server once it joins. *)
Open(s) ==
    /\ status[s] = "new"
    /\ \A t \in Sockets : Owner[t] = Owner[s] /\ Registered(t) => status[t] \in Overlap
    /\ status' = [status EXCEPT ![s] = "open"]
    /\ UNCHANGED <<m_rooms, m_clientDB, inbox, view, awaiting, lost>>

(* The client table after the socket's name has joined a room. *)
JoinedDB(s) == [m_clientDB EXCEPT ![Owner[s]] = s]

(* Who hears that a name joined: every member, the newcomer included. *)
JoinAudience(s, r) == m_rooms[r] \cup {Owner[s]}

(* OnJoin.  The client asks for a room its own roster does not show it in.  *)
(* A name that already is a member gets no answer at all.                   *)
Join(s, r) ==
    /\ Registered(s)
    /\ Calm
    /\ r \notin awaiting[s] /\ Owner[s] \notin view[s][r]
    /\ awaiting' = [awaiting EXCEPT ![s] = IF status[s] = "open" THEN @ \cup {r} ELSE @]
    /\ IF Owner[s] \in m_rooms[r]
       THEN UNCHANGED <<m_rooms, m_clientDB, inbox, lost>>
       ELSE LET peers == m_rooms[r] \cup {Owner[s]}
                targets == Addressed(JoinedDB(s), JoinAudience(s, r))
            IN  /\ m_rooms' = [m_rooms EXCEPT ![r] = peers]
                /\ m_clientDB' = JoinedDB(s)
                /\ inbox' = Posted(targets, Notice("peer_joined", Owner[s], r, peers))
                /\ lost' = LostAfter(targets, "peer_joined")
    /\ UNCHANGED <<status, view>>

(* The roster sent with the news that n left r. *)
LeaveRoster(n, r) == m_rooms[r] \ {n}

(* OnLeave: the members left in the room are told, even when the name that *)
(* asked was not one of them.                                              *)
Leave(s, r) ==
    /\ Registered(s)
    /\ Calm
    /\ LET n == Owner[s]
           targets == Addressed(m_clientDB, m_rooms[r] \ {n})
       IN  /\ m_rooms' = [m_rooms EXCEPT ![r] = @ \ {n}]
           /\ inbox' = Posted(targets, Notice("peer_left", n, r, LeaveRoster(n, r)))
           /\ lost' = LostAfter(targets, "peer_left")
    /\ UNCHANGED <<status, m_clientDB, view, awaiting>>

(* The rooms a name is taken out of when a socket of its closes: all of its *)
(* rooms, whichever socket it joined them on.                               *)
LeftRooms(n) == {r \in Rooms : n \in m_rooms[r]}

(* The peer_left notifications socket s is sent when n leaves these rooms. *)
LeaveNotices(s, n, rooms) ==
    LET heard == SetToSeq({r \in rooms : s \in Addressed(m_clientDB, m_rooms[r] \ {n})})
    IN  [i \in DOMAIN heard |->
            Notice("peer_left", n, heard[i], LeaveRoster(n, heard[i]))]

(* OnMessageClose.  The entry of m_clientDB stays. *)
Close(s) ==
    /\ Registered(s)
    /\ status' = [status EXCEPT ![s] = "closed"]
    /\ LET n == Owner[s]
           rooms == LeftRooms(n)
           targets == UNION {Addressed(m_clientDB, m_rooms[r] \ {n}) : r \in rooms}
       IN  /\ m_rooms' = [r \in Rooms |-> IF r \in rooms THEN m_rooms[r] \ {n} ELSE m_rooms[r]]
           /\ inbox' = [t \in Sockets |->
                            CASE t = s -> <<>>
                              [] t # s /\ status[t] = "open" -> inbox[t] \o LeaveNotices(t, n, rooms)
                              [] OTHER -> inbox[t]]
           /\ lost' = LostAfter(targets, "peer_left")
    /\ view' = [view EXCEPT ![s] = [r \in Rooms |-> {}]]
    /\ awaiting' = [awaiting EXCEPT ![s] = {}]
    /\ UNCHANGED m_clientDB

(* OnPingPong: the pong goes back on the socket the ping came from. *)
Ping(s) ==
    /\ Registered(s)
    /\ Calm
    /\ inbox' = Posted({s}, Relayed("pong", Owner[s]))
    /\ UNCHANGED <<status, m_rooms, m_clientDB, view, awaiting, lost>>

(* HandleFile, OnOffer and OnFileComplete: both ends must be members. *)
MayRelay(s, to, r) == Owner[s] \in m_rooms[r] /\ to \in m_rooms[r]

RoomRelay(s, to, r, kind) ==
    /\ Registered(s)
    /\ Calm
    /\ kind \in RoomRelays
    /\ MayRelay(s, to, r)
    /\ m_clientDB[to] # NoSocket
    /\ inbox' = Posted({m_clientDB[to]}, Relayed(kind, Owner[s]))
    /\ lost' = LostAfter({m_clientDB[to]}, kind)
    /\ UNCHANGED <<status, m_rooms, m_clientDB, view, awaiting>>

(* OnAnswer and OnCandidate: whoever the name was last joined as. *)
DirectRelay(s, to, kind) ==
    /\ Registered(s)
    /\ Calm
    /\ kind \in DirectRelays
    /\ m_clientDB[to] # NoSocket
    /\ inbox' = Posted({m_clientDB[to]}, Relayed(kind, Owner[s]))
    /\ lost' = LostAfter({m_clientDB[to]}, kind)
    /\ UNCHANGED <<status, m_rooms, m_clientDB, view, awaiting>>

----------------------------------------------------------------------------
(* The client's end *)

(* The connection is lost on the client's side; the server does not know. *)
Break(s) ==
    /\ status[s] = "open"
    /\ status' = [status EXCEPT ![s] = "broken"]
    /\ inbox' = [inbox EXCEPT ![s] = <<>>]
    /\ view' = [view EXCEPT ![s] = [r \in Rooms |-> {}]]
    /\ awaiting' = [awaiting EXCEPT ![s] = {}]
    /\ UNCHANGED <<m_rooms, m_clientDB, lost>>

(* The roster of a notification replaces the client's own for that room. *)
ViewAfter(s, m) ==
    IF m.kind \in Notices THEN [view[s] EXCEPT ![m.room] = m.peers] ELSE view[s]

AnsweredBy(s, m) ==
    IF m.kind = "peer_joined" /\ m.peer = Owner[s] THEN {m.room} ELSE {}

(* The client handles the next message: its OnJoin or OnLeave, or another. *)
Deliver(s) ==
    /\ status[s] = "open"
    /\ inbox[s] # <<>>
    /\ inbox' = [inbox EXCEPT ![s] = Tail(@)]
    /\ view' = [view EXCEPT ![s] = ViewAfter(s, Head(inbox[s]))]
    /\ awaiting' = [awaiting EXCEPT ![s] = @ \ AnsweredBy(s, Head(inbox[s]))]
    /\ UNCHANGED <<status, m_rooms, m_clientDB, lost>>

----------------------------------------------------------------------------
Next ==
    \/ \E s \in Sockets : Open(s) \/ Break(s) \/ Close(s) \/ Ping(s) \/ Deliver(s)
    \/ \E s \in Sockets, r \in Rooms : Join(s, r) \/ Leave(s, r)
    \/ \E s \in Sockets, to \in Names, kind \in Relays :
          DirectRelay(s, to, kind) \/ \E r \in Rooms : RoomRelay(s, to, r, kind)

Spec == Init /\ [][Next]_vars

(* A dead connection is closed by the idle timeout of the WebSocket library. *)
Reap(s) == status[s] = "broken" /\ Close(s)

FairSpec == Spec /\ \A s \in Sockets : WF_vars(Deliver(s)) /\ WF_vars(Reap(s))

----------------------------------------------------------------------------
(* Properties *)

(* The variables have the types of the tables and queues they stand for. *)
TypeOK ==
    /\ status \in [Sockets -> {"new", "open", "broken", "closed"}]
    /\ m_rooms \in [Rooms -> SUBSET Names]
    /\ m_clientDB \in [Names -> Sockets \cup {NoSocket}]
    /\ inbox \in [Sockets -> Seq(Message)]
    /\ view \in [Sockets -> [Rooms -> SUBSET Names]]
    /\ awaiting \in [Sockets -> SUBSET Rooms]
    /\ lost \subseteq Notices \cup RoomRelays \cup DirectRelays

(* Every member of a room is addressed through a socket of its own that the *)
(* server has not closed, although m_clientDB is never erased and a name    *)
(* may hold several sockets: the close of any of them takes the name out of *)
(* all its rooms (OnMessageClose).                                          *)
MembersAreReachable ==
    \A r \in Rooms : \A n \in m_rooms[r] :
        /\ m_clientDB[n] \in Sockets
        /\ Registered(m_clientDB[n])
        /\ Owner[m_clientDB[n]] = n

(* Only messages whose handler looks the recipient up in m_clientDB without *)
(* looking at the rooms (OnAnswer, OnCandidate) are ever sent on a socket   *)
(* that is already closed.                                                  *)
OnlyDirectRelaysAreLost == lost \subseteq DirectRelays

(* The roster of r a client will have once it has read its inbox. *)
Latest(s, r) ==
    LET about == {i \in DOMAIN inbox[s] : inbox[s][i].kind \in Notices /\ inbox[s][i].room = r}
    IN  IF about = {} THEN view[s][r]
        ELSE inbox[s][CHOOSE i \in about : \A j \in about : j <= i].peers

(* No member ever misses a change of its room: what it has been told, read  *)
(* or not, is the server's membership of the room (OnJoin, Leave).          *)
RosterCurrent ==
    \A r \in Rooms : \A n \in m_rooms[r] :
        status[m_clientDB[n]] = "open" => Latest(m_clientDB[n], r) = m_rooms[r]

(* A client that asks to join gets the peer_joined it waits for in          *)
(* CLIENT_WAITING_FOR_JOIN, unless its connection ends first.               *)
JoinIsAnswered ==
    \A s \in Sockets, r \in Rooms : r \in awaiting[s] ~> r \notin awaiting[s]

(* No connection of n is alive. *)
Gone(n) == \A s \in Sockets : Owner[s] = n => status[s] # "open"

(* When the last connection of n is gone, every member of a room eventually *)
(* stops seeing n in it (Break, Close, peer_left, the client's OnLeave).    *)
DepartureIsSeen ==
    \A n, m \in Names, r \in Rooms :
        (Gone(n) /\ m \in m_rooms[r])
            ~> (~Gone(n) \/ m \notin m_rooms[r] \/ n \notin view[m_clientDB[m]][r])
============================================================================
