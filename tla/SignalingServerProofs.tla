----------------------- MODULE SignalingServerProofs -----------------------
(* What the signalling server guarantees whatever the names, rooms and     *)
(* sockets, and however the connections of one name overlap.               *)
EXTENDS SignalingServer, FiniteSetTheorems, SequenceTheorems, TLAPS

(* The rooms of a finite set in some order: SetToSeq lists members of it. *)
LEMMA SetToSeqType ==
    ASSUME NEW S, IsFiniteSet(S)
    PROVE  SetToSeq(S) \in Seq(S)
<1>1. Cardinality(S) \in Nat
  BY FS_CardinalityType
<1>2. \E f \in [1..Cardinality(S) -> S] : IsInjective(f)
  <2>1. PICK f : f \in Bijection(1..Cardinality(S), S)
    BY FS_CardinalityType DEF ExistsBijection
  <2>2. f \in [1..Cardinality(S) -> S] /\ IsInjective(f)
    BY <2>1 DEF Bijection, Injection, Surjection, IsInjective
  <2>3. QED
    BY <2>2
<1>3. SetToSeq(S) \in [1..Cardinality(S) -> S]
  BY <1>2 DEF SetToSeq
<1>4. QED
  BY <1>1, <1>3

(* Sending well-formed messages keeps the inboxes well formed. *)
LEMMA PostedType ==
    ASSUME TypeOK, NEW targets, NEW m \in Message
    PROVE  Posted(targets, m) \in [Sockets -> Seq(Message)]
BY DEF Posted, TypeOK

(* A roster notification is a message. *)
LEMMA NoticeType ==
    ASSUME NEW kind \in Notices, NEW n \in Names, NEW r \in Rooms, NEW peers \in SUBSET Names
    PROVE  Notice(kind, n, r, peers) \in Message
BY DEF Notice, Message

(* A relayed negotiation message is a message. *)
LEMMA RelayedType ==
    ASSUME NEW kind \in RoomRelays \cup DirectRelays \cup {"pong"}, NEW n \in Names
    PROVE  Relayed(kind, n) \in Message
BY DEF Relayed, Message

(* What is recorded of a failed send is a kind of message. *)
LEMMA LostType ==
    ASSUME TypeOK, NEW targets, NEW kind \in Notices \cup RoomRelays \cup DirectRelays
    PROVE  LostAfter(targets, kind) \subseteq Notices \cup RoomRelays \cup DirectRelays
BY DEF LostAfter, TypeOK

(* The notifications of a leave are lists of messages. *)
LEMMA LeaveNoticesType ==
    ASSUME TypeOK, NEW s \in Sockets, NEW n \in Names
    PROVE  LeaveNotices(s, n, LeftRooms(n)) \in Seq(Message)
<1> DEFINE heard == {r \in LeftRooms(n) : s \in Addressed(m_clientDB, m_rooms[r] \ {n})}
           order == SetToSeq(heard)
           notice(i) == Notice("peer_left", n, order[i], LeaveRoster(n, order[i]))
<1>1. IsFiniteSet(heard) /\ heard \subseteq Rooms
  BY FS_Subset, ConstantsAssumption DEF LeftRooms
<1>2. order \in Seq(Rooms)
  <2>1. order \in Seq(heard)
    BY <1>1, SetToSeqType
  <2> HIDE DEF order, heard
  <2>2. QED
    BY <1>1, <2>1
<1>3. LeaveNotices(s, n, LeftRooms(n)) = [i \in DOMAIN order |-> notice(i)]
  BY DEF LeaveNotices
<1> HIDE DEF order
<1>4. \A i \in DOMAIN order : notice(i) \in Message
  <2> SUFFICES ASSUME NEW i \in DOMAIN order
               PROVE  notice(i) \in Message
    OBVIOUS
  <2>1. order[i] \in Rooms
    BY <1>2
  <2>2. LeaveRoster(n, order[i]) \in SUBSET Names
    BY <2>1 DEF LeaveRoster, TypeOK
  <2>3. QED
    BY <2>1, <2>2, NoticeType DEF Notices
<1> HIDE DEF notice
<1>5. DOMAIN order = 1..Len(order) /\ Len(order) \in Nat
  BY <1>2
<1>6. [i \in DOMAIN order |-> notice(i)] \in Seq(Message)
  BY <1>4, <1>5
<1>7. QED
  BY <1>3, <1>6

----------------------------------------------------------------------------
(* The server's tables and the clients' inboxes always have their types:   *)
(* every handler of WebRTCServer.cpp keeps them.                            *)
THEOREM TypeCorrect == Spec => []TypeOK
<1>1. Init => TypeOK
  BY ConstantsAssumption DEF Init, TypeOK
<1>2. TypeOK /\ [Next]_vars => TypeOK'
  <2> SUFFICES ASSUME TypeOK, [Next]_vars
               PROVE  TypeOK'
    OBVIOUS
  <2> USE ConstantsAssumption
  <2>1. ASSUME NEW s \in Sockets, Open(s)
        PROVE  TypeOK'
    BY <2>1 DEF Open, TypeOK
  <2>2. ASSUME NEW s \in Sockets, Break(s)
        PROVE  TypeOK'
    BY <2>2 DEF Break, TypeOK
  <2>3. ASSUME NEW s \in Sockets, Close(s)
        PROVE  TypeOK'
    <3>1. Owner[s] \in Names
      OBVIOUS
    <3>2. m_rooms' \in [Rooms -> SUBSET Names]
      BY <2>3 DEF Close, TypeOK
    <3>3. inbox' \in [Sockets -> Seq(Message)]
      <4>1. \A t \in Sockets : LeaveNotices(t, Owner[s], LeftRooms(Owner[s])) \in Seq(Message)
        BY <3>1, LeaveNoticesType
      <4>2. \A t \in Sockets :
               inbox[t] \o LeaveNotices(t, Owner[s], LeftRooms(Owner[s])) \in Seq(Message)
        BY <4>1 DEF TypeOK
      <4>3. QED
        BY <2>3, <4>2 DEF Close, TypeOK
    <3>4. lost' \subseteq Notices \cup RoomRelays \cup DirectRelays
      BY <2>3, LostType DEF Close, Notices
    <3>5. status' \in [Sockets -> {"new", "open", "broken", "closed"}]
      BY <2>3 DEF Close, TypeOK
    <3>6. /\ m_clientDB' \in [Names -> Sockets \cup {NoSocket}]
          /\ view' \in [Sockets -> [Rooms -> SUBSET Names]]
          /\ awaiting' \in [Sockets -> SUBSET Rooms]
      BY <2>3 DEF Close, TypeOK
    <3>7. QED
      BY <3>2, <3>3, <3>4, <3>5, <3>6 DEF TypeOK
  <2>4. ASSUME NEW s \in Sockets, Ping(s)
        PROVE  TypeOK'
    <3>1. Relayed("pong", Owner[s]) \in Message
      BY RelayedType
    <3>2. inbox' \in [Sockets -> Seq(Message)]
      BY <2>4, <3>1, PostedType DEF Ping
    <3>3. QED
      BY <2>4, <3>2 DEF Ping, TypeOK
  <2>5. ASSUME NEW s \in Sockets, Deliver(s)
        PROVE  TypeOK'
    <3>1. Head(inbox[s]) \in Message /\ Tail(inbox[s]) \in Seq(Message)
      BY <2>5 DEF Deliver, TypeOK
    <3>2. ViewAfter(s, Head(inbox[s])) \in [Rooms -> SUBSET Names]
      BY <3>1 DEF ViewAfter, Message, TypeOK, Notices, RoomRelays, DirectRelays
    <3>3. QED
      BY <2>5, <3>1, <3>2 DEF Deliver, TypeOK
  <2>6. ASSUME NEW s \in Sockets, NEW r \in Rooms, Join(s, r)
        PROVE  TypeOK'
    <3> DEFINE peers == m_rooms[r] \cup {Owner[s]}
               targets == Addressed(JoinedDB(s), JoinAudience(s, r))
    <3>1. /\ awaiting' \in [Sockets -> SUBSET Rooms]
          /\ UNCHANGED <<status, view>>
      BY <2>6 DEF Join, TypeOK
    <3>2. CASE Owner[s] \in m_rooms[r]
      BY <2>6, <3>1, <3>2 DEF Join, TypeOK
    <3>3. CASE Owner[s] \notin m_rooms[r]
      <4>1. /\ m_rooms' = [m_rooms EXCEPT ![r] = peers]
            /\ m_clientDB' = JoinedDB(s)
            /\ inbox' = Posted(targets, Notice("peer_joined", Owner[s], r, peers))
            /\ lost' = LostAfter(targets, "peer_joined")
        BY <2>6, <3>3 DEF Join
      <4>2. peers \in SUBSET Names
        BY DEF TypeOK
      <4>3. m_rooms' \in [Rooms -> SUBSET Names]
        BY <4>1, <4>2 DEF TypeOK
      <4>4. m_clientDB' \in [Names -> Sockets \cup {NoSocket}]
        BY <4>1 DEF JoinedDB, TypeOK
      <4>5. inbox' \in [Sockets -> Seq(Message)]
        BY <4>1, <4>2, NoticeType, PostedType DEF Notices
      <4>6. lost' \subseteq Notices \cup RoomRelays \cup DirectRelays
        BY <4>1, LostType DEF Notices
      <4>7. QED
        BY <3>1, <4>3, <4>4, <4>5, <4>6 DEF TypeOK
    <3>4. QED
      BY <3>2, <3>3
  <2>7. ASSUME NEW s \in Sockets, NEW r \in Rooms, Leave(s, r)
        PROVE  TypeOK'
    <3>1. Notice("peer_left", Owner[s], r, LeaveRoster(Owner[s], r)) \in Message
      BY NoticeType DEF TypeOK, Notices, LeaveRoster
    <3>2. inbox' \in [Sockets -> Seq(Message)]
      BY <2>7, <3>1, PostedType DEF Leave
    <3>3. lost' \subseteq Notices \cup RoomRelays \cup DirectRelays
      BY <2>7, LostType DEF Leave, Notices
    <3>4. QED
      BY <2>7, <3>2, <3>3 DEF Leave, TypeOK
  <2>8. ASSUME NEW s \in Sockets, NEW to \in Names, NEW kind \in Relays,
               DirectRelay(s, to, kind)
        PROVE  TypeOK'
    <3>1. Relayed(kind, Owner[s]) \in Message
      BY RelayedType
    <3>2. inbox' \in [Sockets -> Seq(Message)]
      BY <2>8, <3>1, PostedType DEF DirectRelay
    <3>3. lost' \subseteq Notices \cup RoomRelays \cup DirectRelays
      BY <2>8, LostType DEF DirectRelay
    <3>4. QED
      BY <2>8, <3>2, <3>3 DEF DirectRelay, TypeOK
  <2>9. ASSUME NEW s \in Sockets, NEW to \in Names, NEW r \in Rooms, NEW kind \in Relays,
               RoomRelay(s, to, r, kind)
        PROVE  TypeOK'
    <3>1. Relayed(kind, Owner[s]) \in Message
      BY RelayedType
    <3>2. inbox' \in [Sockets -> Seq(Message)]
      BY <2>9, <3>1, PostedType DEF RoomRelay
    <3>3. lost' \subseteq Notices \cup RoomRelays \cup DirectRelays
      BY <2>9, LostType DEF RoomRelay
    <3>4. QED
      BY <2>9, <3>2, <3>3 DEF RoomRelay, TypeOK
  <2>10. CASE UNCHANGED vars
    BY <2>10 DEF vars, TypeOK
  <2>11. QED
    BY <2>1, <2>2, <2>3, <2>4, <2>5, <2>6, <2>7, <2>8, <2>9, <2>10 DEF Next
<1>3. QED
  BY <1>1, <1>2, PTL DEF Spec

----------------------------------------------------------------------------
(* A set of names that all are addressed through registered sockets. *)
LEMMA AddressedRegistered ==
    ASSUME MembersAreReachable, NEW r \in Rooms, NEW names \in SUBSET m_rooms[r]
    PROVE  \A t \in Addressed(m_clientDB, names) : t \in Sockets /\ Registered(t)
BY DEF MembersAreReachable, Addressed

(* Nothing is lost when every target is registered. *)
LEMMA NothingLost ==
    ASSUME NEW targets, NEW kind, \A t \in targets : Registered(t)
    PROVE  LostAfter(targets, kind) = lost
BY DEF LostAfter, Registered

(* A step that touches neither the rooms, the client table nor the state of *)
(* a socket, except that a new socket opens or an open one breaks.          *)
LEMMA SameTables ==
    ASSUME TypeOK, MembersAreReachable, UNCHANGED <<m_rooms, m_clientDB>>,
           \A t \in Sockets : Registered(t) => Registered(t)'
    PROVE  MembersAreReachable'
BY DEF TypeOK, MembersAreReachable, Registered

(* Every member of a room is addressed through a socket of its own that is *)
(* not closed: what m_clientDB, which is never erased, owes its users.     *)
THEOREM MembersReachable == Spec => []MembersAreReachable
<1>1. Init => MembersAreReachable
  BY DEF Init, MembersAreReachable
<1>2. TypeOK /\ MembersAreReachable /\ [Next]_vars => MembersAreReachable'
  <2> SUFFICES ASSUME TypeOK, MembersAreReachable, [Next]_vars
               PROVE  MembersAreReachable'
    OBVIOUS
  <2> USE ConstantsAssumption
  <2>1. ASSUME NEW s \in Sockets, Open(s)
        PROVE  MembersAreReachable'
    BY <2>1, SameTables DEF Open, Registered, TypeOK
  <2>2. ASSUME NEW s \in Sockets, Break(s)
        PROVE  MembersAreReachable'
    BY <2>2, SameTables DEF Break, Registered, TypeOK
  <2>3. ASSUME NEW s \in Sockets, Close(s)
        PROVE  MembersAreReachable'
    <3>1. \A r \in Rooms : m_rooms'[r] = m_rooms[r] \ {Owner[s]}
      BY <2>3 DEF Close, LeftRooms, TypeOK
    <3>2. ASSUME NEW r \in Rooms, NEW n \in m_rooms'[r]
          PROVE  /\ m_clientDB'[n] \in Sockets
                 /\ status'[m_clientDB'[n]] \in {"open", "broken"}
                 /\ Owner[m_clientDB'[n]] = n
      <4>1. n \in m_rooms[r] /\ n # Owner[s]
        BY <3>1, <3>2
      <4>2. /\ m_clientDB[n] \in Sockets
            /\ Registered(m_clientDB[n])
            /\ Owner[m_clientDB[n]] = n
        BY <4>1 DEF MembersAreReachable
      <4>3. m_clientDB[n] # s
        BY <4>1, <4>2
      <4>4. m_clientDB' = m_clientDB /\ \A t \in Sockets : t # s => status'[t] = status[t]
        BY <2>3 DEF Close, TypeOK
      <4>5. QED
        BY <4>2, <4>3, <4>4 DEF Registered
    <3>3. QED
      BY <3>2 DEF MembersAreReachable, Registered
  <2>4. ASSUME NEW s \in Sockets, Ping(s)
        PROVE  MembersAreReachable'
    BY <2>4, SameTables DEF Ping, Registered
  <2>5. ASSUME NEW s \in Sockets, Deliver(s)
        PROVE  MembersAreReachable'
    BY <2>5, SameTables DEF Deliver, Registered
  <2>6. ASSUME NEW s \in Sockets, NEW r \in Rooms, Join(s, r)
        PROVE  MembersAreReachable'
    <3>1. CASE Owner[s] \in m_rooms[r]
      BY <2>6, <3>1, SameTables DEF Join, Registered
    <3>2. CASE Owner[s] \notin m_rooms[r]
      <4>1. /\ m_rooms' = [m_rooms EXCEPT ![r] = @ \cup {Owner[s]}]
            /\ m_clientDB' = [m_clientDB EXCEPT ![Owner[s]] = s]
            /\ Registered(s) /\ status' = status
        BY <2>6, <3>2 DEF Join, JoinedDB
      <4>2. QED
        BY <4>1 DEF MembersAreReachable, Registered, TypeOK
    <3>3. QED
      BY <3>1, <3>2
  <2>7. ASSUME NEW s \in Sockets, NEW r \in Rooms, Leave(s, r)
        PROVE  MembersAreReachable'
    BY <2>7 DEF Leave, MembersAreReachable, Registered, TypeOK
  <2>8. ASSUME NEW s \in Sockets, NEW to \in Names, NEW kind \in Relays,
               DirectRelay(s, to, kind)
        PROVE  MembersAreReachable'
    BY <2>8, SameTables DEF DirectRelay, Registered
  <2>9. ASSUME NEW s \in Sockets, NEW to \in Names, NEW r \in Rooms, NEW kind \in Relays,
               RoomRelay(s, to, r, kind)
        PROVE  MembersAreReachable'
    BY <2>9, SameTables DEF RoomRelay, Registered
  <2>10. CASE UNCHANGED vars
    BY <2>10, SameTables DEF vars, Registered
  <2>11. QED
    BY <2>1, <2>2, <2>3, <2>4, <2>5, <2>6, <2>7, <2>8, <2>9, <2>10 DEF Next
<1>3. QED
  BY <1>1, <1>2, TypeCorrect, PTL DEF Spec

(* The notifications and every relay that checks the room reach an open    *)
(* connection: only answers and candidates can be sent on a closed socket. *)
THEOREM RoomTrafficNotLost == Spec => []OnlyDirectRelaysAreLost
<1>1. Init => OnlyDirectRelaysAreLost
  BY DEF Init, OnlyDirectRelaysAreLost
<1>2. TypeOK /\ MembersAreReachable /\ OnlyDirectRelaysAreLost /\ [Next]_vars
        => OnlyDirectRelaysAreLost'
  <2> SUFFICES ASSUME TypeOK, MembersAreReachable, OnlyDirectRelaysAreLost, [Next]_vars
               PROVE  OnlyDirectRelaysAreLost'
    OBVIOUS
  <2> USE ConstantsAssumption
  <2>1. ASSUME NEW s \in Sockets, Open(s) \/ Break(s) \/ Ping(s) \/ Deliver(s)
        PROVE  lost' = lost
    BY <2>1 DEF Open, Break, Ping, Deliver
  <2>2. ASSUME NEW s \in Sockets, Close(s)
        PROVE  lost' = lost
    <3> DEFINE n == Owner[s]
               targets == UNION {Addressed(m_clientDB, m_rooms[r] \ {n}) : r \in LeftRooms(n)}
    <3>1. \A t \in targets : Registered(t)
      BY AddressedRegistered DEF LeftRooms
    <3>2. lost' = LostAfter(targets, "peer_left")
      BY <2>2 DEF Close
    <3>3. QED
      BY <3>1, <3>2, NothingLost
  <2>3. ASSUME NEW s \in Sockets, NEW r \in Rooms, Join(s, r)
        PROVE  lost' = lost
    <3> DEFINE targets == Addressed(JoinedDB(s), JoinAudience(s, r))
    <3>1. CASE Owner[s] \in m_rooms[r]
      BY <2>3, <3>1 DEF Join
    <3>2. CASE Owner[s] \notin m_rooms[r]
      <4>1. \A t \in targets : Registered(t)
        <5> SUFFICES ASSUME NEW n \in m_rooms[r] \cup {Owner[s]}
                     PROVE  Registered(JoinedDB(s)[n])
          BY DEF Addressed, JoinAudience
        <5>1. CASE n = Owner[s]
          BY <2>3, <5>1 DEF Join, JoinedDB, TypeOK
        <5>2. CASE n # Owner[s]
          BY <5>2 DEF JoinedDB, MembersAreReachable, TypeOK
        <5>3. QED
          BY <5>1, <5>2
      <4>2. lost' = LostAfter(targets, "peer_joined")
        BY <2>3, <3>2 DEF Join
      <4>3. QED
        BY <4>1, <4>2, NothingLost
    <3>3. QED
      BY <3>1, <3>2
  <2>4. ASSUME NEW s \in Sockets, NEW r \in Rooms, Leave(s, r)
        PROVE  lost' = lost
    <3> DEFINE targets == Addressed(m_clientDB, m_rooms[r] \ {Owner[s]})
    <3>1. \A t \in targets : Registered(t)
      BY AddressedRegistered
    <3>2. lost' = LostAfter(targets, "peer_left")
      BY <2>4 DEF Leave
    <3>3. QED
      BY <3>1, <3>2, NothingLost
  <2>5. ASSUME NEW s \in Sockets, NEW to \in Names, NEW kind \in Relays,
               DirectRelay(s, to, kind)
        PROVE  lost' \subseteq lost \cup DirectRelays
    BY <2>5 DEF DirectRelay, LostAfter
  <2>6. ASSUME NEW s \in Sockets, NEW to \in Names, NEW r \in Rooms, NEW kind \in Relays,
               RoomRelay(s, to, r, kind)
        PROVE  lost' = lost
    <3>1. Registered(m_clientDB[to])
      BY <2>6 DEF RoomRelay, MayRelay, MembersAreReachable
    <3>2. lost' = LostAfter({m_clientDB[to]}, kind)
      BY <2>6 DEF RoomRelay
    <3>3. QED
      BY <3>1, <3>2, NothingLost
  <2>7. CASE UNCHANGED vars
    BY <2>7 DEF vars, OnlyDirectRelaysAreLost
  <2>8. QED
    BY <2>1, <2>2, <2>3, <2>4, <2>5, <2>6, <2>7 DEF Next, OnlyDirectRelaysAreLost
<1>3. QED
  BY <1>1, <1>2, TypeCorrect, MembersReachable, PTL DEF Spec

----------------------------------------------------------------------------
(* What a queue says of a room, in the end: the notifications about it,    *)
(* and the roster of the last of them, or the one shown if there is none.  *)
About(q, r) == {i \in DOMAIN q : q[i].kind \in Notices /\ q[i].room = r}

Says(q, shown, r, peers) ==
    \/ About(q, r) = {} /\ shown = peers
    \/ \E i \in About(q, r) : q[i].peers = peers /\ \A j \in About(q, r) : j <= i

(* That is what the client will know when it has read its inbox.           *)
LEMMA LatestIsSaid ==
    ASSUME TypeOK, NEW s \in Sockets, NEW r \in Rooms, NEW peers,
           Says(inbox[s], view[s][r], r, peers)
    PROVE  Latest(s, r) = peers
<1> DEFINE about == {i \in DOMAIN inbox[s] : inbox[s][i].kind \in Notices /\ inbox[s][i].room = r}
           last == CHOOSE i \in about : \A j \in about : j <= i
<1>1. about = About(inbox[s], r)
  BY DEF About
<1>2. \A i \in about : i \in Nat
  BY DEF TypeOK
<1>3. Latest(s, r) = IF about = {} THEN view[s][r] ELSE inbox[s][last].peers
  BY DEF Latest
<1> HIDE DEF about
<1>4. CASE about = {}
  BY <1>1, <1>3, <1>4 DEF Says
<1>5. CASE about # {}
  <2>1. PICK i \in about : inbox[s][i].peers = peers /\ \A j \in about : j <= i
    BY <1>1, <1>5 DEF Says
  <2>2. last \in about /\ \A j \in about : j <= last
    BY <2>1
  <2>3. last <= i /\ i <= last
    BY <2>1, <2>2
  <2>4. last = i
    BY <1>2, <2>1, <2>2, <2>3
  <2>5. QED
    BY <1>3, <1>5, <2>1, <2>4
<1>6. QED
  BY <1>4, <1>5

(* A notification appended to a queue has the last word on its room.       *)
LEMMA SaysAppended ==
    ASSUME NEW q \in Seq(Message), NEW m \in Message, NEW shown, NEW r,
           m.kind \in Notices, m.room = r
    PROVE  Says(Append(q, m), shown, r, m.peers)
<1> DEFINE a == Append(q, m)
           k == Len(q) + 1
<1>1. k \in DOMAIN a /\ a[k] = m /\ \A j \in DOMAIN a : j <= k
  OBVIOUS
<1> HIDE DEF a
<1>2. k \in About(a, r)
  BY <1>1 DEF About
<1>3. \A j \in About(a, r) : j <= k
  BY <1>1 DEF About
<1>4. QED
  BY <1>1, <1>2, <1>3 DEF Says, a

(* What is appended about other rooms, or about none, changes nothing.     *)
LEMMA SaysStill ==
    ASSUME NEW q \in Seq(Message), NEW m \in Message, NEW shown, NEW r, NEW peers,
           Says(q, shown, r, peers), ~(m.kind \in Notices /\ m.room = r)
    PROVE  Says(Append(q, m), shown, r, peers)
<1> DEFINE a == Append(q, m)
<1>1. /\ DOMAIN a = DOMAIN q \cup {Len(q) + 1}
      /\ \A i \in DOMAIN q : a[i] = q[i]
      /\ a[Len(q) + 1] = m
  OBVIOUS
<1> HIDE DEF a
<1>2. About(a, r) = About(q, r)
  BY <1>1 DEF About
<1>3. \A i \in About(q, r) : a[i] = q[i]
  BY <1>1 DEF About
<1>4. QED
  BY <1>2, <1>3 DEF Says, a

(* The notifications of a leave, appended: the last word on a room is that *)
(* of the one about it.                                                    *)
LEMMA SaysConcatenated ==
    ASSUME NEW q \in Seq(Message), NEW more \in Seq(Message), NEW shown, NEW r, NEW peers,
           \/ Says(q, shown, r, peers) /\ About(more, r) = {}
           \/ \E k \in About(more, r) : more[k].peers = peers /\ About(more, r) = {k}
    PROVE  Says(q \o more, shown, r, peers)
<1> DEFINE c == q \o more
<1>1. Len(q) \in Nat /\ Len(more) \in Nat
  OBVIOUS
<1>2. /\ DOMAIN c = 1 .. Len(q) + Len(more)
      /\ \A i \in 1 .. Len(q) : c[i] = q[i]
      /\ \A i \in 1 .. Len(more) : c[Len(q) + i] = more[i]
      /\ DOMAIN q = 1 .. Len(q) /\ DOMAIN more = 1 .. Len(more)
  OBVIOUS
<1> HIDE DEF c
<1>3. CASE Says(q, shown, r, peers) /\ About(more, r) = {}
  <2>1. About(c, r) = About(q, r)
    <3>1. ASSUME NEW i \in 1 .. Len(q) + Len(more), i \notin 1 .. Len(q)
          PROVE  i \notin About(c, r)
      <4>1. i - Len(q) \in 1 .. Len(more) /\ Len(q) + (i - Len(q)) = i
        BY <1>1, <3>1
      <4>2. c[i] = more[i - Len(q)]
        BY <1>2, <4>1
      <4>3. QED
        BY <1>2, <1>3, <4>1, <4>2 DEF About
    <3>2. \A i \in 1 .. Len(q) : i \in About(c, r) <=> i \in About(q, r)
      BY <1>1, <1>2 DEF About
    <3>3. About(c, r) \subseteq 1 .. Len(q) + Len(more) /\ About(q, r) \subseteq 1 .. Len(q)
      BY <1>2 DEF About
    <3>4. QED
      BY <3>1, <3>2, <3>3
  <2>2. \A i \in About(q, r) : c[i] = q[i]
    BY <1>2 DEF About
  <2>3. QED
    BY <1>3, <2>1, <2>2 DEF Says, c
<1>4. ASSUME NEW k \in About(more, r), more[k].peers = peers, About(more, r) = {k}
      PROVE  Says(c, shown, r, peers)
  <2>1. k \in 1 .. Len(more) /\ more[k].kind \in Notices /\ more[k].room = r
    BY <1>2 DEF About
  <2>2. Len(q) + k \in DOMAIN c /\ c[Len(q) + k] = more[k]
    BY <1>1, <1>2, <2>1
  <2>3. Len(q) + k \in About(c, r)
    BY <2>1, <2>2 DEF About
  <2>4. ASSUME NEW j \in About(c, r)
        PROVE  j <= Len(q) + k
    <3>1. j \in 1 .. Len(q) + Len(more) /\ c[j].kind \in Notices /\ c[j].room = r
      BY <1>2 DEF About
    <3>2. CASE j \in 1 .. Len(q)
      BY <1>1, <2>1, <3>2
    <3>3. CASE j \notin 1 .. Len(q)
      <4>1. j - Len(q) \in 1 .. Len(more) /\ Len(q) + (j - Len(q)) = j
        BY <1>1, <3>1, <3>3
      <4>2. c[j] = more[j - Len(q)]
        BY <1>2, <4>1
      <4>3. j - Len(q) \in About(more, r)
        BY <1>2, <3>1, <4>1, <4>2 DEF About
      <4>4. j - Len(q) = k
        BY <1>4, <4>3
      <4>5. QED
        BY <1>1, <2>1, <3>1, <4>4
    <3>4. QED
      BY <3>2, <3>3
  <2>5. QED
    BY <1>4, <2>2, <2>3, <2>4 DEF Says
<1>5. QED
  BY <1>3, <1>4 DEF c

(* Reading the first message: a roster it has for the room is shown now.   *)
LEMMA SaysRead ==
    ASSUME NEW q \in Seq(Message), q # <<>>, NEW shown, NEW after, NEW r, NEW peers,
           Says(q, shown, r, peers),
           after = IF q[1].kind \in Notices /\ q[1].room = r THEN q[1].peers ELSE shown
    PROVE  Says(Tail(q), after, r, peers)
<1> DEFINE t == Tail(q)
<1>1. Len(q) \in Nat \ {0} /\ DOMAIN q = 1 .. Len(q)
  OBVIOUS
<1>2. DOMAIN t = 1 .. Len(q) - 1 /\ \A i \in 1 .. Len(q) - 1 : t[i] = q[i + 1]
  BY <1>1
<1> HIDE DEF t
<1>3. \A i \in 1 .. Len(q) - 1 : i \in About(t, r) <=> i + 1 \in About(q, r)
  BY <1>1, <1>2 DEF About
<1>4. About(t, r) \subseteq 1 .. Len(q) - 1 /\ About(q, r) \subseteq 1 .. Len(q)
  BY <1>1, <1>2 DEF About
<1>5. 1 \in About(q, r) <=> q[1].kind \in Notices /\ q[1].room = r
  BY <1>1 DEF About
<1>6. CASE About(q, r) = {}
  <2>1. About(t, r) = {}
    BY <1>3, <1>4, <1>6
  <2>2. after = peers
    BY <1>5, <1>6 DEF Says
  <2>3. QED
    BY <2>1, <2>2 DEF Says, t
<1>7. CASE About(q, r) # {}
  <2>1. PICK i \in About(q, r) : q[i].peers = peers /\ \A j \in About(q, r) : j <= i
    BY <1>7 DEF Says
  <2>2. i \in 1 .. Len(q)
    BY <1>4
  <2>3. CASE i = 1
    <3>1. About(t, r) = {}
      <4>1. ASSUME NEW j \in About(t, r)
            PROVE  FALSE
        <5>1. j \in 1 .. Len(q) - 1 /\ j + 1 \in About(q, r)
          BY <1>3, <1>4
        <5>2. j + 1 <= 1
          BY <2>1, <2>3, <5>1
        <5>3. QED
          BY <1>1, <5>1, <5>2
      <4>2. QED
        BY <4>1
    <3>2. after = peers
      BY <1>5, <2>1, <2>3
    <3>3. QED
      BY <3>1, <3>2 DEF Says, t
  <2>4. CASE i # 1
    <3>1. i - 1 \in 1 .. Len(q) - 1 /\ (i - 1) + 1 = i
      BY <1>1, <2>2, <2>4
    <3>2. i - 1 \in About(t, r) /\ t[i - 1] = q[i]
      BY <1>2, <1>3, <3>1
    <3>3. ASSUME NEW j \in About(t, r)
          PROVE  j <= i - 1
      <4>1. j \in 1 .. Len(q) - 1 /\ j + 1 \in About(q, r)
        BY <1>3, <1>4
      <4>2. j + 1 <= i
        BY <2>1, <4>1
      <4>3. QED
        BY <1>1, <2>2, <4>1, <4>2
    <3>4. QED
      BY <2>1, <3>2, <3>3 DEF Says, t
  <2>5. QED
    BY <2>3, <2>4
<1>8. QED
  BY <1>6, <1>7 DEF t

(* SetToSeq lists every member of a finite set once.                       *)
LEMMA SetToSeqLists ==
    ASSUME NEW S, IsFiniteSet(S)
    PROVE  /\ SetToSeq(S) \in Seq(S)
           /\ \A x \in S : \E k \in DOMAIN SetToSeq(S) : SetToSeq(S)[k] = x
           /\ \A i, j \in DOMAIN SetToSeq(S) : SetToSeq(S)[i] = SetToSeq(S)[j] => i = j
<1> DEFINE D == 1 .. Cardinality(S)
           order == SetToSeq(S)
<1>1. Cardinality(S) \in Nat /\ ExistsBijection(D, S)
  BY FS_CardinalityType
<1>2. \E f \in [D -> S] : IsInjective(f)
  <2>1. PICK f : f \in Bijection(D, S)
    BY <1>1 DEF ExistsBijection
  <2>2. QED
    BY <2>1 DEF Bijection, Injection, Surjection, IsInjective
<1>3. order \in [D -> S] /\ IsInjective(order)
  BY <1>2 DEF SetToSeq
<1> HIDE DEF order
<1>4. order \in Injection(D, S)
  BY <1>3 DEF Injection
<1>5. Cardinality(D) = Cardinality(S)
  BY <1>1, FS_Interval
<1>6. order \in Surjection(D, S)
  BY <1>4, <1>5, FS_Injection
<1>7. \A x \in S : \E k \in D : order[k] = x
  BY <1>6 DEF Surjection
<1>8. order \in Seq(S) /\ DOMAIN order = D
  BY <1>1, <1>3
<1>9. QED
  BY <1>3, <1>7, <1>8 DEF IsInjective, order

(* The notifications of a leave have one about each room the reader shares *)
(* with the one that left, and none about another.                         *)
LEMMA LeaveTells ==
    ASSUME TypeOK, NEW t \in Sockets, NEW n \in Names, NEW r \in Rooms
    PROVE  LET more == LeaveNotices(t, n, LeftRooms(n))
           IN  IF r \in LeftRooms(n) /\ t \in Addressed(m_clientDB, m_rooms[r] \ {n})
               THEN \E k \in About(more, r) :
                      more[k].peers = LeaveRoster(n, r) /\ About(more, r) = {k}
               ELSE About(more, r) = {}
<1> DEFINE more == LeaveNotices(t, n, LeftRooms(n))
           heard == {x \in LeftRooms(n) : t \in Addressed(m_clientDB, m_rooms[x] \ {n})}
           order == SetToSeq(heard)
<1>1. IsFiniteSet(heard)
  BY FS_Subset, ConstantsAssumption DEF LeftRooms
<1>2. more = [i \in DOMAIN order |-> Notice("peer_left", n, order[i], LeaveRoster(n, order[i]))]
  BY DEF LeaveNotices
<1>3. r \in heard <=> r \in LeftRooms(n) /\ t \in Addressed(m_clientDB, m_rooms[r] \ {n})
  OBVIOUS
<1> HIDE DEF more, heard
<1>4. /\ order \in Seq(heard)
      /\ \A x \in heard : \E k \in DOMAIN order : order[k] = x
      /\ \A i, j \in DOMAIN order : order[i] = order[j] => i = j
  BY <1>1, SetToSeqLists
<1> HIDE DEF order
<1>5. /\ DOMAIN more = DOMAIN order
      /\ \A i \in DOMAIN order :
           /\ more[i].kind \in Notices /\ more[i].room = order[i]
           /\ more[i].peers = LeaveRoster(n, order[i])
  BY <1>2 DEF Notice, Notices
<1>6. CASE r \in heard
  <2>1. PICK k \in DOMAIN order : order[k] = r
    BY <1>4, <1>6
  <2>2. About(more, r) = {k}
    BY <1>4, <1>5, <2>1 DEF About
  <2>3. more[k].peers = LeaveRoster(n, r)
    BY <1>5, <2>1
  <2>4. \E j \in About(more, r) : more[j].peers = LeaveRoster(n, r) /\ About(more, r) = {j}
    BY <2>2, <2>3
  <2>5. QED
    BY <1>3, <1>6, <2>4 DEF more
<1>7. CASE r \notin heard
  <2>1. \A i \in DOMAIN order : order[i] # r
    BY <1>4, <1>7
  <2>2. About(more, r) = {}
    BY <1>5, <2>1 DEF About
  <2>3. QED
    BY <1>3, <1>7, <2>2 DEF more
<1>8. QED
  BY <1>6, <1>7

----------------------------------------------------------------------------
(* Where the connections of a name do not overlap, it has one at a time.   *)
OneSocket ==
    \A s, t \in Sockets : Registered(s) /\ Registered(t) /\ Owner[s] = Owner[t] => s = t

(* A socket is registered only by opening.                                 *)
LEMMA OneSocketStep ==
    ASSUME Overlap = {}
    PROVE  TypeOK /\ OneSocket /\ [Next]_vars => OneSocket'
<1> SUFFICES ASSUME TypeOK, OneSocket, [Next]_vars
             PROVE  OneSocket'
  OBVIOUS
<1>1. ASSUME \A s \in Sockets : Registered(s)' => Registered(s)
      PROVE  OneSocket'
  BY <1>1 DEF OneSocket
<1>2. ASSUME NEW s \in Sockets, Open(s)
      PROVE  OneSocket'
  <2>1. \A t \in Sockets : Owner[t] = Owner[s] => ~Registered(t)
    BY <1>2 DEF Open
  <2>2. \A t \in Sockets \ {s} : status'[t] = status[t]
    BY <1>2 DEF Open, TypeOK
  <2>3. QED
    BY <2>1, <2>2 DEF OneSocket, Registered
<1>3. ASSUME NEW s \in Sockets, Break(s) \/ Close(s)
      PROVE  OneSocket'
  <2>1. Registered(s) /\ \A t \in Sockets \ {s} : status'[t] = status[t]
    BY <1>3 DEF Break, Close, Registered, TypeOK
  <2>2. QED
    BY <1>1, <2>1 DEF Registered
<1>4. CASE UNCHANGED status
  BY <1>1, <1>4 DEF Registered
<1>5. QED
  BY <1>2, <1>3, <1>4 DEF Next, Ping, Deliver, Join, Leave, DirectRelay, RoomRelay, vars

(* What the members of a room have been told, read or not, is the roster.  *)
ToldInv ==
    \A r \in Rooms : \A n \in m_rooms[r] :
        LET s == m_clientDB[n]
        IN  status[s] = "open" => Says(inbox[s], view[s][r], r, m_rooms[r])

(* If the last word on its way to every member is the membership, what it   *)
(* has been told, read or not, is current.                                  *)
LEMMA ToldIsCurrent == TypeOK /\ MembersAreReachable /\ ToldInv => RosterCurrent
BY LatestIsSaid DEF ToldInv, RosterCurrent, MembersAreReachable

(* Other messages do not change what a queue says.                         *)
LEMMA RelayedStill ==
    ASSUME TypeOK, NEW targets, NEW m \in Message, m.kind \notin Notices,
           inbox' = Posted(targets, m), NEW s \in Sockets, NEW r, NEW peers,
           Says(inbox[s], view[s][r], r, peers)
    PROVE  Says(inbox'[s], view[s][r], r, peers)
<1>1. inbox[s] \in Seq(Message)
  BY DEF TypeOK
<1>2. inbox'[s] = inbox[s] \/ inbox'[s] = Append(inbox[s], m)
  BY DEF Posted
<1>3. QED
  BY <1>1, <1>2, SaysStill

(* The steps that change no roster: a socket opens or breaks, a message is *)
(* relayed.                                                                *)
LEMMA ToldStill ==
    ASSUME TypeOK, MembersAreReachable, ToldInv, UNCHANGED <<m_rooms, m_clientDB>>,
           \A t \in Sockets :
             Registered(t) /\ status'[t] = "open" => status[t] = "open" /\ view'[t] = view[t],
           \/ \A t \in Sockets : status'[t] = "open" /\ Registered(t) => inbox'[t] = inbox[t]
           \/ \E targets, m : m \in Message /\ m.kind \notin Notices /\ inbox' = Posted(targets, m)
    PROVE  ToldInv'
<1> SUFFICES ASSUME NEW r \in Rooms, NEW n \in m_rooms[r],
                    status'[m_clientDB[n]] = "open"
             PROVE  Says(inbox'[m_clientDB[n]], view'[m_clientDB[n]][r], r, m_rooms[r])
  BY DEF ToldInv
<1>1. m_clientDB[n] \in Sockets /\ Registered(m_clientDB[n])
  BY DEF MembersAreReachable
<1>2. status[m_clientDB[n]] = "open" /\ view'[m_clientDB[n]] = view[m_clientDB[n]]
  BY <1>1
<1>3. Says(inbox[m_clientDB[n]], view[m_clientDB[n]][r], r, m_rooms[r])
  BY <1>2 DEF ToldInv
<1>4. QED
  BY <1>1, <1>2, <1>3, RelayedStill

(* A join, for a name with one socket: the others and the newcomer are all *)
(* sent the new roster.                                                    *)
LEMMA ToldJoin ==
    ASSUME TypeOK, MembersAreReachable, OneSocket, ToldInv,
           NEW s \in Sockets, NEW r \in Rooms, Join(s, r)
    PROVE  ToldInv'
<1> USE ConstantsAssumption
<1> DEFINE peers == m_rooms[r] \cup {Owner[s]}
           targets == Addressed(JoinedDB(s), JoinAudience(s, r))
           m == Notice("peer_joined", Owner[s], r, peers)
<1>1. CASE Owner[s] \in m_rooms[r]
  BY <1>1, ToldStill DEF Join, Registered
<1>2. CASE Owner[s] \notin m_rooms[r]
  <2>1. /\ m_rooms' = [m_rooms EXCEPT ![r] = peers] /\ m_clientDB' = JoinedDB(s)
        /\ inbox' = Posted(targets, m) /\ UNCHANGED <<status, view>> /\ Registered(s)
    BY <1>2 DEF Join
  <2>2. /\ \A x \in Rooms : m_rooms'[x] = IF x = r THEN peers ELSE m_rooms[x]
        /\ \A n \in Names : m_clientDB'[n] = IF n = Owner[s] THEN s ELSE m_clientDB[n]
    BY <2>1 DEF JoinedDB, TypeOK
  <2>3. m \in Message /\ m.kind \in Notices /\ m.room = r /\ m.peers = peers
    <3>1. m \in Message
      BY NoticeType DEF TypeOK, Notices
    <3>2. QED
      BY <3>1 DEF Notice, Notices
  <2>4. \A t \in Sockets : /\ inbox[t] \in Seq(Message)
                           /\ inbox'[t] = IF t \in targets /\ status[t] = "open"
                                          THEN Append(inbox[t], m) ELSE inbox[t]
    BY <2>1 DEF Posted, TypeOK
  <2>5. \A n \in peers : m_clientDB'[n] # NoSocket => m_clientDB'[n] \in targets
    BY <2>1 DEF Addressed, JoinAudience
  <2> HIDE DEF m, targets
  <2>6. ASSUME NEW x \in Rooms, NEW n \in m_rooms'[x], status'[m_clientDB'[n]] = "open"
        PROVE  Says(inbox'[m_clientDB'[n]], view'[m_clientDB'[n]][x], x, m_rooms'[x])
    <3> DEFINE t == m_clientDB'[n]
    <3>1. n \in Names /\ (n \in m_rooms[x] \/ (x = r /\ n = Owner[s]))
      BY <2>2 DEF TypeOK
    <3>2. n \in m_rooms[x] => t = m_clientDB[n] /\ t \in Sockets
      BY <2>1, <2>2, <3>1 DEF MembersAreReachable, OneSocket
    <3>3. t \in Sockets
      BY <2>2, <3>1, <3>2
    <3>4. status[t] = "open" /\ view'[t] = view[t]
      BY <2>1, <2>6
    <3>5. CASE x = r
      <4>1. t \in targets
        BY <2>2, <2>5, <3>3, <3>5
      <4>2. inbox'[t] = Append(inbox[t], m) /\ inbox[t] \in Seq(Message)
        BY <2>4, <3>3, <3>4, <4>1
      <4>3. m_rooms'[x] = m.peers
        BY <2>2, <2>3, <3>5
      <4> HIDE DEF t
      <4>4. Says(Append(inbox[t], m), view'[t][x], x, m.peers)
        BY <2>3, <3>5, <4>2, SaysAppended
      <4>5. QED
        BY <4>2, <4>3, <4>4 DEF t
    <3>6. CASE x # r
      <4>1. n \in m_rooms[x] /\ m_rooms'[x] = m_rooms[x]
        BY <2>2, <3>1, <3>6
      <4>2. Says(inbox[t], view[t][x], x, m_rooms[x])
        BY <3>2, <3>4, <4>1 DEF ToldInv
      <4>3. inbox[t] \in Seq(Message) /\ (inbox'[t] = inbox[t] \/ inbox'[t] = Append(inbox[t], m))
        BY <2>4, <3>3
      <4> HIDE DEF t
      <4>4. Says(Append(inbox[t], m), view[t][x], x, m_rooms[x])
        BY <2>3, <3>6, <4>2, <4>3, SaysStill
      <4>5. QED
        BY <3>4, <4>1, <4>2, <4>3, <4>4 DEF t
    <3>7. QED
      BY <3>5, <3>6
  <2>7. QED
    BY <2>6 DEF ToldInv
<1>3. QED
  BY <1>1, <1>2

(* A leave: those that stay are all sent the roster without the name.      *)
LEMMA ToldLeave ==
    ASSUME TypeOK, MembersAreReachable, ToldInv, NEW s \in Sockets, NEW r \in Rooms, Leave(s, r)
    PROVE  ToldInv'
<1> USE ConstantsAssumption
<1> DEFINE n == Owner[s]
           targets == Addressed(m_clientDB, m_rooms[r] \ {n})
           m == Notice("peer_left", n, r, LeaveRoster(n, r))
<1>1. /\ m_rooms' = [m_rooms EXCEPT ![r] = @ \ {n}] /\ inbox' = Posted(targets, m)
      /\ UNCHANGED <<status, m_clientDB, view>>
  BY DEF Leave
<1>2. \A x \in Rooms : m_rooms'[x] = IF x = r THEN m_rooms[r] \ {n} ELSE m_rooms[x]
  BY <1>1 DEF TypeOK
<1>3. m \in Message /\ m.kind \in Notices /\ m.room = r /\ m.peers = m_rooms[r] \ {n}
  <2>1. m \in Message
    BY NoticeType DEF TypeOK, Notices, LeaveRoster
  <2>2. QED
    BY <2>1 DEF Notice, Notices, LeaveRoster
<1>4. \A t \in Sockets : /\ inbox[t] \in Seq(Message)
                         /\ inbox'[t] = IF t \in targets /\ status[t] = "open"
                                        THEN Append(inbox[t], m) ELSE inbox[t]
  BY <1>1 DEF Posted, TypeOK
<1>5. \A k \in m_rooms[r] \ {n} : m_clientDB[k] \in targets
  BY DEF Addressed, MembersAreReachable
<1> HIDE DEF m, targets, n
<1>6. ASSUME NEW x \in Rooms, NEW k \in m_rooms'[x], status'[m_clientDB'[k]] = "open"
      PROVE  Says(inbox'[m_clientDB'[k]], view'[m_clientDB'[k]][x], x, m_rooms'[x])
  <2> DEFINE t == m_clientDB[k]
  <2>1. k \in m_rooms[x] /\ t \in Sockets /\ t = m_clientDB'[k]
    BY <1>1, <1>2 DEF MembersAreReachable
  <2>2. status[t] = "open" /\ view'[t] = view[t] /\ inbox[t] \in Seq(Message)
    BY <1>1, <1>4, <1>6, <2>1
  <2>3. CASE x = r
    <3>1. inbox'[t] = Append(inbox[t], m)
      BY <1>2, <1>4, <1>5, <2>1, <2>2, <2>3
    <3>2. m_rooms'[x] = m.peers
      BY <1>2, <1>3, <2>3
    <3> HIDE DEF t
    <3>3. Says(Append(inbox[t], m), view'[t][x], x, m.peers)
      BY <1>3, <2>2, <2>3, SaysAppended
    <3>4. QED
      BY <2>1, <3>1, <3>2, <3>3
  <2>4. CASE x # r
    <3>1. m_rooms'[x] = m_rooms[x] /\ Says(inbox[t], view[t][x], x, m_rooms[x])
      BY <1>2, <2>1, <2>2, <2>4 DEF ToldInv
    <3>2. inbox'[t] = inbox[t] \/ inbox'[t] = Append(inbox[t], m)
      BY <1>4, <2>1
    <3> HIDE DEF t
    <3>3. Says(Append(inbox[t], m), view[t][x], x, m_rooms[x])
      BY <1>3, <2>2, <2>4, <3>1, SaysStill
    <3>4. QED
      BY <2>1, <2>2, <3>1, <3>2, <3>3
  <2>5. QED
    BY <2>3, <2>4
<1>7. QED
  BY <1>6 DEF ToldInv

(* A close: the name leaves all its rooms at once.                         *)
LEMMA ToldClose ==
    ASSUME TypeOK, MembersAreReachable, ToldInv, NEW s \in Sockets, Close(s)
    PROVE  ToldInv'
<1> USE ConstantsAssumption
<1> DEFINE n == Owner[s]
           more(t) == LeaveNotices(t, n, LeftRooms(n))
<1>1. \A x \in Rooms : m_rooms'[x] = m_rooms[x] \ {n}
  BY DEF Close, LeftRooms, TypeOK
<1>2. /\ m_clientDB' = m_clientDB
      /\ \A t \in Sockets \ {s} : status'[t] = status[t] /\ view'[t] = view[t]
      /\ status'[s] = "closed"
  BY DEF Close, TypeOK
<1>3. \A t \in Sockets \ {s} : status[t] = "open" => inbox'[t] = inbox[t] \o more(t)
  BY DEF Close
<1>4. ASSUME NEW x \in Rooms, NEW k \in m_rooms'[x], status'[m_clientDB'[k]] = "open"
      PROVE  Says(inbox'[m_clientDB'[k]], view'[m_clientDB'[k]][x], x, m_rooms'[x])
  <2> DEFINE t == m_clientDB[k]
  <2>1. k \in m_rooms[x] \ {n} /\ t \in Sockets /\ t # NoSocket /\ t = m_clientDB'[k]
    BY <1>1, <1>2 DEF MembersAreReachable
  <2>2. t # s /\ status[t] = "open" /\ view'[t] = view[t]
    BY <1>2, <1>4, <2>1
  <2>3. t \in Addressed(m_clientDB, m_rooms[x] \ {n})
    BY <2>1 DEF Addressed
  <2>4. inbox'[t] = inbox[t] \o more(t) /\ inbox[t] \in Seq(Message) /\ more(t) \in Seq(Message)
    BY <1>3, <2>1, <2>2, LeaveNoticesType DEF TypeOK
  <2>5. Says(inbox[t], view[t][x], x, m_rooms[x])
    BY <2>1, <2>2 DEF ToldInv
  <2>6. \/ Says(inbox[t], view[t][x], x, m_rooms'[x]) /\ About(more(t), x) = {}
        \/ \E i \in About(more(t), x) :
             more(t)[i].peers = m_rooms'[x] /\ About(more(t), x) = {i}
    <3>1. LeaveRoster(n, x) = m_rooms'[x]
      BY <1>1 DEF LeaveRoster
    <3>2. CASE x \in LeftRooms(n)
      BY <2>1, <2>3, <3>1, <3>2, LeaveTells
    <3>3. CASE x \notin LeftRooms(n)
      <4>1. m_rooms'[x] = m_rooms[x]
        BY <1>1, <3>3 DEF LeftRooms
      <4>2. About(more(t), x) = {}
        BY <2>1, <3>3, LeaveTells
      <4>3. QED
        BY <2>5, <4>1, <4>2
    <3>4. QED
      BY <3>2, <3>3
  <2> HIDE DEF t, more
  <2>7. Says(inbox'[t], view'[t][x], x, m_rooms'[x])
    BY <2>2, <2>4, <2>6, SaysConcatenated
  <2>8. QED
    BY <2>1, <2>7
<1>5. QED
  BY <1>4 DEF ToldInv

(* A client reads a message and takes its roster.                          *)
LEMMA ToldDeliver ==
    ASSUME TypeOK, MembersAreReachable, ToldInv, NEW s \in Sockets, Deliver(s)
    PROVE  ToldInv'
<1>1. /\ UNCHANGED <<status, m_rooms, m_clientDB>> /\ inbox[s] # <<>>
      /\ inbox' = [inbox EXCEPT ![s] = Tail(@)]
      /\ view' = [view EXCEPT ![s] = ViewAfter(s, Head(inbox[s]))]
  BY DEF Deliver
<1>2. /\ inbox[s] \in Seq(Message) /\ Head(inbox[s]) = inbox[s][1]
      /\ inbox'[s] = Tail(inbox[s]) /\ view'[s] = ViewAfter(s, inbox[s][1])
  BY <1>1 DEF TypeOK
<1>3. \A t \in Sockets \ {s} : inbox'[t] = inbox[t] /\ view'[t] = view[t]
  BY <1>1 DEF TypeOK
<1>4. ASSUME NEW x \in Rooms, NEW k \in m_rooms'[x], status'[m_clientDB'[k]] = "open"
      PROVE  Says(inbox'[m_clientDB'[k]], view'[m_clientDB'[k]][x], x, m_rooms'[x])
  <2> DEFINE t == m_clientDB[k]
  <2>1. /\ m_rooms'[x] = m_rooms[x] /\ k \in m_rooms[x] /\ t \in Sockets
        /\ t = m_clientDB'[k] /\ status[t] = "open"
    BY <1>1, <1>4 DEF MembersAreReachable
  <2>2. Says(inbox[t], view[t][x], x, m_rooms[x])
    BY <2>1 DEF ToldInv
  <2>3. CASE t # s
    BY <1>3, <2>1, <2>2, <2>3
  <2>4. CASE t = s
    <3>1. view'[s][x] = IF inbox[s][1].kind \in Notices /\ inbox[s][1].room = x
                        THEN inbox[s][1].peers ELSE view[s][x]
      BY <1>2 DEF ViewAfter, TypeOK
    <3>2. Says(Tail(inbox[s]), view'[s][x], x, m_rooms[x])
      BY <1>1, <1>2, <2>2, <2>4, <3>1, SaysRead
    <3>3. QED
      BY <1>2, <2>1, <2>4, <3>2
  <2>5. QED
    BY <2>3, <2>4
<1>5. QED
  BY <1>4 DEF ToldInv

(* Every step keeps the members told.                                      *)
LEMMA ToldStep ==
    TypeOK /\ MembersAreReachable /\ OneSocket /\ ToldInv /\ [Next]_vars => ToldInv'
<1> SUFFICES ASSUME TypeOK, MembersAreReachable, OneSocket, ToldInv, [Next]_vars
             PROVE  ToldInv'
  OBVIOUS
<1> USE ConstantsAssumption
<1>1. ASSUME NEW s \in Sockets, Open(s)
      PROVE  ToldInv'
  <2>1. \A t \in Sockets : Registered(t) => status'[t] = status[t]
    BY <1>1 DEF Open, Registered, TypeOK
  <2>2. UNCHANGED <<m_rooms, m_clientDB, inbox, view>>
    BY <1>1 DEF Open
  <2>3. QED
    BY <2>1, <2>2, ToldStill
<1>2. ASSUME NEW s \in Sockets, Break(s)
      PROVE  ToldInv'
  <2>1. \A t \in Sockets : status'[t] = "open" =>
          status[t] = "open" /\ view'[t] = view[t] /\ inbox'[t] = inbox[t]
    BY <1>2 DEF Break, TypeOK
  <2>2. UNCHANGED <<m_rooms, m_clientDB>>
    BY <1>2 DEF Break
  <2>3. QED
    BY <2>1, <2>2, ToldStill
<1>3. ASSUME UNCHANGED <<status, m_rooms, m_clientDB, view>>, NEW targets, NEW s \in Sockets,
             NEW kind \in RoomRelays \cup DirectRelays \cup {"pong"},
             inbox' = Posted(targets, Relayed(kind, Owner[s]))
      PROVE  ToldInv'
  <2>1. Relayed(kind, Owner[s]) \in Message
    BY RelayedType
  <2>2. Relayed(kind, Owner[s]).kind \notin Notices
    BY DEF Relayed, Notices, RoomRelays, DirectRelays
  <2>3. QED
    BY <1>3, <2>1, <2>2, ToldStill
<1>4. ASSUME NEW s \in Sockets, Ping(s)
      PROVE  ToldInv'
  BY <1>3, <1>4 DEF Ping
<1>5. ASSUME NEW s \in Sockets, NEW to \in Names, NEW kind \in Relays, DirectRelay(s, to, kind)
      PROVE  ToldInv'
  BY <1>3, <1>5 DEF DirectRelay
<1>6. ASSUME NEW s \in Sockets, NEW to \in Names, NEW r \in Rooms, NEW kind \in Relays,
             RoomRelay(s, to, r, kind)
      PROVE  ToldInv'
  BY <1>3, <1>6 DEF RoomRelay
<1>7. CASE UNCHANGED vars
  BY <1>7, ToldStill DEF vars
<1>8. QED
  BY <1>1, <1>2, <1>4, <1>5, <1>6, <1>7, ToldJoin, ToldLeave, ToldClose, ToldDeliver DEF Next

(* No member ever misses a change of its room, where the connections of a  *)
(* name do not overlap: what it has been told, read or not, is the roster  *)
(* the server keeps (OnJoin, Leave and OnMessageClose tell every member,   *)
(* and m_clientDB names the socket that listens).                          *)
THEOREM RosterIsTold ==
    ASSUME Overlap = {}
    PROVE  Spec => []RosterCurrent
<1>1. Init => OneSocket /\ ToldInv
  BY DEF Init, OneSocket, ToldInv, Registered
<1>2. TypeOK /\ OneSocket /\ [Next]_vars => OneSocket'
  BY OneSocketStep
<1>3. Spec => [](OneSocket /\ ToldInv)
  BY <1>1, <1>2, TypeCorrect, MembersReachable, ToldStep, PTL DEF Spec
<1>4. QED
  BY <1>3, TypeCorrect, MembersReachable, ToldIsCurrent, PTL
=============================================================================
