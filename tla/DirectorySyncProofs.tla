------------------------- MODULE DirectorySyncProofs -------------------------
(* What two clients that mirror a directory guarantee for any paths and any *)
(* number of local changes, deletions and lost connections.                 *)
EXTENDS DirectorySync, TLAPS

Kinds == {"mkdir", "create", "close", "delete"}

(* What becomes of the unread events k once these have happened to q.       *)
Extended(k, q, kinds) == k \o [i \in DOMAIN kinds |-> [kind |-> kinds[i], path |-> q]]

(* k holds an event of p of one of these kinds.                             *)
Holds(k, p, kinds) == \E i \in DOMAIN k : k[i].path = p /\ k[i].kind \in kinds

(* Each deletion of p in k is followed by an event that is reported.        *)
Answered(k, p) ==
    \A i \in DOMAIN k : k[i].path = p /\ k[i].kind = "delete" =>
        \E j \in DOMAIN k : i < j /\ k[j].path = p /\ k[j].kind \in {"mkdir", "close"}

----------------------------------------------------------------------------
(* The events of a directory                                                *)

(* What a longer sequence of events is made of.                             *)
LEMMA ExtendedParts ==
    ASSUME NEW k \in Seq(Events), NEW q \in Paths, NEW kinds \in Seq(Kinds)
    PROVE  /\ Extended(k, q, kinds) \in Seq(Events)
           /\ Len(Extended(k, q, kinds)) = Len(k) + Len(kinds)
           /\ Len(k) \in Nat /\ Len(kinds) \in Nat
           /\ DOMAIN k = 1 .. Len(k) /\ DOMAIN kinds = 1 .. Len(kinds)
           /\ DOMAIN Extended(k, q, kinds) = 1 .. Len(k) + Len(kinds)
           /\ \A i \in 1 .. Len(k) : Extended(k, q, kinds)[i] = k[i]
           /\ \A i \in 1 .. Len(kinds) :
                Extended(k, q, kinds)[Len(k) + i] = [kind |-> kinds[i], path |-> q]
<1> DEFINE new == [i \in DOMAIN kinds |-> [kind |-> kinds[i], path |-> q]]
<1>1. DOMAIN kinds = 1 .. Len(kinds) /\ Len(kinds) \in Nat /\ \A i \in 1 .. Len(kinds) : kinds[i] \in Kinds
  OBVIOUS
<1>2. \A i \in 1 .. Len(kinds) : new[i] \in Events
  BY <1>1 DEF Events, Kinds
<1>3. new \in Seq(Events) /\ Len(new) = Len(kinds)
  BY <1>1, <1>2
<1>4. Extended(k, q, kinds) = k \o new
  BY DEF Extended
<1> HIDE DEF new
<1>5. /\ k \o new \in Seq(Events) /\ Len(k \o new) = Len(k) + Len(new)
      /\ DOMAIN (k \o new) = 1 .. Len(k) + Len(new)
      /\ DOMAIN k = 1 .. Len(k) /\ Len(k) \in Nat
      /\ \A i \in 1 .. Len(k) : (k \o new)[i] = k[i]
      /\ \A i \in 1 .. Len(new) : (k \o new)[Len(k) + i] = new[i]
  BY <1>3
<1>6. \A i \in 1 .. Len(kinds) : new[i] = [kind |-> kinds[i], path |-> q]
  BY <1>1 DEF new
<1>7. QED
  BY <1>1, <1>3, <1>4, <1>5, <1>6

(* It holds what it held and what is new.                                   *)
LEMMA HoldsExtended ==
    ASSUME NEW k \in Seq(Events), NEW p \in Paths, NEW q \in Paths, NEW kinds \in Seq(Kinds), NEW ks
    PROVE  Holds(Extended(k, q, kinds), p, ks) <=>
               Holds(k, p, ks) \/ (p = q /\ \E i \in DOMAIN kinds : kinds[i] \in ks)
<1> DEFINE x == Extended(k, q, kinds)
<1>1. /\ DOMAIN x = 1 .. Len(k) + Len(kinds) /\ Len(k) \in Nat /\ Len(kinds) \in Nat
      /\ DOMAIN k = 1 .. Len(k) /\ DOMAIN kinds = 1 .. Len(kinds)
      /\ \A i \in 1 .. Len(k) : x[i] = k[i]
      /\ \A i \in 1 .. Len(kinds) : x[Len(k) + i] = [kind |-> kinds[i], path |-> q]
  BY ExtendedParts
<1> HIDE DEF x
<1>2. ASSUME Holds(x, p, ks)
      PROVE  Holds(k, p, ks) \/ (p = q /\ \E i \in DOMAIN kinds : kinds[i] \in ks)
  <2>1. PICK i \in DOMAIN x : x[i].path = p /\ x[i].kind \in ks
    BY <1>2 DEF Holds
  <2>2. CASE i \in 1 .. Len(k)
    BY <1>1, <2>1, <2>2 DEF Holds
  <2>3. CASE i \notin 1 .. Len(k)
    <3>1. i - Len(k) \in 1 .. Len(kinds) /\ Len(k) + (i - Len(k)) = i
      BY <1>1, <2>3
    <3>2. x[i] = [kind |-> kinds[i - Len(k)], path |-> q]
      BY <1>1, <3>1
    <3>3. QED
      BY <1>1, <2>1, <3>1, <3>2
  <2>4. QED
    BY <2>2, <2>3
<1>3. ASSUME Holds(k, p, ks)
      PROVE  Holds(x, p, ks)
  <2>1. PICK i \in DOMAIN k : k[i].path = p /\ k[i].kind \in ks
    BY <1>3 DEF Holds
  <2>2. i \in DOMAIN x /\ x[i] = k[i]
    BY <1>1
  <2>3. QED
    BY <2>1, <2>2 DEF Holds
<1>4. ASSUME p = q, NEW i \in DOMAIN kinds, kinds[i] \in ks
      PROVE  Holds(x, p, ks)
  <2>1. Len(k) + i \in DOMAIN x /\ x[Len(k) + i] = [kind |-> kinds[i], path |-> q]
    BY <1>1
  <2>2. QED
    BY <1>4, <2>1 DEF Holds
<1>5. QED
  BY <1>2, <1>3, <1>4 DEF x

(* The deletions of p are answered as before, or by the last event now.     *)
LEMMA AnsweredExtended ==
    ASSUME NEW k \in Seq(Events), NEW p \in Paths, NEW q \in Paths, NEW kinds \in Seq(Kinds)
    PROVE  /\ Answered(k, p) /\ (p = q => \A i \in DOMAIN kinds : kinds[i] # "delete")
                => Answered(Extended(k, q, kinds), p)
           /\ p = q /\ kinds # <<>> /\ kinds[Len(kinds)] = "close"
                => Answered(Extended(k, q, kinds), p)
<1> DEFINE x == Extended(k, q, kinds)
<1>1. /\ DOMAIN x = 1 .. Len(k) + Len(kinds) /\ Len(k) \in Nat /\ Len(kinds) \in Nat
      /\ DOMAIN k = 1 .. Len(k) /\ DOMAIN kinds = 1 .. Len(kinds)
      /\ \A i \in 1 .. Len(k) : x[i] = k[i]
      /\ \A i \in 1 .. Len(kinds) : x[Len(k) + i] = [kind |-> kinds[i], path |-> q]
  BY ExtendedParts
<1> HIDE DEF x
<1>2. ASSUME Answered(k, p), p = q => \A i \in DOMAIN kinds : kinds[i] # "delete",
             NEW i \in DOMAIN x, x[i].path = p, x[i].kind = "delete"
      PROVE  \E j \in DOMAIN x : i < j /\ x[j].path = p /\ x[j].kind \in {"mkdir", "close"}
  <2>1. CASE i \in 1 .. Len(k)
    <3>1. k[i].path = p /\ k[i].kind = "delete" /\ i \in DOMAIN k
      BY <1>1, <1>2, <2>1
    <3>2. PICK j \in DOMAIN k : i < j /\ k[j].path = p /\ k[j].kind \in {"mkdir", "close"}
      BY <1>2, <3>1 DEF Answered
    <3>3. QED
      BY <1>1, <3>2
  <2>2. CASE i \notin 1 .. Len(k)
    <3>1. i - Len(k) \in 1 .. Len(kinds) /\ Len(k) + (i - Len(k)) = i
      BY <1>1, <2>2
    <3>2. x[i] = [kind |-> kinds[i - Len(k)], path |-> q]
      BY <1>1, <3>1
    <3>3. QED
      BY <1>1, <1>2, <3>1, <3>2
  <2>3. QED
    BY <2>1, <2>2
<1>3. ASSUME p = q, kinds # <<>>, kinds[Len(kinds)] = "close",
             NEW i \in DOMAIN x, x[i].path = p, x[i].kind = "delete"
      PROVE  \E j \in DOMAIN x : i < j /\ x[j].path = p /\ x[j].kind \in {"mkdir", "close"}
  <2>1. Len(kinds) > 0
    BY <1>1, <1>3
  <2>2. x[Len(k) + Len(kinds)] = [kind |-> "close", path |-> q]
    BY <1>1, <1>3, <2>1
  <2>3. x[Len(k) + Len(kinds)].path = p /\ x[Len(k) + Len(kinds)].kind = "close"
    BY <1>3, <2>2
  <2>4. i # Len(k) + Len(kinds)
    BY <1>3, <2>3
  <2>5. i < Len(k) + Len(kinds) /\ Len(k) + Len(kinds) \in DOMAIN x
    BY <1>1, <1>3, <2>1, <2>4
  <2>6. QED
    BY <2>3, <2>5
<1>4. QED
  BY <1>2, <1>3 DEF Answered, x

(* What is left when an event has been read.                                *)
LEMMA TailEvents ==
    ASSUME NEW k \in Seq(Events), k # <<>>, NEW p
    PROVE  /\ Head(k) \in Events /\ Tail(k) \in Seq(Events)
           /\ \A ks : Holds(Tail(k), p, ks) => Holds(k, p, ks)
           /\ \A ks : Holds(k, p, ks) =>
                Holds(Tail(k), p, ks) \/ (Head(k).path = p /\ Head(k).kind \in ks)
           /\ Answered(k, p) => Answered(Tail(k), p)
           /\ Answered(k, p) /\ Head(k).path = p /\ Head(k).kind = "delete"
                => Holds(Tail(k), p, {"mkdir", "close"})
<1>1. /\ Len(k) \in Nat \ {0} /\ DOMAIN k = 1 .. Len(k) /\ Head(k) = k[1]
      /\ Head(k) \in Events /\ Tail(k) \in Seq(Events)
  OBVIOUS
<1>2. DOMAIN Tail(k) = 1 .. Len(k) - 1 /\ \A i \in 1 .. Len(k) - 1 : Tail(k)[i] = k[i + 1]
  BY <1>1
<1>3. \A i \in DOMAIN k : i # 1 => i - 1 \in DOMAIN Tail(k) /\ Tail(k)[i - 1] = k[i]
  BY <1>1, <1>2
<1>4. \A ks : Holds(Tail(k), p, ks) => Holds(k, p, ks)
  BY <1>1, <1>2 DEF Holds
<1>5. \A ks : Holds(k, p, ks) => Holds(Tail(k), p, ks) \/ (Head(k).path = p /\ Head(k).kind \in ks)
  BY <1>1, <1>3 DEF Holds
<1>6. ASSUME Answered(k, p), NEW i \in DOMAIN k, k[i].path = p, k[i].kind = "delete"
      PROVE  \E j \in DOMAIN Tail(k) :
                i - 1 < j /\ Tail(k)[j].path = p /\ Tail(k)[j].kind \in {"mkdir", "close"}
  <2>1. PICK j \in DOMAIN k : i < j /\ k[j].path = p /\ k[j].kind \in {"mkdir", "close"}
    BY <1>6 DEF Answered
  <2>2. j - 1 \in DOMAIN Tail(k) /\ Tail(k)[j - 1] = k[j] /\ i - 1 < j - 1
    BY <1>1, <1>3, <2>1
  <2>3. QED
    BY <2>1, <2>2
<1>7. Answered(k, p) => Answered(Tail(k), p)
  <2> SUFFICES ASSUME Answered(k, p), NEW i \in DOMAIN Tail(k),
                      Tail(k)[i].path = p, Tail(k)[i].kind = "delete"
               PROVE  \E j \in DOMAIN Tail(k) :
                        i < j /\ Tail(k)[j].path = p /\ Tail(k)[j].kind \in {"mkdir", "close"}
    BY DEF Answered
  <2>1. i + 1 \in DOMAIN k /\ k[i + 1] = Tail(k)[i] /\ (i + 1) - 1 = i
    BY <1>1, <1>2
  <2>2. QED
    BY <1>6, <2>1
<1>8. Answered(k, p) /\ Head(k).path = p /\ Head(k).kind = "delete"
        => Holds(Tail(k), p, {"mkdir", "close"})
  BY <1>1, <1>6 DEF Holds
<1>9. QED
  BY <1>1, <1>4, <1>5, <1>7, <1>8

(* A single event is appended to the others.                                *)
LEMMA ExtendedByOne ==
    ASSUME NEW k \in Seq(Events), NEW q \in Paths, NEW c \in Kinds
    PROVE  Append(k, [kind |-> c, path |-> q]) = Extended(k, q, <<c>>)
<1> DEFINE new == [i \in DOMAIN <<c>> |-> [kind |-> <<c>>[i], path |-> q]]
<1>1. new = <<[kind |-> c, path |-> q]>>
  OBVIOUS
<1>2. [kind |-> c, path |-> q] \in Events
  BY DEF Events, Kinds
<1> DEFINE e == [kind |-> c, path |-> q]
<1>3. Extended(k, q, <<c>>) = k \o <<e>>
  BY <1>1 DEF Extended
<1> HIDE DEF e
<1>4. Append(k, e) = k \o <<e>>
  BY <1>2 DEF e
<1>5. QED
  BY <1>3, <1>4 DEF e

----------------------------------------------------------------------------
(* The two mirrors                                                          *)

(* There are two of them, and each is the other's peer.                     *)
LEMMA PeerOf ==
    ASSUME NEW m \in Mirrors
    PROVE  /\ Peer(m) \in Mirrors /\ Peer(m) # m /\ Peer(Peer(m)) = m
           /\ \A n \in Mirrors : n = m \/ n = Peer(m)
<1>1. PICK n : Mirrors \ {m} = {n}
  BY ConstantsAssumption
<1>2. n \in Mirrors /\ n # m /\ \A o \in Mirrors : o # m => o = n
  BY <1>1
<1>3. Peer(m) = n
  BY <1>2 DEF Peer
<1>4. \A o \in Mirrors : o # n => o = m
  BY <1>2
<1>5. Peer(n) = m
  BY <1>2, <1>4 DEF Peer
<1>6. QED
  BY <1>2, <1>3, <1>5

----------------------------------------------------------------------------
(* The steps                                                                *)

(* The steps one by one, for the proofs by cases below.                     *)
LEMMA StepCases ==
    ASSUME [Next]_vars
    PROVE  \/ \E m \in Mirrors :
                \/ HandleEvent(m) \/ QuietOver(m) \/ FlushIfQuiet(m)
                \/ SendFileOffer(m) \/ PreparesDestination(m) \/ OnFileOffer(m)
                \/ OpensFile(m) \/ LastChunk(m)
           \/ \E m \in Mirrors, p \in Paths :
                Callback(m, p) \/ MakeDir(m, p) \/ Edit(m, p) \/ Delete(m, p)
           \/ Loses \/ Reconnects \/ UNCHANGED vars
BY DEF Next, WatcherStep, TransferStep

(* The events that come with a change of a file.                            *)
LEMMA KindsOfChanges ==
    ASSUME NEW m \in Mirrors, NEW p \in Paths
    PROVE  /\ IfNew(m, p) \in Seq(Kinds)
           /\ \A i \in DOMAIN IfNew(m, p) : IfNew(m, p)[i] = "create"
           /\ IfNew(m, p) \o <<"close">> \in Seq(Kinds)
           /\ IfNew(m, p) \o <<"close">> # <<>>
           /\ LET s == IfNew(m, p) \o <<"close">>
              IN  /\ s[Len(s)] = "close" /\ Len(s) \in DOMAIN s
                  /\ \A i \in DOMAIN s : s[i] \in {"create", "close"}
<1>1. IfNew(m, p) \in Seq({"create"})
  <2>1. <<"create">> \in Seq({"create"}) /\ <<>> \in Seq({"create"})
    OBVIOUS
  <2>2. QED
    BY <2>1 DEF IfNew
<1> DEFINE k == IfNew(m, p)
           s == k \o <<"close">>
<1>2. k \in Seq({"create"})
  BY <1>1
<1> HIDE DEF k
<1>3. k \in Seq(Kinds) /\ <<"close">> \in Seq(Kinds) /\ \A i \in DOMAIN k : k[i] = "create"
  BY <1>2 DEF Kinds
<1>4. /\ s \in Seq(Kinds) /\ Len(s) = Len(k) + 1 /\ Len(k) \in Nat
      /\ DOMAIN s = 1 .. Len(k) + 1 /\ DOMAIN k = 1 .. Len(k)
      /\ s[Len(k) + 1] = "close" /\ \A i \in 1 .. Len(k) : s[i] = k[i]
  BY <1>3
<1> HIDE DEF s
<1>5. s # <<>> /\ s[Len(s)] = "close" /\ Len(s) \in DOMAIN s
  BY <1>4
<1>6. \A i \in DOMAIN s : s[i] \in {"create", "close"}
  BY <1>3, <1>4
<1>7. QED
  BY <1>3, <1>4, <1>5, <1>6 DEF s, k

(* The unread events once something has happened to a file.                 *)
LEMMA WithEventsIs ==
    ASSUME NEW m \in Mirrors, NEW p \in Paths, NEW kinds \in Seq(Kinds), kernel[m] \in Seq(Events)
    PROVE  /\ WithEvents(m, p, kinds) \in Seq(Events)
           /\ Watched(m, p) => WithEvents(m, p, kinds) = Extended(kernel[m], p, kinds)
           /\ ~Watched(m, p) => WithEvents(m, p, kinds) = kernel[m]
BY ExtendedParts DEF WithEvents, Extended

----------------------------------------------------------------------------
(* The types                                                                *)

(* An idle direction carries nothing, and the others carry a file, whose    *)
(* destination is opened only once its offer has been accepted.             *)
XferInv ==
    \A m \in Mirrors :
        /\ xfer[m].phase = "idle" => xfer[m] = Idle
        /\ xfer[m].phase # "idle" => xfer[m].path \in Paths
        /\ xfer[m].phase = "offered" => ~xfer[m].entry

(* Only the directories of NewDirs are made.                                *)
DirsMade == \A m \in Mirrors, p \in Paths \ NewDirs : ~Holds(kernel[m], p, {"mkdir"})

TypeInv == TypeOK /\ XferInv /\ DirsMade

(* Both mirrors start with no file, no event and no transfer.               *)
LEMMA InitTypes == Init => TypeInv
<1> SUFFICES ASSUME Init
             PROVE  TypeInv
  OBVIOUS
<1>1. <<>> \in Seq(Events) /\ <<>> \in Seq(Paths)
  OBVIOUS
<1>2. Idle \in [phase : Phases, path : Paths \cup {NoPath}, version : Versions, entry : BOOLEAN]
  BY DEF Idle, Phases, Versions
<1>3. TypeOK
  BY <1>1, <1>2, ConstantsAssumption DEF Init, TypeOK, Versions, Missing, Changes
<1>4. XferInv
  BY DEF Init, XferInv, Idle
<1>5. DirsMade
  BY DEF Init, DirsMade, Holds
<1>6. QED
  BY <1>3, <1>4, <1>5 DEF TypeInv

(* The changes of a pending or ready change keep it one.                    *)
LEMMA CoalescedIs ==
    ASSUME NEW previous \in Changes
    PROVE  /\ Coalesced(previous, "Added") \in {"Added", "Modified"}
           /\ Coalesced(previous, "Modified") \in {"Added", "Modified"}
           /\ Coalesced(previous, "Removed") = "Removed"
BY DEF Coalesced, Changes

(* The watcher keeps to the types. *)
LEMMA WatcherTypes ==
    ASSUME TypeInv, NEW m \in Mirrors
    PROVE  HandleEvent(m) \/ QuietOver(m) \/ FlushIfQuiet(m) => TypeOK'
<1>1. ASSUME HandleEvent(m)
      PROVE  TypeOK'
  <2> DEFINE e == Head(kernel[m])
  <2>1. kernel[m] \in Seq(Events) /\ kernel[m] # <<>>
    BY <1>1 DEF HandleEvent, TypeInv, TypeOK
  <2>2. e \in Events /\ Tail(kernel[m]) \in Seq(Events)
    BY <2>1, TailEvents
  <2>3. kernel' \in [Mirrors -> Seq(Events)]
    BY <1>1, <2>2 DEF HandleEvent, TypeInv, TypeOK
  <2>4. \A c \in {"Added", "Modified", "Removed"} : Coalesced(pending[m][e.path], c) \in Changes
    BY <2>2 DEF Coalesced, Changes, TypeInv, TypeOK, Events
  <2>5. Change(m, e) \in {"Added", "Modified", "Removed"}
    BY DEF Change
  <2>6. \A c \in {"Added", "Modified", "Removed"} :
          Notify(m, e.path, c) => pending' \in [Mirrors -> [Paths -> Changes]] /\ quiet' \in [Mirrors -> BOOLEAN]
    BY <2>2, <2>4 DEF Notify, TypeInv, TypeOK, Events
  <2>7. pending' \in [Mirrors -> [Paths -> Changes]] /\ quiet' \in [Mirrors -> BOOLEAN]
    BY <1>1, <2>5, <2>6 DEF HandleEvent, TypeInv, TypeOK
  <2>8. e.kind = "mkdir" => e.path \in NewDirs
    <3>1. kernel[m] # <<>> => 1 \in DOMAIN kernel[m] /\ e = kernel[m][1]
      BY <2>1
    <3>2. QED
      BY <2>1, <2>2, <3>1 DEF TypeInv, DirsMade, Holds, Events
  <2>9. watched' \in [Mirrors -> SUBSET NewDirs] /\ created' \in [Mirrors -> SUBSET Paths]
    <3> HIDE DEF e
    <3>1. /\ watched' = watched \/ (e.kind = "mkdir" /\ watched' = [watched EXCEPT ![m] = @ \cup {e.path}])
          /\ \/ created' = created
             \/ created' = [created EXCEPT ![m] = @ \cup {e.path}]
             \/ created' = [created EXCEPT ![m] = @ \ {e.path}]
      BY <1>1 DEF HandleEvent, e
    <3>2. e.path \in Paths
      BY <2>2 DEF Events
    <3>3. watched \in [Mirrors -> SUBSET NewDirs] /\ created \in [Mirrors -> SUBSET Paths]
      BY DEF TypeInv, TypeOK
    <3>4. QED
      BY <2>8, <3>1, <3>2, <3>3
  <2>10. UNCHANGED <<dir, made, ready, received, queue, xfer, connected, boundVars, ghostVars>>
    BY <1>1 DEF HandleEvent
  <2>11. QED
    BY <2>3, <2>7, <2>9, <2>10 DEF TypeInv, TypeOK, boundVars, ghostVars
<1>2. ASSUME QuietOver(m)
      PROVE  TypeOK'
  BY <1>2 DEF QuietOver, TypeInv, TypeOK, boundVars, ghostVars
<1>3. ASSUME FlushIfQuiet(m)
      PROVE  TypeOK'
  <2>1. /\ ready' \in [Mirrors -> [Paths -> Changes]] /\ pending' \in [Mirrors -> [Paths -> Changes]]
        /\ quiet' \in [Mirrors -> BOOLEAN]
    BY <1>3 DEF FlushIfQuiet, TypeInv, TypeOK, Changes
  <2>2. UNCHANGED <<dir, made, kernel, watched, created, received, queue, xfer, connected, boundVars,
                    ghostVars>>
    BY <1>3 DEF FlushIfQuiet
  <2>3. QED
    BY <2>1, <2>2 DEF TypeInv, TypeOK, boundVars, ghostVars
<1>4. QED
  BY <1>1, <1>2, <1>3

(* So do the callback, the users and the network. *)
LEMMA UserTypes ==
    ASSUME TypeInv, NEW m \in Mirrors, NEW p \in Paths
    PROVE  Callback(m, p) \/ MakeDir(m, p) \/ Edit(m, p) \/ Delete(m, p) => TypeOK'
<1>1. ASSUME Callback(m, p)
      PROVE  TypeOK'
  <2>1. ready' \in [Mirrors -> [Paths -> Changes]]
    BY <1>1 DEF Callback, TypeInv, TypeOK, Changes
  <2>2. /\ received' = received \/ received' = [received EXCEPT ![m] = @ \ {p}]
        /\ queue' = queue \/ queue' = [queue EXCEPT ![m] = Append(@, p)]
        /\ edited' = edited \/ edited' = [edited EXCEPT ![m] = @ \ {p}]
        /\ unsent' = unsent \/ unsent' = unsent \cup {p}
    BY <1>1 DEF Callback, QueueFileToAll, Handed, TakeReceivedFile, TypeInv, TypeOK
  <2>3. /\ received \in [Mirrors -> SUBSET Paths] /\ edited \in [Mirrors -> SUBSET Paths]
        /\ queue \in [Mirrors -> Seq(Paths)] /\ unsent \subseteq Paths
    BY DEF TypeInv, TypeOK
  <2>4. received' \in [Mirrors -> SUBSET Paths] /\ edited' \in [Mirrors -> SUBSET Paths] /\ unsent' \subseteq Paths
    BY <2>2, <2>3
  <2>5. Append(queue[m], p) \in Seq(Paths)
    BY <2>3
  <2>6. queue' \in [Mirrors -> Seq(Paths)]
    BY <2>2, <2>3, <2>5
  <2>7. UNCHANGED <<dir, made, kernel, watched, created, pending, quiet, xfer, connected, boundVars,
                    own, deleted, disturbed>>
    BY <1>1 DEF Callback
  <2>8. QED
    BY <2>1, <2>4, <2>6, <2>7 DEF TypeInv, TypeOK, boundVars
<1>2. ASSUME MakeDir(m, p)
      PROVE  TypeOK'
  <2>1. kernel[m] \in Seq(Events) /\ p \in NewDirs
    BY <1>2 DEF MakeDir, DirMade, LacksDir, TypeInv, TypeOK
  <2>2. Append(kernel[m], [kind |-> "mkdir", path |-> p]) \in Seq(Events)
    BY <2>1 DEF Events
  <2>3. made' \in [Mirrors -> SUBSET NewDirs] /\ kernel' \in [Mirrors -> Seq(Events)]
    BY <1>2, <2>1, <2>2 DEF MakeDir, DirMade, TypeInv, TypeOK
  <2>4. UNCHANGED <<dir, watched, created, pending, quiet, ready, received, queue, xfer, connected,
                    boundVars, ghostVars>>
    BY <1>2 DEF MakeDir
  <2>5. QED
    BY <2>3, <2>4 DEF TypeInv, TypeOK, boundVars, ghostVars
<1>3. ASSUME Edit(m, p)
      PROVE  TypeOK'
  <2>1. edits' \in 0 .. MaxEdits /\ edits + 1 \in Versions
    BY <1>3, ConstantsAssumption DEF Edit, TypeInv, TypeOK, Versions
  <2>2. WithEvents(m, p, IfNew(m, p) \o <<"close">>) \in Seq(Events)
    BY KindsOfChanges, WithEventsIs DEF TypeInv, TypeOK
  <2>3. dir' \in [Mirrors -> [Paths -> Versions]] /\ kernel' \in [Mirrors -> Seq(Events)]
    BY <1>3, <2>1, <2>2 DEF Edit, TypeInv, TypeOK
  <2>4. /\ own' \in [Mirrors -> SUBSET Paths] /\ edited' \in [Mirrors -> SUBSET Paths]
        /\ unsent' \subseteq Paths /\ deleted' \subseteq Paths /\ disturbed' \subseteq Paths
    BY <1>3 DEF Edit, Disturbs, TypeInv, TypeOK
  <2>5. UNCHANGED <<made, watched, created, pending, quiet, ready, received, queue, xfer, connected,
                    deletes, losses>>
    BY <1>3 DEF Edit
  <2>6. QED
    BY <2>1, <2>3, <2>4, <2>5 DEF TypeInv, TypeOK
<1>4. ASSUME Delete(m, p)
      PROVE  TypeOK'
  <2>1. deletes' \in 0 .. MaxDeletes /\ Missing \in Versions
    BY <1>4, ConstantsAssumption DEF Delete, TypeInv, TypeOK, Versions
  <2>2. WithEvents(m, p, <<"delete">>) \in Seq(Events)
    <3>1. <<"delete">> \in Seq(Kinds)
      BY DEF Kinds
    <3>2. QED
      BY <3>1, WithEventsIs DEF TypeInv, TypeOK
  <2>3. dir' \in [Mirrors -> [Paths -> Versions]] /\ kernel' \in [Mirrors -> Seq(Events)]
    BY <1>4, <2>1, <2>2 DEF Delete, TypeInv, TypeOK
  <2>4. /\ own' \in [Mirrors -> SUBSET Paths]
        /\ deleted' \subseteq Paths /\ disturbed' \subseteq Paths
    BY <1>4 DEF Delete, Disturbs, TypeInv, TypeOK
  <2>5. UNCHANGED <<made, watched, created, pending, quiet, ready, received, queue, xfer, connected,
                    edits, losses, edited, unsent>>
    BY <1>4 DEF Delete
  <2>6. QED
    BY <2>1, <2>3, <2>4, <2>5 DEF TypeInv, TypeOK
<1>5. QED
  BY <1>1, <1>2, <1>3, <1>4

(* So does a transfer. *)
LEMMA TransferTypes ==
    ASSUME TypeInv, NEW m \in Mirrors
    PROVE  SendFileOffer(m) \/ PreparesDestination(m) \/ OnFileOffer(m) \/ OpensFile(m) \/ LastChunk(m)
               => TypeOK'
<1> DEFINE n == Peer(m)
           q == xfer[m].path
<1>1. n \in Mirrors
  BY PeerOf
<1>2. /\ <<"close">> \in Seq(Kinds) /\ <<"close", "close">> \in Seq(Kinds)
  BY DEF Kinds
<1>3. q \in Paths => /\ WithEvents(n, q, IfNew(n, q)) \in Seq(Events)
                     /\ WithEvents(n, q, <<"close">>) \in Seq(Events)
                     /\ WithEvents(n, q, <<"close", "close">>) \in Seq(Events)
  BY <1>1, <1>2, KindsOfChanges, WithEventsIs DEF TypeInv, TypeOK
<1>4. Idle \in [phase : Phases, path : Paths \cup {NoPath}, version : Versions, entry : BOOLEAN]
  BY DEF Idle, Phases, Versions
<1>5. Part \in Versions /\ dir \in [Mirrors -> [Paths -> Versions]]
  BY DEF Versions, TypeInv, TypeOK
<1>6. xfer[m] \in [phase : Phases, path : Paths \cup {NoPath}, version : Versions, entry : BOOLEAN]
  BY DEF TypeInv, TypeOK
<1>7. xfer[m].phase # "idle" => q \in Paths
  BY DEF TypeInv, XferInv
<1>8. ASSUME SendFileOffer(m)
      PROVE  TypeOK'
  <2>1. queue[m] \in Seq(Paths) /\ queue[m] # <<>>
    BY <1>8 DEF SendFileOffer, TypeInv, TypeOK
  <2>2. Tail(queue[m]) \in Seq(Paths) /\ Head(queue[m]) \in Paths
    BY <2>1
  <2>3. dir[m][Head(queue[m])] \in Versions
    BY <1>5, <2>2
  <2>4. queue' \in [Mirrors -> Seq(Paths)]
    BY <1>8, <2>2 DEF SendFileOffer, TypeInv, TypeOK
  <2>5. [phase |-> "offered", path |-> Head(queue[m]), version |-> dir[m][Head(queue[m])], entry |-> FALSE]
          \in [phase : Phases, path : Paths \cup {NoPath}, version : Versions, entry : BOOLEAN]
    BY <2>2, <2>3 DEF Phases
  <2>6. xfer' \in [Mirrors -> [phase : Phases, path : Paths \cup {NoPath}, version : Versions,
                               entry : BOOLEAN]]
    BY <1>4, <1>8, <2>5 DEF SendFileOffer, TypeInv, TypeOK
  <2>7. UNCHANGED <<dir, made, watchVars, received, connected, boundVars, ghostVars>>
    BY <1>8 DEF SendFileOffer
  <2>8. QED
    BY <2>4, <2>6, <2>7 DEF TypeInv, TypeOK, watchVars, boundVars, ghostVars
<1>9. ASSUME PreparesDestination(m)
      PROVE  TypeOK'
  <2>1. kernel[n] \in Seq(Events) /\ q \in NewDirs /\ q \in Paths
    BY <1>1, <1>7, <1>9 DEF PreparesDestination, DirMade, LacksDir, TypeInv, TypeOK
  <2>2. Append(kernel[n], [kind |-> "mkdir", path |-> q]) \in Seq(Events)
    BY <2>1 DEF Events
  <2>3. made' \in [Mirrors -> SUBSET NewDirs] /\ kernel' \in [Mirrors -> Seq(Events)]
    BY <1>1, <1>9, <2>1, <2>2 DEF PreparesDestination, DirMade, TypeInv, TypeOK
  <2>4. UNCHANGED <<dir, watched, created, pending, quiet, ready, received, queue, xfer, connected,
                    boundVars, ghostVars>>
    BY <1>9 DEF PreparesDestination
  <2>5. QED
    BY <2>3, <2>4 DEF TypeInv, TypeOK, boundVars, ghostVars
<1>10. ASSUME OnFileOffer(m)
       PROVE  TypeOK'
  <2>1. q \in Paths
    BY <1>7, <1>10 DEF OnFileOffer
  <2>2. \/ xfer' = [xfer EXCEPT ![m] = Idle]
        \/ xfer' = [xfer EXCEPT ![m].phase = "accepted", ![m].entry = TRUE]
        \/ xfer' = [xfer EXCEPT ![m].phase = "accepted"]
    BY <1>10 DEF OnFileOffer
  <2>3. xfer' \in [Mirrors -> [phase : Phases, path : Paths \cup {NoPath}, version : Versions,
                               entry : BOOLEAN]]
    <3>1. xfer \in [Mirrors -> [phase : Phases, path : Paths \cup {NoPath}, version : Versions,
                               entry : BOOLEAN]]
      BY DEF TypeInv, TypeOK
    <3>2. "accepted" \in Phases
      BY DEF Phases
    <3> HIDE DEF q
    <3>3. CASE xfer' = [xfer EXCEPT ![m] = Idle]
      BY <1>4, <3>1, <3>3
    <3>4. CASE xfer' = [xfer EXCEPT ![m].phase = "accepted", ![m].entry = TRUE]
      BY <1>6, <3>1, <3>2, <3>4
    <3>5. CASE xfer' = [xfer EXCEPT ![m].phase = "accepted"]
      BY <1>6, <3>1, <3>2, <3>5
    <3>6. QED
      BY <2>2, <3>3, <3>4, <3>5
  <2>4. /\ dir' = dir \/ dir' = [dir EXCEPT ![n][q] = Part]
        /\ \/ kernel' = kernel
           \/ kernel' = [kernel EXCEPT ![n] = WithEvents(n, q, IfNew(n, q))]
           \/ kernel' = [kernel EXCEPT ![n] = WithEvents(n, q, <<"close">>)]
        /\ own' = own \/ own' = [own EXCEPT ![n] = @ \ {q}]
    BY <1>10 DEF OnFileOffer
  <2>5. /\ dir' \in [Mirrors -> [Paths -> Versions]] /\ kernel' \in [Mirrors -> Seq(Events)]
        /\ own' \in [Mirrors -> SUBSET Paths]
    <3> HIDE DEF n, q
    <3>1. own \in [Mirrors -> SUBSET Paths] /\ kernel \in [Mirrors -> Seq(Events)]
      BY DEF TypeInv, TypeOK
    <3>2. dir' \in [Mirrors -> [Paths -> Versions]]
      BY <1>1, <1>5, <2>1, <2>4
    <3>3. kernel' \in [Mirrors -> Seq(Events)]
      BY <1>1, <1>3, <2>1, <2>4, <3>1
    <3>4. own' \in [Mirrors -> SUBSET Paths]
      BY <1>1, <2>1, <2>4, <3>1
    <3>5. QED
      BY <3>2, <3>3, <3>4
  <2>6. UNCHANGED <<made, watched, created, pending, quiet, ready, received, queue, connected,
                    boundVars, edited, unsent, deleted, disturbed>>
    BY <1>10 DEF OnFileOffer
  <2>7. QED
    BY <2>3, <2>5, <2>6 DEF TypeInv, TypeOK, boundVars
<1>11. ASSUME OpensFile(m)
       PROVE  TypeOK'
  <2>1. dir[m][q] \in Versions
    BY <1>5, <1>7, <1>11 DEF OpensFile
  <2>2. xfer' \in [Mirrors -> [phase : Phases, path : Paths \cup {NoPath}, version : Versions,
                               entry : BOOLEAN]]
    BY <1>6, <1>11, <2>1 DEF OpensFile, TypeInv, TypeOK, Phases
  <2>3. UNCHANGED <<dir, made, watchVars, received, queue, connected, boundVars, ghostVars>>
    BY <1>11 DEF OpensFile
  <2>4. QED
    BY <2>2, <2>3 DEF TypeInv, TypeOK, watchVars, boundVars, ghostVars
<1>12. ASSUME LastChunk(m)
       PROVE  TypeOK'
  <2>1. q \in Paths /\ xfer[m].version \in Versions
    BY <1>6, <1>7, <1>12 DEF LastChunk
  <2>2. xfer' \in [Mirrors -> [phase : Phases, path : Paths \cup {NoPath}, version : Versions,
                               entry : BOOLEAN]]
    BY <1>4, <1>12 DEF LastChunk, TypeInv, TypeOK
  <2>3. /\ dir' = dir \/ dir' = [dir EXCEPT ![n][q] = xfer[m].version]
        /\ received' = received \/ received' = [received EXCEPT ![n] = received[n] \cup {q}]
        /\ kernel' = kernel \/ kernel' = [kernel EXCEPT ![n] = WithEvents(n, q, <<"close", "close">>)]
    BY <1>12 DEF LastChunk, Recorded
  <2>4. /\ dir' \in [Mirrors -> [Paths -> Versions]] /\ kernel' \in [Mirrors -> Seq(Events)]
        /\ received' \in [Mirrors -> SUBSET Paths]
    <3> HIDE DEF n, q
    <3>1. received \in [Mirrors -> SUBSET Paths] /\ kernel \in [Mirrors -> Seq(Events)]
      BY DEF TypeInv, TypeOK
    <3>2. dir' \in [Mirrors -> [Paths -> Versions]]
      BY <1>1, <1>5, <2>1, <2>3
    <3>3. kernel' \in [Mirrors -> Seq(Events)]
      BY <1>1, <1>3, <2>1, <2>3, <3>1
    <3>4. received' \in [Mirrors -> SUBSET Paths]
      <4>1. received[n] \cup {q} \in SUBSET Paths
        BY <1>1, <2>1, <3>1
      <4>2. received' = received \/ received' = [received EXCEPT ![n] = received[n] \cup {q}]
        BY <2>3
      <4>3. QED
        BY <3>1, <4>1, <4>2
    <3>5. QED
      BY <3>2, <3>3, <3>4
  <2>5. UNCHANGED <<made, watched, created, pending, quiet, ready, queue, connected, boundVars,
                    ghostVars>>
    BY <1>12 DEF LastChunk
  <2>6. QED
    BY <2>2, <2>4, <2>5 DEF TypeInv, TypeOK, boundVars, ghostVars
<1>13. QED
  BY <1>8, <1>9, <1>10, <1>11, <1>12

----------------------------------------------------------------------------
(* The unread events of the mirrors                                         *)

(* k holds an event of p of this kind.                                      *)
Has(k, p, c) == Holds(k, p, {c})

(* Without a deletion there is nothing to answer.                           *)
LEMMA NothingToAnswer ==
    ASSUME NEW k, NEW p, ~Has(k, p, "delete")
    PROVE  Answered(k, p)
BY DEF Has, Holds, Answered

(* Something has happened to q at t.                                        *)
LEMMA EventsAdded ==
    ASSUME TypeInv, NEW t \in Mirrors, NEW q \in Paths, NEW kinds \in Seq(Kinds),
           NEW m \in Mirrors, NEW p \in Paths,
           kernel'[m] = IF m = t THEN WithEvents(t, q, kinds) ELSE kernel[m]
    PROVE  /\ \A c \in Kinds : Has(kernel'[m], p, c) <=>
                \/ Has(kernel[m], p, c)
                \/ m = t /\ p = q /\ Watched(t, q) /\ \E i \in DOMAIN kinds : kinds[i] = c
           /\ Answered(kernel[m], p) /\ (m = t /\ p = q => \A i \in DOMAIN kinds : kinds[i] # "delete")
                => Answered(kernel'[m], p)
           /\ m = t /\ p = q /\ Watched(t, q) /\ kinds # <<>> /\ kinds[Len(kinds)] = "close"
                => Answered(kernel'[m], p)
<1>1. kernel \in [Mirrors -> Seq(Events)] /\ kernel[m] \in Seq(Events)
  BY DEF TypeInv, TypeOK
<1>2. CASE m = t /\ Watched(t, q)
  <2>1. kernel'[m] = Extended(kernel[m], q, kinds)
    BY <1>1, <1>2, WithEventsIs
  <2>2. \A c \in Kinds : Has(kernel'[m], p, c) <=>
            Has(kernel[m], p, c) \/ (p = q /\ \E i \in DOMAIN kinds : kinds[i] = c)
    <3> TAKE c \in Kinds
    <3>1. Holds(Extended(kernel[m], q, kinds), p, {c}) <=>
            Holds(kernel[m], p, {c}) \/ (p = q /\ \E i \in DOMAIN kinds : kinds[i] \in {c})
      BY <1>1, HoldsExtended
    <3>2. QED
      BY <2>1, <3>1 DEF Has
  <2>3. /\ Answered(kernel[m], p) /\ (p = q => \A i \in DOMAIN kinds : kinds[i] # "delete")
                => Answered(kernel'[m], p)
        /\ p = q /\ kinds # <<>> /\ kinds[Len(kinds)] = "close" => Answered(kernel'[m], p)
    BY <1>1, <2>1, AnsweredExtended
  <2>4. QED
    BY <1>2, <2>2, <2>3
<1>3. CASE ~(m = t /\ Watched(t, q))
  <2>1. kernel'[m] = kernel[m]
    BY <1>1, <1>3, WithEventsIs
  <2>2. QED
    BY <1>3, <2>1 DEF Has
<1>4. QED
  BY <1>2, <1>3

(* The directory of q has been made at t.                                   *)
LEMMA DirAdded ==
    ASSUME TypeInv, NEW t \in Mirrors, NEW q \in Paths,
           kernel' = [kernel EXCEPT ![t] = Append(@, [kind |-> "mkdir", path |-> q])],
           NEW m \in Mirrors, NEW p \in Paths
    PROVE  /\ \A c \in Kinds : Has(kernel'[m], p, c) <=>
                Has(kernel[m], p, c) \/ (m = t /\ p = q /\ c = "mkdir")
           /\ Answered(kernel[m], p) => Answered(kernel'[m], p)
<1>1. kernel \in [Mirrors -> Seq(Events)] /\ kernel[m] \in Seq(Events)
  BY DEF TypeInv, TypeOK
<1>2. CASE m = t
  <2>1. "mkdir" \in Kinds /\ <<"mkdir">> \in Seq(Kinds)
    BY DEF Kinds
  <2>2. kernel'[m] = Extended(kernel[m], q, <<"mkdir">>)
    BY <1>1, <1>2, <2>1, ExtendedByOne
  <2>3. DOMAIN <<"mkdir">> = {1} /\ <<"mkdir">>[1] = "mkdir"
    OBVIOUS
  <2>4. \A c \in Kinds : Has(kernel'[m], p, c) <=> Has(kernel[m], p, c) \/ (p = q /\ c = "mkdir")
    <3> TAKE c \in Kinds
    <3>1. Holds(Extended(kernel[m], q, <<"mkdir">>), p, {c}) <=>
            \/ Holds(kernel[m], p, {c})
            \/ p = q /\ \E i \in DOMAIN <<"mkdir">> : <<"mkdir">>[i] \in {c}
      BY <1>1, <2>1, HoldsExtended
    <3>2. QED
      BY <2>2, <2>3, <3>1 DEF Has
  <2>5. Answered(kernel[m], p) => Answered(kernel'[m], p)
    <3>1. \A i \in DOMAIN <<"mkdir">> : <<"mkdir">>[i] # "delete"
      BY <2>3
    <3>2. Answered(kernel[m], p) => Answered(Extended(kernel[m], q, <<"mkdir">>), p)
      BY <1>1, <2>1, <3>1, AnsweredExtended
    <3>3. QED
      BY <2>2, <3>2
  <2>6. QED
    BY <1>2, <2>4, <2>5
<1>3. CASE m # t
  <2>1. kernel'[m] = kernel[m]
    BY <1>1, <1>3
  <2>2. QED
    BY <1>3, <2>1 DEF Has
<1>4. QED
  BY <1>2, <1>3

(* The watcher of t has read an event.                                      *)
LEMMA EventRead ==
    ASSUME TypeInv, NEW t \in Mirrors, kernel[t] # <<>>,
           kernel' = [kernel EXCEPT ![t] = Tail(@)],
           NEW m \in Mirrors, NEW p \in Paths
    PROVE  LET e == Head(kernel[t])
           IN  /\ e \in Events /\ Has(kernel[t], e.path, e.kind)
               /\ \A c \in Kinds :
                    /\ Has(kernel'[m], p, c) => Has(kernel[m], p, c)
                    /\ Has(kernel[m], p, c) => Has(kernel'[m], p, c) \/ (m = t /\ p = e.path /\ c = e.kind)
               /\ Answered(kernel[m], p) => Answered(kernel'[m], p)
               /\ Answered(kernel[m], p) /\ m = t /\ p = e.path /\ e.kind = "delete"
                    => Has(kernel'[m], p, "mkdir") \/ Has(kernel'[m], p, "close")
<1> DEFINE e == Head(kernel[t])
<1>1. kernel \in [Mirrors -> Seq(Events)] /\ kernel[m] \in Seq(Events) /\ kernel[t] \in Seq(Events)
  BY DEF TypeInv, TypeOK
<1>2. e \in Events /\ 1 \in DOMAIN kernel[t] /\ kernel[t][1] = e
  BY <1>1
<1>3. Has(kernel[t], e.path, e.kind)
  BY <1>2 DEF Has, Holds
<1>4. CASE m = t
  <2>1. kernel'[m] = Tail(kernel[m])
    BY <1>1, <1>4
  <2>2. \A c \in Kinds :
            /\ Has(kernel'[m], p, c) => Has(kernel[m], p, c)
            /\ Has(kernel[m], p, c) => Has(kernel'[m], p, c) \/ (p = e.path /\ c = e.kind)
    <3> TAKE c \in Kinds
    <3>1. /\ Holds(Tail(kernel[m]), p, {c}) => Holds(kernel[m], p, {c})
          /\ Holds(kernel[m], p, {c}) =>
               Holds(Tail(kernel[m]), p, {c}) \/ (Head(kernel[m]).path = p /\ Head(kernel[m]).kind \in {c})
      BY <1>1, <1>4, TailEvents
    <3>2. QED
      BY <1>4, <2>1, <3>1 DEF Has
  <2>3. /\ Answered(kernel[m], p) => Answered(kernel'[m], p)
        /\ Answered(kernel[m], p) /\ p = e.path /\ e.kind = "delete"
                => Holds(kernel'[m], p, {"mkdir", "close"})
    BY <1>1, <1>4, <2>1, TailEvents
  <2>4. Holds(kernel'[m], p, {"mkdir", "close"}) => Has(kernel'[m], p, "mkdir") \/ Has(kernel'[m], p, "close")
    BY DEF Has, Holds
  <2>5. QED
    BY <1>2, <1>3, <1>4, <2>2, <2>3, <2>4
<1>5. CASE m # t
  <2>1. kernel'[m] = kernel[m]
    BY <1>1, <1>5
  <2>2. QED
    BY <1>2, <1>3, <1>5, <2>1 DEF Has
<1>6. QED
  BY <1>4, <1>5

(* What the transfers carry stays so.                                       *)
LEMMA XferSteps ==
    ASSUME TypeInv, [Next]_vars
    PROVE  XferInv'
<1>1. xfer \in [Mirrors -> [phase : Phases, path : Paths \cup {NoPath}, version : Versions,
                            entry : BOOLEAN]]
  BY DEF TypeInv, TypeOK
<1>2. XferInv /\ Idle.phase = "idle"
  BY DEF TypeInv, Idle
<1>3. ASSUME NEW m \in Mirrors, SendFileOffer(m)
      PROVE  XferInv'
  <2>1. queue[m] \in Seq(Paths) /\ queue[m] # <<>>
    BY <1>3 DEF SendFileOffer, TypeInv, TypeOK
  <2>2. Head(queue[m]) \in Paths
    BY <2>1
  <2>3. \A o \in Mirrors : o # m => xfer'[o] = xfer[o]
    BY <1>1, <1>3 DEF SendFileOffer
  <2>4. \/ xfer'[m] = Idle
        \/ /\ xfer'[m].phase = "offered" /\ xfer'[m].path \in Paths /\ xfer'[m].entry = FALSE
    BY <1>1, <1>3, <2>2 DEF SendFileOffer
  <2>5. QED
    BY <1>2, <2>3, <2>4 DEF XferInv
<1>4. ASSUME NEW m \in Mirrors, OnFileOffer(m)
      PROVE  XferInv'
  <2>1. \A o \in Mirrors : o # m => xfer'[o] = xfer[o]
    BY <1>1, <1>4 DEF OnFileOffer
  <2>2. \/ xfer'[m] = Idle
        \/ xfer'[m].phase = "accepted" /\ xfer'[m].path = xfer[m].path
    BY <1>1, <1>4 DEF OnFileOffer
  <2>3. xfer[m].path \in Paths
    BY <1>2, <1>4 DEF OnFileOffer, XferInv
  <2>4. QED
    BY <1>2, <2>1, <2>2, <2>3 DEF XferInv
<1>5. ASSUME NEW m \in Mirrors, OpensFile(m)
      PROVE  XferInv'
  <2>1. \A o \in Mirrors : o # m => xfer'[o] = xfer[o]
    BY <1>1, <1>5 DEF OpensFile
  <2>2. xfer'[m].phase = "sending" /\ xfer'[m].path = xfer[m].path
    BY <1>1, <1>5 DEF OpensFile
  <2>3. xfer[m].path \in Paths
    BY <1>2, <1>5 DEF OpensFile, XferInv
  <2>4. QED
    BY <1>2, <2>1, <2>2, <2>3 DEF XferInv
<1>6. ASSUME NEW m \in Mirrors, LastChunk(m)
      PROVE  XferInv'
  <2>1. \A o \in Mirrors : xfer'[o] = xfer[o] \/ xfer'[o] = Idle
    BY <1>1, <1>6 DEF LastChunk
  <2>2. QED
    BY <1>2, <2>1 DEF XferInv
<1>7. UNCHANGED xfer => XferInv'
  BY <1>2 DEF XferInv
<1>8. ASSUME NEW m \in Mirrors
      PROVE  HandleEvent(m) \/ QuietOver(m) \/ FlushIfQuiet(m) \/ PreparesDestination(m) => UNCHANGED xfer
  BY DEF HandleEvent, QuietOver, FlushIfQuiet, PreparesDestination
<1>9. ASSUME NEW m \in Mirrors, NEW p \in Paths
      PROVE  Callback(m, p) \/ MakeDir(m, p) \/ Edit(m, p) \/ Delete(m, p) => UNCHANGED xfer
  BY DEF Callback, MakeDir, Edit, Delete
<1>10. Loses \/ Reconnects \/ UNCHANGED vars => UNCHANGED xfer
  BY DEF Loses, Reconnects, vars
<1>11. QED
  BY <1>3, <1>4, <1>5, <1>6, <1>7, <1>8, <1>9, <1>10, StepCases

(* What each step makes of the unread events.                               *)
LEMMA KernelSteps ==
    ASSUME TypeInv, NEW m \in Mirrors
    PROVE  /\ HandleEvent(m) => kernel[m] # <<>> /\ kernel' = [kernel EXCEPT ![m] = Tail(@)]
           /\ QuietOver(m) \/ FlushIfQuiet(m) \/ SendFileOffer(m) \/ OpensFile(m) => UNCHANGED kernel
           /\ PreparesDestination(m) => DirMade(Peer(m), xfer[m].path)
           /\ OnFileOffer(m) =>
                \/ UNCHANGED kernel
                \/ \E s \in Seq(Kinds) :
                    /\ \A i \in DOMAIN s : s[i] \in {"create", "close"}
                    /\ kernel' = [kernel EXCEPT ![Peer(m)] = WithEvents(Peer(m), xfer[m].path, s)]
           /\ LastChunk(m) =>
                \/ UNCHANGED kernel
                \/ kernel' = [kernel EXCEPT ![Peer(m)] =
                                WithEvents(Peer(m), xfer[m].path, <<"close", "close">>)]
           /\ \A p \in Paths :
                /\ Callback(m, p) => UNCHANGED kernel
                /\ MakeDir(m, p) => DirMade(m, p)
                /\ Edit(m, p) =>
                    kernel' = [kernel EXCEPT ![m] = WithEvents(m, p, IfNew(m, p) \o <<"close">>)]
                /\ Delete(m, p) =>
                    kernel' = [kernel EXCEPT ![m] = WithEvents(m, p, <<"delete">>)]
           /\ Loses \/ Reconnects \/ UNCHANGED vars => UNCHANGED kernel
<1>1. HandleEvent(m) => kernel[m] # <<>> /\ kernel' = [kernel EXCEPT ![m] = Tail(@)]
  BY DEF HandleEvent
<1>2. QuietOver(m) \/ FlushIfQuiet(m) \/ SendFileOffer(m) \/ OpensFile(m) => UNCHANGED kernel
  BY DEF QuietOver, FlushIfQuiet, SendFileOffer, OpensFile, watchVars
<1>3. PreparesDestination(m) => DirMade(Peer(m), xfer[m].path)
  BY DEF PreparesDestination
<1>4. ASSUME OnFileOffer(m)
      PROVE  \/ UNCHANGED kernel
             \/ \E s \in Seq(Kinds) :
                    /\ \A i \in DOMAIN s : s[i] \in {"create", "close"}
                    /\ kernel' = [kernel EXCEPT ![Peer(m)] = WithEvents(Peer(m), xfer[m].path, s)]
  <2>1. Peer(m) \in Mirrors /\ xfer[m].path \in Paths
    BY <1>4, PeerOf DEF OnFileOffer, TypeInv, XferInv
  <2>2. /\ IfNew(Peer(m), xfer[m].path) \in Seq(Kinds)
        /\ \A i \in DOMAIN IfNew(Peer(m), xfer[m].path) :
                IfNew(Peer(m), xfer[m].path)[i] \in {"create", "close"}
    BY <2>1, KindsOfChanges
  <2>3. <<"close">> \in Seq(Kinds) /\ \A i \in DOMAIN <<"close">> : <<"close">>[i] \in {"create", "close"}
    BY DEF Kinds
  <2>4. \/ kernel' = kernel
        \/ kernel' = [kernel EXCEPT ![Peer(m)] =
                        WithEvents(Peer(m), xfer[m].path, IfNew(Peer(m), xfer[m].path))]
        \/ kernel' = [kernel EXCEPT ![Peer(m)] = WithEvents(Peer(m), xfer[m].path, <<"close">>)]
    BY <1>4 DEF OnFileOffer
  <2>5. QED
    BY <2>2, <2>3, <2>4
<1>5. LastChunk(m) =>
        \/ UNCHANGED kernel
        \/ kernel' = [kernel EXCEPT ![Peer(m)] =
                        WithEvents(Peer(m), xfer[m].path, <<"close", "close">>)]
  BY DEF LastChunk
<1>6. ASSUME NEW p \in Paths
      PROVE  /\ Callback(m, p) => UNCHANGED kernel
             /\ MakeDir(m, p) => DirMade(m, p)
             /\ Edit(m, p) =>
                    kernel' = [kernel EXCEPT ![m] = WithEvents(m, p, IfNew(m, p) \o <<"close">>)]
             /\ Delete(m, p) => kernel' = [kernel EXCEPT ![m] = WithEvents(m, p, <<"delete">>)]
  BY DEF Callback, MakeDir, Edit, Delete
<1>7. Loses \/ Reconnects \/ UNCHANGED vars => UNCHANGED kernel
  BY DEF Loses, Reconnects, vars, watchVars
<1>8. QED
  BY <1>1, <1>2, <1>3, <1>4, <1>5, <1>6, <1>7

(* PreparesDestination and a user's change make a directory only for a path *)
(* whose directory is a new one.                                            *)
LEMMA DirsMadeStep ==
    ASSUME TypeInv, [Next]_vars
    PROVE  DirsMade'
<1> SUFFICES ASSUME NEW m \in Mirrors, NEW p \in Paths \ NewDirs
             PROVE  ~Has(kernel'[m], p, "mkdir")
  BY DEF DirsMade, Has
<1>1. ~Has(kernel[m], p, "mkdir") /\ "mkdir" \in Kinds /\ p \in Paths /\ p \notin NewDirs
  BY DEF TypeInv, DirsMade, Has, Kinds
<1>2. UNCHANGED kernel => ~Has(kernel'[m], p, "mkdir")
  BY <1>1 DEF Has
<1>3. ASSUME NEW t \in Mirrors, HandleEvent(t)
      PROVE  ~Has(kernel'[m], p, "mkdir")
  <2>1. kernel[t] # <<>> /\ kernel' = [kernel EXCEPT ![t] = Tail(@)]
    BY <1>3, KernelSteps
  <2>2. \A c \in Kinds : Has(kernel'[m], p, c) => Has(kernel[m], p, c)
    BY <1>1, <2>1, EventRead
  <2>3. QED
    BY <1>1, <2>2
<1>4. ASSUME NEW t \in Mirrors, NEW q \in Paths, DirMade(t, q)
      PROVE  ~Has(kernel'[m], p, "mkdir")
  <2>1. q \in NewDirs /\ kernel' = [kernel EXCEPT ![t] = Append(@, [kind |-> "mkdir", path |-> q])]
    BY <1>4 DEF DirMade, LacksDir
  <2>2. \A c \in Kinds : Has(kernel'[m], p, c) <=> Has(kernel[m], p, c) \/ (m = t /\ p = q /\ c = "mkdir")
    BY <1>1, <2>1, DirAdded
  <2>3. QED
    BY <1>1, <2>1, <2>2
<1>5. ASSUME NEW t \in Mirrors, NEW q \in Paths, NEW s \in Seq(Kinds),
             \A i \in DOMAIN s : s[i] # "mkdir",
             kernel' = [kernel EXCEPT ![t] = WithEvents(t, q, s)]
      PROVE  ~Has(kernel'[m], p, "mkdir")
  <2>1. \A c \in Kinds : Has(kernel'[m], p, c) <=>
            \/ Has(kernel[m], p, c)
            \/ m = t /\ p = q /\ Watched(t, q) /\ \E i \in DOMAIN s : s[i] = c
    <3>1. kernel'[m] = IF m = t THEN WithEvents(t, q, s) ELSE kernel[m]
      BY <1>5 DEF TypeInv, TypeOK
    <3>2. QED
      BY <1>1, <3>1, EventsAdded
  <2>2. QED
    BY <1>1, <1>5, <2>1
<1>6. ASSUME NEW t \in Mirrors, NEW q \in Paths, Edit(t, q)
      PROVE  ~Has(kernel'[m], p, "mkdir")
  <2> DEFINE s == IfNew(t, q) \o <<"close">>
  <2>1. s \in Seq(Kinds) /\ \A i \in DOMAIN s : s[i] \in {"create", "close"}
    BY KindsOfChanges
  <2>2. kernel' = [kernel EXCEPT ![t] = WithEvents(t, q, s)]
    BY <1>6, KernelSteps
  <2> HIDE DEF s
  <2>3. QED
    BY <1>5, <2>1, <2>2
<1>7. ASSUME NEW t \in Mirrors, NEW q \in Paths, Delete(t, q)
      PROVE  ~Has(kernel'[m], p, "mkdir")
  <2>1. <<"delete">> \in Seq(Kinds) /\ \A i \in DOMAIN <<"delete">> : <<"delete">>[i] # "mkdir"
    BY DEF Kinds
  <2>2. QED
    BY <1>5, <1>7, <2>1, KernelSteps
<1>8. ASSUME NEW t \in Mirrors, PreparesDestination(t) \/ OnFileOffer(t) \/ LastChunk(t)
      PROVE  ~Has(kernel'[m], p, "mkdir")
  <2>1. Peer(t) \in Mirrors /\ xfer[t].path \in Paths
    BY <1>8, PeerOf DEF PreparesDestination, OnFileOffer, LastChunk, TypeInv, XferInv
  <2>2. /\ <<"close", "close">> \in Seq(Kinds)
        /\ \A i \in DOMAIN <<"close", "close">> : <<"close", "close">>[i] # "mkdir"
    BY DEF Kinds
  <2>3. CASE PreparesDestination(t)
    BY <1>4, <2>1, <2>3, KernelSteps
  <2>4. CASE OnFileOffer(t)
    <3>1. CASE UNCHANGED kernel
      BY <1>2, <3>1
    <3>2. ASSUME NEW s \in Seq(Kinds), \A i \in DOMAIN s : s[i] \in {"create", "close"},
                 kernel' = [kernel EXCEPT ![Peer(t)] = WithEvents(Peer(t), xfer[t].path, s)]
          PROVE  ~Has(kernel'[m], p, "mkdir")
      BY <1>5, <2>1, <3>2
    <3>3. QED
      BY <2>4, <3>1, <3>2, KernelSteps
  <2>5. CASE LastChunk(t)
    <3>1. CASE UNCHANGED kernel
      BY <1>2, <3>1
    <3>2. CASE kernel' = [kernel EXCEPT ![Peer(t)] =
                            WithEvents(Peer(t), xfer[t].path, <<"close", "close">>)]
      BY <1>5, <2>1, <2>2, <3>2
    <3>3. QED
      BY <2>5, <3>1, <3>2, KernelSteps
  <2>6. QED
    BY <1>8, <2>3, <2>4, <2>5
<1>9. ASSUME NEW t \in Mirrors
      PROVE  QuietOver(t) \/ FlushIfQuiet(t) \/ SendFileOffer(t) \/ OpensFile(t) => ~Has(kernel'[m], p, "mkdir")
  BY <1>2, KernelSteps
<1>10. ASSUME NEW t \in Mirrors, NEW q \in Paths
       PROVE  Callback(t, q) \/ MakeDir(t, q) => ~Has(kernel'[m], p, "mkdir")
  BY <1>2, <1>4, KernelSteps
<1>11. Loses \/ Reconnects \/ UNCHANGED vars => ~Has(kernel'[m], p, "mkdir")
  BY <1>2 DEF Loses, Reconnects, vars, watchVars
<1>12. QED
  BY <1>3, <1>6, <1>7, <1>8, <1>9, <1>10, <1>11, StepCases

(* Every step of either client, its user or the network keeps the types.    *)
LEMMA TypeSteps ==
    ASSUME TypeInv, [Next]_vars
    PROVE  TypeInv'
<1>1. Loses \/ Reconnects \/ UNCHANGED vars => TypeOK'
  <2>1. ASSUME Loses
        PROVE  TypeOK'
    <3>1. losses \in 0 .. MaxLosses /\ losses < MaxLosses /\ losses' = losses + 1 /\ connected' = FALSE
      BY <2>1 DEF Loses, TypeInv, TypeOK
    <3>2. losses' \in 0 .. MaxLosses /\ connected' \in BOOLEAN
      <4>1. MaxLosses \in Nat
        BY ConstantsAssumption
      <4>2. losses' \in 0 .. MaxLosses
        BY <3>1, <4>1
      <4>3. QED
        BY <3>1, <4>2
    <3>3. UNCHANGED <<dir, made, watchVars, received, queue, xfer, edits, deletes, ghostVars>>
      BY <2>1 DEF Loses
    <3>4. QED
      BY <3>2, <3>3 DEF TypeInv, TypeOK, watchVars, ghostVars
  <2>2. Reconnects => TypeOK'
    BY DEF Reconnects, TypeInv, TypeOK, watchVars, boundVars, ghostVars
  <2>3. UNCHANGED vars => TypeOK'
    BY DEF TypeInv, TypeOK, vars, watchVars, boundVars, ghostVars
  <2>4. QED
    BY <2>1, <2>2, <2>3
<1>2. TypeOK'
  BY <1>1, StepCases, WatcherTypes, UserTypes, TransferTypes
<1>3. QED
  BY <1>2, XferSteps, DirsMadeStep DEF TypeInv

(* The types hold in every reachable state, with what they need: which      *)
(* fields a transfer has in each phase, and which directories are made.     *)
THEOREM TypeInvariant == Spec => []TypeInv
<1>1. Init => TypeInv
  BY InitTypes
<1>2. TypeInv /\ [Next]_vars => TypeInv'
  BY TypeSteps
<1>3. QED
  BY <1>1, <1>2, PTL DEF Spec

(* The state keeps its types: what a direction sends is idle or one of the  *)
(* files, and only the directories of NewDirs come to be watched.           *)
THEOREM TypeCorrect == Spec => []TypeOK
<1>1. TypeInv => TypeOK
  BY DEF TypeInv
<1>2. QED
  BY <1>1, TypeInvariant, PTL

----------------------------------------------------------------------------
(* The two directories and their watchers                                   *)

(* A file whose contents are known, neither missing nor being received.     *)
Real(m, p) == dir[m][p] \notin {Missing, Part}

(* A file is being received exactly while its contents are not known, and   *)
(* there is no file where there is no directory.                            *)
FileInv(m, p) ==
    /\ dir[m][p] # Missing => ~LacksDir(m, p)
    /\ dir[m][p] = Part <=> ReceivingAt(m, p)
    /\ xfer[m].phase = "sending" => xfer[m].version # Part

(* A batch is flushed only after the one before it; a new directory is      *)
(* watched, or the watcher will read of it, and of nothing in it before;    *)
(* and of no file that is there is the deletion the last thing it reads.    *)
WatchInv(m, p) ==
    /\ quiet[m] => ready[m][p] = "none"
    /\ p \in made[m] \ watched[m] => Has(kernel[m], p, "mkdir")
    /\ p \in NewDirs \ watched[m] =>
            /\ ~Has(kernel[m], p, "create") /\ ~Has(kernel[m], p, "close")
            /\ ~Has(kernel[m], p, "delete")
    /\ Real(m, p) => Answered(kernel[m], p)

(* A change of p is on its way from m to its peer, or has just got there.   *)
Out(m, p) ==
    \/ p \in edited[m] \/ p \in Range(queue[m]) \/ xfer[m].path = p
    \/ p \in received[Peer(m)]

Changed == {"Added", "Modified"}

(* There is something that the watcher of m will report of p.               *)
News(m, p) ==
    \/ Has(kernel[m], p, "close")
    \/ dir[m][p] # Missing /\ Has(kernel[m], p, "mkdir")
    \/ pending[m][p] \in Changed \/ ready[m][p] \in Changed

(* No change of p is on its way back.                                       *)
OneWay(m, p) == ~(Out(m, p) /\ Out(Peer(m), p))

(* What the watcher reports of p is a local change, or a file received,     *)
(* the end of whose reception it has waited for.                            *)
NewsIsKnown(m, p) ==
    /\ News(m, p) => p \in edited[m] \cup received[m] \/ ReceivingAt(m, p)
    /\ ready[m][p] \in Changed \/ (quiet[m] /\ pending[m][p] \in Changed)
         => p \in edited[m] \cup received[m]

(* Once a received file is about to be reported nothing more of it is.      *)
ReportedOnce(m, p) ==
    p \in received[m] =>
        /\ ready[m][p] \in Changed => ~Unflushed(m, p)
        /\ quiet[m] /\ pending[m][p] \in Changed =>
             ~Has(kernel[m], p, "mkdir") /\ ~Has(kernel[m], p, "close")

(* A received file is the peer's, which may at most offer it again.         *)
ReceivedIsPeers(m, p) ==
    p \in received[m] =>
        /\ Real(m, p) /\ dir[m][p] = dir[Peer(m)][p]
        /\ xfer[Peer(m)].path = p => xfer[Peer(m)].phase = "offered"

(* What is being sent of p is what is there.                                *)
SentIsThere(m, p) ==
    xfer[m].path = p =>
        Real(m, p) /\ (xfer[m].phase # "accepted" => xfer[m].version = dir[m][p])

(* The record of a received file and a local change are both still to be    *)
(* reported, and the change is that of a user of m.                         *)
StillReported(m, p) ==
    /\ p \in received[m] => Reported(m, p)
    /\ p \in edited[m] => p \in own[m] /\ (dir[m][p] # Missing => Reported(m, p))

PathInv(m, p) ==
    /\ OneWay(m, p) /\ NewsIsKnown(m, p) /\ ReportedOnce(m, p)
    /\ ReceivedIsPeers(m, p) /\ SentIsThere(m, p) /\ StillReported(m, p)

(* A path that nobody has changed while a change of it was on its way, and  *)
(* whose reception is over when the quiet period is.                        *)
Steady(p) == p \notin Slow \cup disturbed

PathsInv ==
    \A m \in Mirrors, p \in Paths :
        FileInv(m, p) /\ WatchInv(m, p) /\ (Steady(p) => PathInv(m, p))

Inv == TypeInv /\ PathsInv

(* A change is unflushed while it is unread or pending.                     *)
LEMMA UnflushedIs ==
    ASSUME NEW m, NEW p
    PROVE  Unflushed(m, p) <=>
            Has(kernel[m], p, "mkdir") \/ Has(kernel[m], p, "close") \/ pending[m][p] \in Changed
BY DEF Unflushed, Has, Holds, Changed

(* What a change not yet flushed means in the state after a step.           *)
LEMMA UnflushedIsNext ==
    ASSUME NEW m, NEW p
    PROVE  Unflushed(m, p)' <=>
            Has(kernel'[m], p, "mkdir") \/ Has(kernel'[m], p, "close") \/ pending'[m][p] \in Changed
BY DEF Unflushed, Has, Holds, Changed

(* A user makes a change of his own.                                        *)
LEMMA EditPaths ==
    ASSUME Inv, NEW m \in Mirrors, NEW q \in Paths, Edit(m, q)
    PROVE  PathsInv'
<1> SUFFICES ASSUME NEW o \in Mirrors, NEW p \in Paths
             PROVE  FileInv(o, p)' /\ WatchInv(o, p)' /\ (Steady(p)' => PathInv(o, p)')
  BY DEF PathsInv
<1> DEFINE n == Peer(o)
<1>1. /\ n \in Mirrors /\ n # o /\ Peer(n) = o /\ m \in {o, n}
      /\ FileInv(o, p) /\ WatchInv(o, p) /\ (Steady(p) => PathInv(o, p))
      /\ FileInv(n, p) /\ WatchInv(n, p) /\ (Steady(p) => PathInv(n, p))
  BY PeerOf DEF Inv, PathsInv
<1> HIDE DEF n
<1>2. /\ UNCHANGED <<made, watched, created, pending, quiet, ready, received, queue, xfer>>
      /\ Free(m, q) /\ ~LacksDir(m, q)
  BY <1>1 DEF Edit
<1>3. /\ \A t \in Mirrors : dir'[t][p] = IF t = m /\ p = q THEN edits + 1 ELSE dir[t][p]
      /\ \A t \in Mirrors : p \in own'[t] <=> p \in own[t] \/ (t = m /\ p = q)
      /\ \A t \in Mirrors : p \in edited'[t] <=> p \in edited[t] \/ (t = m /\ p = q)
  BY DEF Edit, Inv, TypeInv, TypeOK
<1>4. edits + 1 \notin {Missing, Part}
  BY DEF Inv, TypeInv, TypeOK, Missing, Part
<1>5. Steady(p)' => Steady(p) /\ (p = q => Settled(m, q))
  BY DEF Edit, Disturbs, Steady
<1>6. /\ Has(kernel'[o], p, "mkdir") <=> Has(kernel[o], p, "mkdir")
      /\ Has(kernel[o], p, "close") => Has(kernel'[o], p, "close")
      /\ ~(o = m /\ p = q /\ Watched(m, q)) =>
            /\ Has(kernel'[o], p, "create") <=> Has(kernel[o], p, "create")
            /\ Has(kernel'[o], p, "close") <=> Has(kernel[o], p, "close")
            /\ Has(kernel'[o], p, "delete") <=> Has(kernel[o], p, "delete")
      /\ o = m /\ p = q /\ Watched(m, q) => Has(kernel'[o], p, "close")
      /\ Answered(kernel[o], p) \/ (o = m /\ p = q /\ Watched(m, q)) => Answered(kernel'[o], p)
  <2> DEFINE s == IfNew(m, q) \o <<"close">>
  <2>1. s \in Seq(Kinds) /\ s # <<>> /\ s[Len(s)] = "close" /\ Len(s) \in DOMAIN s
    BY KindsOfChanges
  <2>2. \A i \in DOMAIN s : s[i] \in {"create", "close"}
    BY KindsOfChanges
  <2>3. kernel'[o] = IF o = m THEN WithEvents(m, q, s) ELSE kernel[o]
    BY KernelSteps DEF Inv, TypeInv, TypeOK
  <2> HIDE DEF s
  <2> TypeInv
    BY DEF Inv
  <2>4. /\ \A c \in Kinds : Has(kernel'[o], p, c) <=>
            \/ Has(kernel[o], p, c)
            \/ o = m /\ p = q /\ Watched(m, q) /\ \E i \in DOMAIN s : s[i] = c
        /\ Answered(kernel[o], p) /\ (o = m /\ p = q => \A i \in DOMAIN s : s[i] # "delete")
             => Answered(kernel'[o], p)
        /\ o = m /\ p = q /\ Watched(m, q) /\ s # <<>> /\ s[Len(s)] = "close"
             => Answered(kernel'[o], p)
    BY <2>1, <2>3, EventsAdded
  <2>5. {"mkdir", "create", "close", "delete"} \subseteq Kinds
    BY DEF Kinds
  <2>6. QED
    BY <2>1, <2>2, <2>4, <2>5
<1>7. FileInv(o, p)'
  BY <1>1, <1>2, <1>3, <1>4 DEF FileInv, LacksDir, ReceivingAt, Free
<1>8. WatchInv(o, p)'
  BY <1>1, <1>2, <1>3, <1>6, NothingToAnswer DEF WatchInv, LacksDir, Watched, Real
<1>9. ASSUME Steady(p)'
      PROVE  PathInv(o, p)'
  <2>1. Steady(p) /\ PathInv(o, p) /\ PathInv(n, p) /\ (p = q => Settled(m, q))
    BY <1>1, <1>5, <1>9
  <2>2. p = q => /\ p \notin received[o] \cup received[n]
                 /\ m = o => ~Out(n, p) /\ xfer[o].path # p
                 /\ m = n => ~Out(o, p) /\ xfer[n].path # p
                 /\ xfer[m].path # p
    BY <1>1, <1>2, <2>1 DEF Settled, Out, Free, n
  <2>3. OneWay(o, p)'
    BY <1>1, <1>2, <1>3, <2>1, <2>2 DEF OneWay, Out, PathInv, n
  <2>4. NewsIsKnown(o, p)'
    BY <1>1, <1>2, <1>3, <1>6, <2>1, <2>2 DEF NewsIsKnown, News, PathInv, ReceivingAt
  <2>5. ReportedOnce(o, p)'
    BY <1>1, <1>2, <1>6, <2>1, <2>2, UnflushedIs, UnflushedIsNext DEF ReportedOnce, PathInv
  <2>6. ReceivedIsPeers(o, p)'
    BY <1>1, <1>2, <1>3, <2>1, <2>2 DEF ReceivedIsPeers, Real, PathInv, n
  <2>7. SentIsThere(o, p)'
    BY <1>1, <1>2, <1>3, <2>1, <2>2 DEF SentIsThere, Real, PathInv, Out
  <2>8. StillReported(o, p)'
    <3>1. Watched(o, q) \/ (p = q /\ o = m => Has(kernel[o], q, "mkdir"))
      BY <1>1, <1>2 DEF Watched, LacksDir, WatchInv
    <3>2. QED
      BY <1>1, <1>2, <1>3, <1>6, <2>1, <2>2, <3>1, UnflushedIs, UnflushedIsNext
         DEF StillReported, Reported, PathInv
  <2>9. QED
    BY <2>3, <2>4, <2>5, <2>6, <2>7, <2>8 DEF PathInv
<1>10. QED
  BY <1>7, <1>8, <1>9

(* A user deletes a file.                                                   *)
LEMMA DeletePaths ==
    ASSUME Inv, NEW m \in Mirrors, NEW q \in Paths, Delete(m, q)
    PROVE  PathsInv'
<1> SUFFICES ASSUME NEW o \in Mirrors, NEW p \in Paths
             PROVE  FileInv(o, p)' /\ WatchInv(o, p)' /\ (Steady(p)' => PathInv(o, p)')
  BY DEF PathsInv
<1> DEFINE n == Peer(o)
<1>1. /\ n \in Mirrors /\ n # o /\ Peer(n) = o /\ m \in {o, n}
      /\ FileInv(o, p) /\ WatchInv(o, p) /\ (Steady(p) => PathInv(o, p))
      /\ FileInv(n, p) /\ WatchInv(n, p) /\ (Steady(p) => PathInv(n, p))
  BY PeerOf DEF Inv, PathsInv
<1> HIDE DEF n
<1>2. /\ UNCHANGED <<made, watched, created, pending, quiet, ready, received, queue, xfer, edited>>
      /\ Free(m, q)
  BY <1>1 DEF Delete
<1>3. /\ \A t \in Mirrors : dir'[t][p] = IF t = m /\ p = q THEN Missing ELSE dir[t][p]
      /\ \A t \in Mirrors : p \in own'[t] <=> p \in own[t] \/ (t = m /\ p = q)
  BY DEF Delete, Inv, TypeInv, TypeOK
<1>4. Missing # Part
  BY DEF Missing, Part
<1>5. Steady(p)' => Steady(p) /\ (p = q => Settled(m, q))
  BY DEF Delete, Disturbs, Steady
<1>6. /\ Has(kernel'[o], p, "mkdir") <=> Has(kernel[o], p, "mkdir")
      /\ Has(kernel'[o], p, "create") <=> Has(kernel[o], p, "create")
      /\ Has(kernel'[o], p, "close") <=> Has(kernel[o], p, "close")
      /\ ~(o = m /\ p = q /\ Watched(m, q)) =>
            (Has(kernel'[o], p, "delete") <=> Has(kernel[o], p, "delete"))
      /\ Answered(kernel[o], p) /\ ~(o = m /\ p = q) => Answered(kernel'[o], p)
  <2> DEFINE s == <<"delete">>
  <2>1. s \in Seq(Kinds) /\ DOMAIN s = {1} /\ s[1] = "delete"
    BY DEF Kinds
  <2>2. kernel'[o] = IF o = m THEN WithEvents(m, q, s) ELSE kernel[o]
    BY KernelSteps DEF Inv, TypeInv, TypeOK
  <2> HIDE DEF s
  <2> TypeInv
    BY DEF Inv
  <2>3. /\ \A c \in Kinds : Has(kernel'[o], p, c) <=>
            \/ Has(kernel[o], p, c)
            \/ o = m /\ p = q /\ Watched(m, q) /\ \E i \in DOMAIN s : s[i] = c
        /\ Answered(kernel[o], p) /\ (o = m /\ p = q => \A i \in DOMAIN s : s[i] # "delete")
             => Answered(kernel'[o], p)
    BY <2>1, <2>2, EventsAdded
  <2>4. {"mkdir", "create", "close", "delete"} \subseteq Kinds
    BY DEF Kinds
  <2>5. QED
    BY <2>1, <2>3, <2>4
<1>7. FileInv(o, p)'
  BY <1>1, <1>2, <1>3, <1>4 DEF FileInv, LacksDir, ReceivingAt, Free
<1>8. WatchInv(o, p)'
  BY <1>1, <1>2, <1>3, <1>6 DEF WatchInv, Watched, Real
<1>9. ASSUME Steady(p)'
      PROVE  PathInv(o, p)'
  <2>1. Steady(p) /\ PathInv(o, p) /\ PathInv(n, p) /\ (p = q => Settled(m, q))
    BY <1>1, <1>5, <1>9
  <2>2. p = q => /\ p \notin received[o] \cup received[n]
                 /\ xfer[o].path # p /\ xfer[n].path # p
    BY <1>1, <1>2, <2>1 DEF Settled, Free, n
  <2>3. OneWay(o, p)'
    BY <1>1, <1>2, <2>1 DEF OneWay, Out, PathInv, n
  <2>4. NewsIsKnown(o, p)'
    BY <1>1, <1>2, <1>3, <1>6, <2>1 DEF NewsIsKnown, News, PathInv, ReceivingAt
  <2>5. ReportedOnce(o, p)'
    BY <1>1, <1>2, <1>6, <2>1, UnflushedIs, UnflushedIsNext DEF ReportedOnce, PathInv
  <2>6. ReceivedIsPeers(o, p)'
    BY <1>1, <1>2, <1>3, <2>1, <2>2 DEF ReceivedIsPeers, Real, PathInv, n
  <2>7. SentIsThere(o, p)'
    BY <1>1, <1>2, <1>3, <2>1, <2>2 DEF SentIsThere, Real, PathInv
  <2>8. StillReported(o, p)'
    BY <1>1, <1>2, <1>3, <1>6, <2>1, <2>2, UnflushedIs, UnflushedIsNext
       DEF StillReported, Reported, PathInv
  <2>9. QED
    BY <2>3, <2>4, <2>5, <2>6, <2>7, <2>8 DEF PathInv
<1>10. QED
  BY <1>7, <1>8, <1>9

(* A new directory is made, by a user or for a file that is to come.        *)
LEMMA DirPaths ==
    ASSUME Inv, NEW m \in Mirrors, NEW q \in Paths, DirMade(m, q),
           UNCHANGED <<dir, watched, created, pending, quiet, ready, received, queue, xfer, connected,
                       boundVars, ghostVars>>
    PROVE  PathsInv'
<1> SUFFICES ASSUME NEW o \in Mirrors, NEW p \in Paths
             PROVE  FileInv(o, p)' /\ WatchInv(o, p)' /\ (Steady(p)' => PathInv(o, p)')
  BY DEF PathsInv
<1> DEFINE n == Peer(o)
<1>1. /\ n \in Mirrors /\ n # o /\ Peer(n) = o /\ m \in {o, n}
      /\ FileInv(o, p) /\ WatchInv(o, p) /\ (Steady(p) => PathInv(o, p))
      /\ FileInv(n, p) /\ WatchInv(n, p) /\ (Steady(p) => PathInv(n, p))
  BY PeerOf DEF Inv, PathsInv
<1> HIDE DEF n
<1>2. /\ UNCHANGED <<dir, watched, pending, quiet, ready, received, queue, xfer, own, edited, disturbed>>
      /\ LacksDir(m, q)
  BY DEF DirMade, ghostVars
<1>3. \A t \in Mirrors : p \in made'[t] <=> p \in made[t] \/ (t = m /\ p = q)
  BY DEF DirMade, Inv, TypeInv, TypeOK
<1>4. Steady(p)' => Steady(p)
  BY <1>2 DEF Steady
<1>5. /\ Has(kernel'[o], p, "mkdir") <=> Has(kernel[o], p, "mkdir") \/ (o = m /\ p = q)
      /\ Has(kernel'[o], p, "create") <=> Has(kernel[o], p, "create")
      /\ Has(kernel'[o], p, "close") <=> Has(kernel[o], p, "close")
      /\ Has(kernel'[o], p, "delete") <=> Has(kernel[o], p, "delete")
      /\ Answered(kernel[o], p) => Answered(kernel'[o], p)
  <2>1. TypeInv /\ kernel' = [kernel EXCEPT ![m] = Append(@, [kind |-> "mkdir", path |-> q])]
    BY DEF Inv, DirMade
  <2>2. /\ \A c \in Kinds : Has(kernel'[o], p, c) <=>
            Has(kernel[o], p, c) \/ (o = m /\ p = q /\ c = "mkdir")
        /\ Answered(kernel[o], p) => Answered(kernel'[o], p)
    BY <2>1, DirAdded
  <2>3. {"mkdir", "create", "close", "delete"} \subseteq Kinds
    BY DEF Kinds
  <2>4. QED
    BY <2>2, <2>3
<1>6. FileInv(o, p)'
  BY <1>1, <1>2, <1>3 DEF FileInv, LacksDir, ReceivingAt
<1>7. WatchInv(o, p)'
  BY <1>1, <1>2, <1>3, <1>5 DEF WatchInv, Real
<1>8. ASSUME Steady(p)'
      PROVE  PathInv(o, p)'
  <2>1. Steady(p) /\ PathInv(o, p) /\ PathInv(n, p)
    BY <1>1, <1>4, <1>8
  <2>2. o = m /\ p = q => dir[o][p] = Missing /\ p \notin received[o]
    BY <1>1, <1>2, <2>1 DEF FileInv, LacksDir, PathInv, ReceivedIsPeers, Real
  <2>3. OneWay(o, p)'
    BY <1>1, <1>2, <2>1 DEF OneWay, Out, PathInv, n
  <2>4. NewsIsKnown(o, p)'
    BY <1>1, <1>2, <1>5, <2>1, <2>2 DEF NewsIsKnown, News, PathInv, ReceivingAt
  <2>5. ReportedOnce(o, p)'
    BY <1>1, <1>2, <1>5, <2>1, <2>2, UnflushedIs, UnflushedIsNext DEF ReportedOnce, PathInv
  <2>6. ReceivedIsPeers(o, p)'
    BY <1>1, <1>2, <2>1 DEF ReceivedIsPeers, Real, PathInv, n
  <2>7. SentIsThere(o, p)'
    BY <1>1, <1>2, <2>1 DEF SentIsThere, Real, PathInv
  <2>8. StillReported(o, p)'
    BY <1>1, <1>2, <1>5, <2>1, UnflushedIs, UnflushedIsNext DEF StillReported, Reported, PathInv
  <2>9. QED
    BY <2>3, <2>4, <2>5, <2>6, <2>7, <2>8 DEF PathInv
<1>9. QED
  BY <1>6, <1>7, <1>8

(* The watcher reads an event.                                              *)
LEMMA ReadPaths ==
    ASSUME Inv, NEW m \in Mirrors, HandleEvent(m)
    PROVE  PathsInv'
<1> SUFFICES ASSUME NEW o \in Mirrors, NEW p \in Paths
             PROVE  FileInv(o, p)' /\ WatchInv(o, p)' /\ (Steady(p)' => PathInv(o, p)')
  BY DEF PathsInv
<1> DEFINE n == Peer(o)
<1>1. /\ n \in Mirrors /\ n # o /\ Peer(n) = o /\ m \in {o, n}
      /\ FileInv(o, p) /\ WatchInv(o, p) /\ (Steady(p) => PathInv(o, p))
      /\ FileInv(n, p) /\ WatchInv(n, p) /\ (Steady(p) => PathInv(n, p))
  BY PeerOf DEF Inv, PathsInv
<1> HIDE DEF n
<1> DEFINE e == Head(kernel[m])
<1>2. /\ UNCHANGED <<dir, made, ready, received, queue, xfer, own, edited, disturbed>>
      /\ kernel[m] # <<>> /\ kernel' = [kernel EXCEPT ![m] = Tail(@)]
      /\ \A r \in Paths : ready[m][r] = "none"
  BY DEF HandleEvent, ghostVars
<1>3. e \in Events
  BY <1>2, TailEvents DEF Inv, TypeInv, TypeOK
<1>4. /\ Has(kernel'[o], p, "mkdir") => Has(kernel[o], p, "mkdir")
      /\ Has(kernel'[o], p, "create") => Has(kernel[o], p, "create")
      /\ Has(kernel'[o], p, "close") => Has(kernel[o], p, "close")
      /\ Has(kernel'[o], p, "delete") => Has(kernel[o], p, "delete")
      /\ Answered(kernel[o], p) => Answered(kernel'[o], p)
      /\ ~(o = m /\ p = e.path /\ e.kind = "mkdir") /\ Has(kernel[o], p, "mkdir")
           => Has(kernel'[o], p, "mkdir")
      /\ ~(o = m /\ p = e.path /\ e.kind = "close") /\ Has(kernel[o], p, "close")
           => Has(kernel'[o], p, "close")
      /\ o = m /\ p = e.path /\ e.kind = "delete" /\ Answered(kernel[o], p)
           => Has(kernel'[o], p, "mkdir") \/ Has(kernel'[o], p, "close")
      /\ Has(kernel[m], e.path, e.kind)
  <2>1. TypeInv
    BY DEF Inv
  <2>2. /\ Has(kernel[m], e.path, e.kind)
        /\ \A c \in Kinds :
                /\ Has(kernel'[o], p, c) => Has(kernel[o], p, c)
                /\ Has(kernel[o], p, c) => Has(kernel'[o], p, c) \/ (o = m /\ p = e.path /\ c = e.kind)
        /\ Answered(kernel[o], p) => Answered(kernel'[o], p)
        /\ Answered(kernel[o], p) /\ o = m /\ p = e.path /\ e.kind = "delete"
                => Has(kernel'[o], p, "mkdir") \/ Has(kernel'[o], p, "close")
    BY <1>2, <2>1, EventRead
  <2>3. {"mkdir", "create", "close", "delete"} \subseteq Kinds
    BY DEF Kinds
  <2>4. QED
    BY <2>2, <2>3
<1>5. /\ p \in watched'[o] <=> p \in watched[o] \/ (o = m /\ p = e.path /\ e.kind = "mkdir")
      /\ quiet'[o] => quiet[o]
      /\ pending'[o][p] # pending[o][p] =>
            o = m /\ p = e.path /\ ~quiet'[o] /\ e.kind \in {"mkdir", "close", "delete"}
      /\ o = m /\ p = e.path /\ (e.kind = "close" \/ (e.kind = "mkdir" /\ dir[m][p] # Missing))
           => pending'[o][p] \in Changed
      /\ pending'[o][p] \in Changed \ {pending[o][p]}
           => e.kind = "close" \/ (e.kind = "mkdir" /\ dir[m][p] # Missing)
  <2>1. /\ pending \in [Mirrors -> [Paths -> Changes]] /\ quiet \in [Mirrors -> BOOLEAN]
        /\ watched \in [Mirrors -> SUBSET NewDirs]
    BY DEF Inv, TypeInv, TypeOK
  <2>2. e.path \in Paths /\ e.kind \in Kinds
    BY <1>3 DEF Events, Kinds
  <2>3. pending[m][e.path] \in Changes
    BY <2>1, <2>2
  <2>4. /\ Coalesced(pending[m][e.path], "Added") \in Changed
        /\ Coalesced(pending[m][e.path], "Modified") \in Changed
        /\ Coalesced(pending[m][e.path], "Removed") \notin Changed
    BY <2>3, CoalescedIs DEF Changed
  <2>5. ASSUME NEW c, Notify(m, e.path, c)
        PROVE  /\ pending'[o][p] = IF o = m /\ p = e.path THEN Coalesced(pending[m][e.path], c)
                                   ELSE pending[o][p]
               /\ quiet'[o] = (IF o = m THEN FALSE ELSE quiet[o])
    BY <2>1, <2>2, <2>5 DEF Notify
  <2> HIDE DEF e
  <2>6. CASE e.kind = "mkdir"
    <3>1. /\ watched' = [watched EXCEPT ![m] = @ \cup {e.path}]
          /\ IF Scan(m, e.path) THEN Notify(m, e.path, "Added") ELSE UNCHANGED <<pending, quiet>>
      BY <2>6 DEF HandleEvent, e
    <3>2. p \in watched'[o] <=> p \in watched[o] \/ (o = m /\ p = e.path)
      BY <2>1, <3>1
    <3>3. CASE dir[m][e.path] # Missing
      BY <2>4, <2>5, <2>6, <3>1, <3>2, <3>3 DEF Scan
    <3>4. CASE dir[m][e.path] = Missing
      BY <2>6, <3>1, <3>2, <3>4 DEF Scan
    <3>5. QED
      BY <3>3, <3>4
  <2>7. CASE e.kind = "create"
    BY <2>7 DEF HandleEvent, e
  <2>8. CASE e.kind \in {"close", "delete"}
    <3>1. Notify(m, e.path, Change(m, e)) /\ UNCHANGED watched
      BY <2>8 DEF HandleEvent, e
    <3>2. /\ e.kind = "close" => Change(m, e) \in {"Added", "Modified"}
          /\ e.kind = "delete" => Change(m, e) = "Removed"
      BY DEF Change
    <3>3. QED
      BY <2>4, <2>5, <2>8, <3>1, <3>2
  <2>9. QED
    BY <2>2, <2>6, <2>7, <2>8 DEF Kinds
<1> HIDE DEF e
<1>6. FileInv(o, p)'
  BY <1>1, <1>2 DEF FileInv, LacksDir, ReceivingAt
<1>7. WatchInv(o, p)'
  BY <1>1, <1>2, <1>4, <1>5 DEF WatchInv, Real
<1>8. ASSUME Steady(p)'
      PROVE  PathInv(o, p)'
  <2>1. Steady(p) /\ PathInv(o, p) /\ PathInv(n, p)
    BY <1>1, <1>2, <1>8 DEF Steady
  <2>2. OneWay(o, p)'
    BY <1>1, <1>2, <2>1 DEF OneWay, Out, PathInv, n
  <2>3. News(o, p)' => News(o, p)
    BY <1>2, <1>4, <1>5 DEF News
  <2>4. NewsIsKnown(o, p)'
    BY <1>1, <1>2, <1>5, <2>1, <2>3 DEF NewsIsKnown, PathInv, ReceivingAt
  <2>5. ReportedOnce(o, p)'
    <3>1. o = m => ready'[o][p] \notin Changed
      BY <1>2 DEF Changed
    <3>2. QED
      BY <1>1, <1>2, <1>4, <1>5, <2>1, <3>1, UnflushedIs, UnflushedIsNext DEF ReportedOnce, PathInv
  <2>6. ReceivedIsPeers(o, p)'
    BY <1>1, <1>2, <2>1 DEF ReceivedIsPeers, Real, PathInv, n
  <2>7. SentIsThere(o, p)'
    BY <1>1, <1>2, <2>1 DEF SentIsThere, Real, PathInv
  <2>8. StillReported(o, p)'
    <3>1. Reported(o, p) /\ Real(o, p) => Reported(o, p)'
      BY <1>1, <1>2, <1>4, <1>5, UnflushedIs, UnflushedIsNext DEF Reported, Real, WatchInv, Changed
    <3>2. p \in received[o] => Real(o, p)
      BY <2>1 DEF PathInv, ReceivedIsPeers
    <3>3. p \in edited[o] /\ dir[o][p] # Missing => Real(o, p)
      BY <1>1, <2>1 DEF PathInv, OneWay, Out, FileInv, ReceivingAt, Real, n
    <3>4. QED
      BY <1>2, <2>1, <3>1, <3>2, <3>3 DEF StillReported, PathInv
  <2>9. QED
    BY <2>2, <2>4, <2>5, <2>6, <2>7, <2>8 DEF PathInv
<1>9. QED
  BY <1>6, <1>7, <1>8

(* The quiet period ends.                                                   *)
LEMMA QuietPaths ==
    ASSUME Inv, NEW m \in Mirrors, QuietOver(m)
    PROVE  PathsInv'
<1> SUFFICES ASSUME NEW o \in Mirrors, NEW p \in Paths
             PROVE  FileInv(o, p)' /\ WatchInv(o, p)' /\ (Steady(p)' => PathInv(o, p)')
  BY DEF PathsInv
<1> DEFINE n == Peer(o)
<1>1. /\ n \in Mirrors /\ n # o /\ Peer(n) = o /\ m \in {o, n}
      /\ FileInv(o, p) /\ WatchInv(o, p) /\ (Steady(p) => PathInv(o, p))
      /\ FileInv(n, p) /\ WatchInv(n, p) /\ (Steady(p) => PathInv(n, p))
  BY PeerOf DEF Inv, PathsInv
<1> HIDE DEF n
<1>2. UNCHANGED <<dir, made, kernel, watched, pending, ready, received, queue, xfer, own, edited,
                  disturbed>>
  BY DEF QuietOver, ghostVars
<1>3. /\ quiet'[o] = IF o = m THEN TRUE ELSE quiet[o]
      /\ ready[m][p] = "none" /\ kernel[m] = <<>>
      /\ p \notin Slow /\ pending[m][p] # "none" => ~ReceivingAt(m, p)
  BY DEF QuietOver, Inv, TypeInv, TypeOK
<1>4. \A c : ~Has(kernel[m], p, c)
  BY <1>3 DEF Has, Holds
<1>5. FileInv(o, p)'
  BY <1>1, <1>2 DEF FileInv, LacksDir, ReceivingAt
<1>6. WatchInv(o, p)'
  BY <1>1, <1>2, <1>3 DEF WatchInv, Real
<1>7. ASSUME Steady(p)'
      PROVE  PathInv(o, p)'
  <2>1. Steady(p) /\ PathInv(o, p) /\ PathInv(n, p)
    BY <1>1, <1>2, <1>7 DEF Steady
  <2>2. OneWay(o, p)'
    BY <1>1, <1>2, <2>1 DEF OneWay, Out, PathInv, n
  <2>3. NewsIsKnown(o, p)'
    <3>1. pending[m][p] \in Changed => ~ReceivingAt(m, p)
      BY <1>3, <2>1 DEF Steady, Changed
    <3>2. QED
      BY <1>1, <1>2, <1>3, <2>1, <3>1 DEF NewsIsKnown, News, PathInv, ReceivingAt
  <2>4. ReportedOnce(o, p)'
    BY <1>1, <1>2, <1>3, <1>4, <2>1, UnflushedIs, UnflushedIsNext DEF ReportedOnce, PathInv
  <2>5. ReceivedIsPeers(o, p)'
    BY <1>1, <1>2, <2>1 DEF ReceivedIsPeers, Real, PathInv, n
  <2>6. SentIsThere(o, p)'
    BY <1>1, <1>2, <2>1 DEF SentIsThere, Real, PathInv
  <2>7. StillReported(o, p)'
    BY <1>1, <1>2, <2>1, UnflushedIs, UnflushedIsNext DEF StillReported, Reported, PathInv
  <2>8. QED
    BY <2>2, <2>3, <2>4, <2>5, <2>6, <2>7 DEF PathInv
<1>8. QED
  BY <1>5, <1>6, <1>7

(* The pending changes become the batch.                                    *)
LEMMA FlushPaths ==
    ASSUME Inv, NEW m \in Mirrors, FlushIfQuiet(m)
    PROVE  PathsInv'
<1> SUFFICES ASSUME NEW o \in Mirrors, NEW p \in Paths
             PROVE  FileInv(o, p)' /\ WatchInv(o, p)' /\ (Steady(p)' => PathInv(o, p)')
  BY DEF PathsInv
<1> DEFINE n == Peer(o)
<1>1. /\ n \in Mirrors /\ n # o /\ Peer(n) = o /\ m \in {o, n}
      /\ FileInv(o, p) /\ WatchInv(o, p) /\ (Steady(p) => PathInv(o, p))
      /\ FileInv(n, p) /\ WatchInv(n, p) /\ (Steady(p) => PathInv(n, p))
  BY PeerOf DEF Inv, PathsInv
<1> HIDE DEF n
<1>2. UNCHANGED <<dir, made, kernel, watched, received, queue, xfer, own, edited, disturbed>>
  BY DEF FlushIfQuiet, ghostVars
<1>3. /\ ready'[o][p] = IF o = m THEN pending[o][p] ELSE ready[o][p]
      /\ pending'[o][p] = IF o = m THEN "none" ELSE pending[o][p]
      /\ quiet'[o] = IF o = m THEN FALSE ELSE quiet[o]
      /\ quiet[m]
  BY DEF FlushIfQuiet, Inv, TypeInv, TypeOK
<1>4. "none" \notin Changed
  BY DEF Changed
<1>5. FileInv(o, p)'
  BY <1>1, <1>2 DEF FileInv, LacksDir, ReceivingAt
<1>6. WatchInv(o, p)'
  BY <1>1, <1>2, <1>3 DEF WatchInv, Real
<1>7. ASSUME Steady(p)'
      PROVE  PathInv(o, p)'
  <2>1. Steady(p) /\ PathInv(o, p) /\ PathInv(n, p)
    BY <1>1, <1>2, <1>7 DEF Steady
  <2>2. OneWay(o, p)'
    BY <1>1, <1>2, <2>1 DEF OneWay, Out, PathInv, n
  <2>3. NewsIsKnown(o, p)'
    BY <1>1, <1>2, <1>3, <1>4, <2>1 DEF NewsIsKnown, News, PathInv, ReceivingAt
  <2>4. ReportedOnce(o, p)'
    BY <1>1, <1>2, <1>3, <1>4, <2>1, UnflushedIs, UnflushedIsNext DEF ReportedOnce, PathInv
  <2>5. ReceivedIsPeers(o, p)'
    BY <1>1, <1>2, <2>1 DEF ReceivedIsPeers, Real, PathInv, n
  <2>6. SentIsThere(o, p)'
    BY <1>1, <1>2, <2>1 DEF SentIsThere, Real, PathInv
  <2>7. StillReported(o, p)'
    <3>1. Reported(o, p) => Reported(o, p)'
      BY <1>1, <1>2, <1>3, <1>4, UnflushedIs, UnflushedIsNext DEF Reported, WatchInv, Changed
    <3>2. QED
      BY <1>2, <2>1, <3>1 DEF StillReported, PathInv
  <2>8. QED
    BY <2>2, <2>3, <2>4, <2>5, <2>6, <2>7 DEF PathInv
<1>8. QED
  BY <1>5, <1>6, <1>7

(* A change of the batch is handed to the client.                           *)
LEMMA CallbackPaths ==
    ASSUME Inv, NEW m \in Mirrors, NEW q \in Paths, Callback(m, q)
    PROVE  PathsInv'
<1> SUFFICES ASSUME NEW o \in Mirrors, NEW p \in Paths
             PROVE  FileInv(o, p)' /\ WatchInv(o, p)' /\ (Steady(p)' => PathInv(o, p)')
  BY DEF PathsInv
<1> DEFINE n == Peer(o)
<1>1. /\ n \in Mirrors /\ n # o /\ Peer(n) = o /\ m \in {o, n}
      /\ FileInv(o, p) /\ WatchInv(o, p) /\ (Steady(p) => PathInv(o, p))
      /\ FileInv(n, p) /\ WatchInv(n, p) /\ (Steady(p) => PathInv(n, p))
  BY PeerOf DEF Inv, PathsInv
<1> HIDE DEF n
<1>2. /\ UNCHANGED <<dir, made, kernel, watched, pending, quiet, xfer, own, disturbed>>
      /\ ready[m][q] # "none"
  BY DEF Callback
<1>3. /\ ready'[o][p] = IF o = m /\ p = q THEN "none" ELSE ready[o][p]
      /\ ready[m][q] \in Changes
  BY DEF Callback, Inv, TypeInv, TypeOK
<1>4. /\ \A t \in Mirrors : p \in received'[t] <=>
            p \in received[t] /\ ~(t = m /\ p = q /\ ready[m][q] # "Removed")
      /\ \A t \in Mirrors : p \in edited'[t] <=>
            p \in edited[t] /\ (t = m /\ p = q /\ ~Unflushed(m, q) =>
                                  ready[m][q] # "Removed" /\ q \in received[m])
      /\ \A t \in Mirrors : p \in Range(queue'[t]) =>
            \/ p \in Range(queue[t])
            \/ t = m /\ p = q /\ ready[m][q] # "Removed" /\ q \notin received[m]
  <2>1. /\ received \in [Mirrors -> SUBSET Paths] /\ edited \in [Mirrors -> SUBSET Paths]
        /\ queue \in [Mirrors -> Seq(Paths)]
    BY DEF Inv, TypeInv, TypeOK
  <2>2. Handed(m, q) = IF Unflushed(m, q) THEN edited ELSE [edited EXCEPT ![m] = @ \ {q}]
    BY DEF Handed
  <2>3. \A t \in Mirrors : p \in Handed(m, q)[t] <=>
            p \in edited[t] /\ ~(t = m /\ p = q /\ ~Unflushed(m, q))
    BY <2>1, <2>2
  <2>4. Range(Append(queue[m], q)) = Range(queue[m]) \cup {q}
    <3>1. queue[m] \in Seq(Paths) /\ DOMAIN queue[m] = 1 .. Len(queue[m]) /\ Len(queue[m]) \in Nat
      BY <2>1
    <3>2. /\ DOMAIN Append(queue[m], q) = 1 .. Len(queue[m]) + 1
          /\ \A i \in 1 .. Len(queue[m]) : Append(queue[m], q)[i] = queue[m][i]
          /\ Append(queue[m], q)[Len(queue[m]) + 1] = q
      BY <3>1
    <3>3. QED
      BY <3>1, <3>2 DEF Range
  <2>5. CASE ready[m][q] = "Removed"
    BY <2>3, <2>5 DEF Callback
  <2>6. CASE ready[m][q] # "Removed" /\ q \in received[m]
    BY <2>1, <2>6 DEF Callback, TakenFromPeer, TakeReceivedFile
  <2>7. CASE ready[m][q] # "Removed" /\ q \notin received[m]
    <3>1. QueueFileToAll(m, q) /\ UNCHANGED received
      BY <2>7 DEF Callback, TakenFromPeer
    <3>2. edited' = Handed(m, q)
      BY <3>1 DEF QueueFileToAll
    <3>3. \A t \in Mirrors : queue'[t] = queue[t] \/ (t = m /\ queue'[t] = Append(queue[m], q))
      BY <2>1, <3>1 DEF QueueFileToAll
    <3>4. \A t \in Mirrors : p \in Range(queue'[t]) => p \in Range(queue[t]) \/ (t = m /\ p = q)
      <4> TAKE t \in Mirrors
      <4>1. CASE queue'[t] = queue[t]
        BY <4>1
      <4>2. CASE t = m /\ queue'[t] = Append(queue[m], q)
        BY <2>4, <4>2
      <4>3. QED
        BY <3>3, <4>1, <4>2
    <3>5. QED
      BY <2>3, <2>7, <3>1, <3>2, <3>4
  <2>8. QED
    BY <2>5, <2>6, <2>7
<1>5. "none" \notin Changed /\ "Removed" \notin Changed /\ (ready[m][q] # "Removed" => ready[m][q] \in Changed)
  BY <1>2, <1>3 DEF Changed, Changes
<1>6. FileInv(o, p)'
  BY <1>1, <1>2 DEF FileInv, LacksDir, ReceivingAt
<1>7. WatchInv(o, p)'
  BY <1>1, <1>2, <1>3 DEF WatchInv, Real
<1>8. ASSUME Steady(p)'
      PROVE  PathInv(o, p)'
  <2>1. Steady(p) /\ PathInv(o, p) /\ PathInv(n, p)
    BY <1>1, <1>2, <1>8 DEF Steady
  <2>2. /\ Out(o, p)' => Out(o, p)
        /\ Out(n, p)' => Out(n, p)
    BY <1>1, <1>2, <1>4, <1>5, <2>1 DEF Out, PathInv, NewsIsKnown, n
  <2>3. OneWay(o, p)'
    <3>1. OneWay(o, p)' <=> ~(Out(o, p)' /\ Out(n, p)')
      BY DEF OneWay, n
    <3>2. QED
      BY <2>1, <2>2, <3>1 DEF OneWay, PathInv, n
  <2>4. NewsIsKnown(o, p)'
    <3>1. News(o, p)' => News(o, p)
      BY <1>2, <1>3, <1>5 DEF News
    <3>2. News(o, p) => Unflushed(o, p) \/ ready[o][p] \in Changed
      BY UnflushedIs DEF News
    <3>3. o = m /\ p = q => (News(o, p)' => Unflushed(o, p))
      BY <1>2, <1>3, <1>5, UnflushedIs DEF News
    <3>4. quiet[o] => ready[o][p] = "none"
      BY <1>1 DEF WatchInv
    <3>5. ready'[o][p] \in Changed \/ (quiet'[o] /\ pending'[o][p] \in Changed) =>
            ready[o][p] \in Changed \/ (quiet[o] /\ pending[o][p] \in Changed)
      BY <1>2, <1>3, <1>5
    <3>6. CASE ~(o = m /\ p = q)
      BY <1>1, <1>2, <1>4, <2>1, <3>1, <3>5, <3>6 DEF NewsIsKnown, PathInv, ReceivingAt
    <3>7. CASE o = m /\ p = q
      BY <1>1, <1>2, <1>3, <1>4, <1>5, <2>1, <3>1, <3>3, <3>4, <3>5, <3>7
         DEF NewsIsKnown, PathInv, ReceivingAt, ReportedOnce
    <3>8. QED
      BY <3>6, <3>7
  <2>5. ReportedOnce(o, p)'
    BY <1>1, <1>2, <1>3, <1>4, <1>5, <2>1, UnflushedIs, UnflushedIsNext DEF ReportedOnce, PathInv
  <2>6. ReceivedIsPeers(o, p)'
    BY <1>1, <1>2, <1>4, <2>1 DEF ReceivedIsPeers, Real, PathInv, n
  <2>7. SentIsThere(o, p)'
    BY <1>1, <1>2, <2>1 DEF SentIsThere, Real, PathInv
  <2>8. StillReported(o, p)'
    <3>1. Unflushed(o, p)' <=> Unflushed(o, p)
      BY <1>2, UnflushedIs, UnflushedIsNext
    <3>2. ~(p \in edited[o] /\ p \in received[o])
      BY <1>1, <2>1 DEF PathInv, OneWay, Out, n
    <3>3. QED
      BY <1>1, <1>2, <1>3, <1>4, <1>5, <2>1, <3>1, <3>2 DEF StillReported, Reported, PathInv, Changed
  <2>9. QED
    BY <2>3, <2>4, <2>5, <2>6, <2>7, <2>8 DEF PathInv
<1>9. QED
  BY <1>6, <1>7, <1>8

(* The next file is offered.                                                *)
LEMMA OfferPaths ==
    ASSUME Inv, NEW m \in Mirrors, SendFileOffer(m)
    PROVE  PathsInv'
<1> SUFFICES ASSUME NEW o \in Mirrors, NEW p \in Paths
             PROVE  FileInv(o, p)' /\ WatchInv(o, p)' /\ (Steady(p)' => PathInv(o, p)')
  BY DEF PathsInv
<1> DEFINE n == Peer(o)
<1>1. /\ n \in Mirrors /\ n # o /\ Peer(n) = o /\ m \in {o, n}
      /\ FileInv(o, p) /\ WatchInv(o, p) /\ (Steady(p) => PathInv(o, p))
      /\ FileInv(n, p) /\ WatchInv(n, p) /\ (Steady(p) => PathInv(n, p))
  BY PeerOf DEF Inv, PathsInv
<1> HIDE DEF n
<1> DEFINE q == Head(queue[m])
<1>2. UNCHANGED <<dir, made, kernel, watched, pending, quiet, ready, received, own, edited, disturbed>>
  BY DEF SendFileOffer, watchVars, ghostVars
<1>3. /\ queue[m] \in Seq(Paths) /\ queue[m] # <<>> /\ q \in Paths
      /\ \A t \in Mirrors : queue'[t] = IF t = m THEN Tail(queue[m]) ELSE queue[t]
  BY DEF SendFileOffer, Inv, TypeInv, TypeOK
<1>4. /\ xfer[m].phase = "idle" /\ xfer[m] = Idle
      /\ \A t \in Mirrors : t # m => xfer'[t] = xfer[t]
      /\ \/ xfer'[m] = Idle
         \/ /\ xfer'[m] = [phase |-> "offered", path |-> q, version |-> dir[m][q], entry |-> FALSE]
            /\ dir[m][q] # Missing
  BY DEF SendFileOffer, Inv, TypeInv, TypeOK, XferInv
<1>5. Idle.path = NoPath /\ Idle.phase = "idle" /\ NoPath \notin Paths
  BY ConstantsAssumption DEF Idle
<1>6. /\ p \in Range(queue'[m]) => p \in Range(queue[m])
      /\ q \in Range(queue[m])
  <2>1. /\ DOMAIN queue[m] = 1 .. Len(queue[m]) /\ Len(queue[m]) \in Nat \ {0} /\ q = queue[m][1]
        /\ DOMAIN Tail(queue[m]) = 1 .. Len(queue[m]) - 1
        /\ \A i \in 1 .. Len(queue[m]) - 1 : Tail(queue[m])[i] = queue[m][i + 1]
    BY <1>3
  <2>2. \A i \in 1 .. Len(queue[m]) - 1 : i + 1 \in DOMAIN queue[m]
    BY <2>1
  <2>3. Range(Tail(queue[m])) \subseteq Range(queue[m]) /\ q \in Range(queue[m])
    BY <2>1, <2>2 DEF Range
  <2>4. queue'[m] = Tail(queue[m])
    BY <1>3
  <2>5. QED
    BY <2>3, <2>4
<1> HIDE DEF q
<1>7. \A t \in Mirrors : xfer'[t].phase \in {"accepted", "sending"} \/ xfer[t].phase \in {"accepted", "sending"}
        => xfer'[t] = xfer[t]
  BY <1>4, <1>5
<1>8. ReceivingAt(o, p)' <=> ReceivingAt(o, p)
  BY <1>1, <1>7 DEF ReceivingAt, n
<1>9. FileInv(o, p)'
  BY <1>1, <1>2, <1>7, <1>8 DEF FileInv, LacksDir
<1>10. WatchInv(o, p)'
  BY <1>1, <1>2 DEF WatchInv, Real
<1>11. ASSUME Steady(p)'
       PROVE  PathInv(o, p)'
  <2>1. Steady(p) /\ PathInv(o, p) /\ PathInv(n, p)
    BY <1>1, <1>2, <1>11 DEF Steady
  <2>2. \A t \in Mirrors : xfer'[t].path = p =>
            \/ xfer'[t] = xfer[t]
            \/ t = m /\ p = q /\ xfer'[t].phase = "offered" /\ xfer'[t].version = dir[t][p] /\ dir[t][p] # Missing
    BY <1>4, <1>5
  <2>3. Out(o, p)' => Out(o, p)
    BY <1>1, <1>2, <1>3, <1>6, <2>2 DEF Out, n
  <2>4. Out(n, p)' => Out(n, p)
    BY <1>1, <1>2, <1>3, <1>6, <2>2 DEF Out, n
  <2>5. OneWay(o, p)'
    <3>1. OneWay(o, p)' <=> ~(Out(o, p)' /\ Out(n, p)')
      BY DEF OneWay, n
    <3>2. QED
      BY <2>1, <2>3, <2>4, <3>1 DEF OneWay, PathInv, n
  <2>6. NewsIsKnown(o, p)'
    BY <1>2, <1>8, <2>1 DEF NewsIsKnown, News, PathInv
  <2>7. ReportedOnce(o, p)'
    BY <1>1, <1>2, <2>1, UnflushedIs, UnflushedIsNext DEF ReportedOnce, PathInv
  <2>8. ReceivedIsPeers(o, p)'
    BY <1>1, <1>2, <2>1, <2>2 DEF ReceivedIsPeers, Real, PathInv, n
  <2>9. SentIsThere(o, p)'
    <3>1. o = m /\ p = q => dir[o][p] # Part
      BY <1>1, <1>6, <2>1 DEF FileInv, ReceivingAt, PathInv, OneWay, Out, n
    <3>2. QED
      BY <1>1, <1>2, <2>1, <2>2, <3>1 DEF SentIsThere, Real, PathInv
  <2>10. StillReported(o, p)'
    BY <1>1, <1>2, <2>1, UnflushedIs, UnflushedIsNext DEF StillReported, Reported, PathInv
  <2>11. QED
    BY <2>5, <2>6, <2>7, <2>8, <2>9, <2>10 DEF PathInv
<1>12. QED
  BY <1>9, <1>10, <1>11

(* The file is opened once its lock is granted.                             *)
LEMMA OpenPaths ==
    ASSUME Inv, NEW m \in Mirrors, OpensFile(m)
    PROVE  PathsInv'
<1> SUFFICES ASSUME NEW o \in Mirrors, NEW p \in Paths
             PROVE  FileInv(o, p)' /\ WatchInv(o, p)' /\ (Steady(p)' => PathInv(o, p)')
  BY DEF PathsInv
<1> DEFINE n == Peer(o)
<1>1. /\ n \in Mirrors /\ n # o /\ Peer(n) = o /\ m \in {o, n}
      /\ FileInv(o, p) /\ WatchInv(o, p) /\ (Steady(p) => PathInv(o, p))
      /\ FileInv(n, p) /\ WatchInv(n, p) /\ (Steady(p) => PathInv(n, p))
  BY PeerOf DEF Inv, PathsInv
<1> HIDE DEF n
<1>2. UNCHANGED <<dir, made, kernel, watched, pending, quiet, ready, received, queue, own, edited, disturbed>>
  BY DEF OpensFile, watchVars, ghostVars
<1> DEFINE q == xfer[m].path
<1>3. /\ q \in Paths /\ ~ReceivingAt(m, q) /\ xfer[m].phase = "accepted"
      /\ \A t \in Mirrors : t # m => xfer'[t] = xfer[t]
      /\ xfer'[m].phase = "sending" /\ xfer'[m].path = q /\ xfer'[m].entry = xfer[m].entry
      /\ xfer'[m].version = dir[m][q]
  BY DEF OpensFile, MustWait, Inv, TypeInv, TypeOK, XferInv
<1> HIDE DEF q
<1>4. dir[m][q] # Part
  BY <1>3 DEF Inv, PathsInv, FileInv
<1>5. ReceivingAt(o, p)' <=> ReceivingAt(o, p)
  BY <1>1, <1>3 DEF ReceivingAt, n, q
<1>6. FileInv(o, p)'
  BY <1>1, <1>2, <1>3, <1>4, <1>5 DEF FileInv, LacksDir
<1>7. WatchInv(o, p)'
  BY <1>1, <1>2 DEF WatchInv, Real
<1>8. ASSUME Steady(p)'
      PROVE  PathInv(o, p)'
  <2>1. Steady(p) /\ PathInv(o, p) /\ PathInv(n, p)
    BY <1>1, <1>2, <1>8 DEF Steady
  <2>2. \A t \in Mirrors : xfer'[t].path = xfer[t].path
    BY <1>3 DEF q
  <2>3. OneWay(o, p)'
    BY <1>1, <1>2, <2>1, <2>2 DEF OneWay, Out, PathInv, n
  <2>4. NewsIsKnown(o, p)'
    BY <1>2, <1>5, <2>1 DEF NewsIsKnown, News, PathInv
  <2>5. ReportedOnce(o, p)'
    BY <1>1, <1>2, <2>1, UnflushedIs, UnflushedIsNext DEF ReportedOnce, PathInv
  <2>6. ReceivedIsPeers(o, p)'
    BY <1>1, <1>2, <1>3, <2>1 DEF ReceivedIsPeers, Real, PathInv, n, q
  <2>7. SentIsThere(o, p)'
    BY <1>1, <1>2, <1>3, <2>1 DEF SentIsThere, Real, PathInv, q
  <2>8. StillReported(o, p)'
    BY <1>1, <1>2, <2>1, UnflushedIs, UnflushedIsNext DEF StillReported, Reported, PathInv
  <2>9. QED
    BY <2>3, <2>4, <2>5, <2>6, <2>7, <2>8 DEF PathInv
<1>9. QED
  BY <1>6, <1>7, <1>8

(* A direction becomes idle, and nothing else changes: an offer is rejected.*)
LEMMA IdlePaths ==
    ASSUME Inv, NEW m \in Mirrors, xfer' = [xfer EXCEPT ![m] = Idle],
           xfer[m].phase = "idle" \/ ~xfer[m].entry,
           UNCHANGED <<dir, made, kernel, watched, pending, quiet, ready, received, queue, own, edited,
                       disturbed>>
    PROVE  PathsInv'
<1> SUFFICES ASSUME NEW o \in Mirrors, NEW p \in Paths
             PROVE  FileInv(o, p)' /\ WatchInv(o, p)' /\ (Steady(p)' => PathInv(o, p)')
  BY DEF PathsInv
<1> DEFINE n == Peer(o)
<1>1. /\ n \in Mirrors /\ n # o /\ Peer(n) = o /\ m \in {o, n}
      /\ FileInv(o, p) /\ WatchInv(o, p) /\ (Steady(p) => PathInv(o, p))
      /\ FileInv(n, p) /\ WatchInv(n, p) /\ (Steady(p) => PathInv(n, p))
  BY PeerOf DEF Inv, PathsInv
<1> HIDE DEF n
<1>2. /\ xfer'[m] = Idle /\ \A t \in Mirrors : t # m => xfer'[t] = xfer[t]
  BY DEF Inv, TypeInv, TypeOK
<1>3. Idle.path = NoPath /\ Idle.phase = "idle" /\ NoPath \notin Paths
  BY ConstantsAssumption DEF Idle
<1>4. ReceivingAt(o, p)' <=> ReceivingAt(o, p)
  BY <1>1, <1>2, <1>3 DEF ReceivingAt, n
<1>5. FileInv(o, p)'
  BY <1>1, <1>2, <1>3, <1>4 DEF FileInv, LacksDir
<1>6. WatchInv(o, p)'
  BY <1>1 DEF WatchInv, Real
<1>7. ASSUME Steady(p)'
      PROVE  PathInv(o, p)'
  <2>1. Steady(p) /\ PathInv(o, p) /\ PathInv(n, p)
    BY <1>1, <1>7 DEF Steady
  <2>2. \A t \in Mirrors : xfer'[t].path = p => xfer'[t] = xfer[t]
    BY <1>2, <1>3
  <2>3. OneWay(o, p)'
    BY <1>1, <2>1, <2>2 DEF OneWay, Out, PathInv, n
  <2>4. NewsIsKnown(o, p)'
    BY <1>4, <2>1 DEF NewsIsKnown, News, PathInv
  <2>5. ReportedOnce(o, p)'
    BY <1>1, <2>1, UnflushedIs, UnflushedIsNext DEF ReportedOnce, PathInv
  <2>6. ReceivedIsPeers(o, p)'
    BY <1>1, <2>1, <2>2 DEF ReceivedIsPeers, Real, PathInv, n
  <2>7. SentIsThere(o, p)'
    BY <1>1, <2>1, <2>2 DEF SentIsThere, Real, PathInv
  <2>8. StillReported(o, p)'
    BY <1>1, <2>1, UnflushedIs, UnflushedIsNext DEF StillReported, Reported, PathInv
  <2>9. QED
    BY <2>3, <2>4, <2>5, <2>6, <2>7, <2>8 DEF PathInv
<1>8. QED
  BY <1>5, <1>6, <1>7

(* An offer is accepted: the destination is opened, or its lock refused.    *)
LEMMA AcceptPaths ==
    ASSUME Inv, NEW m \in Mirrors, OnFileOffer(m), xfer' # [xfer EXCEPT ![m] = Idle]
    PROVE  PathsInv'
<1> SUFFICES ASSUME NEW o \in Mirrors, NEW p \in Paths
             PROVE  FileInv(o, p)' /\ WatchInv(o, p)' /\ (Steady(p)' => PathInv(o, p)')
  BY DEF PathsInv
<1> DEFINE n == Peer(o)
<1>1. /\ n \in Mirrors /\ n # o /\ Peer(n) = o /\ m \in {o, n}
      /\ FileInv(o, p) /\ WatchInv(o, p) /\ (Steady(p) => PathInv(o, p))
      /\ FileInv(n, p) /\ WatchInv(n, p) /\ (Steady(p) => PathInv(n, p))
  BY PeerOf DEF Inv, PathsInv
<1> HIDE DEF n
<1> DEFINE q == xfer[m].path
           r == Peer(m)
<1>2. UNCHANGED <<made, watched, pending, quiet, ready, received, queue, edited, disturbed>>
  BY DEF OnFileOffer
<1>3. /\ r \in Mirrors /\ r # m /\ Peer(r) = m /\ q \in Paths
      /\ (m = n => r = o) /\ (m = o => r = n)
      /\ xfer[m].phase = "offered" /\ ~xfer[m].entry /\ ~LacksDir(r, q)
      /\ FileInv(r, q)
  BY <1>1, PeerOf DEF OnFileOffer, Inv, TypeInv, XferInv, PathsInv, n
<1>4. dir[r][q] # Part
  BY <1>3 DEF FileInv, ReceivingAt
<1>5. /\ dir[r][q] # xfer[m].version
      /\ \A t \in Mirrors : t # m => xfer'[t] = xfer[t]
      /\ xfer'[m].phase = "accepted" /\ xfer'[m].path = q
      /\ xfer'[m].entry <=> ~ReadingAt(r, q)
  <2>1. dir[r][q] # xfer[m].version /\ (dir[r][q] # xfer[m].version \/ dir[r][q] = Part)
    BY <1>4 DEF OnFileOffer
  <2>2. xfer \in [Mirrors -> [phase : Phases, path : Paths \cup {NoPath}, version : Versions,
                            entry : BOOLEAN]]
    BY DEF Inv, TypeInv, TypeOK
  <2>3. CASE ReadingAt(r, q)
    <3>1. xfer' = [xfer EXCEPT ![m].phase = "accepted"]
      BY <2>1, <2>3 DEF OnFileOffer
    <3>2. QED
      BY <1>3, <2>1, <2>2, <2>3, <3>1
  <2>4. CASE ~ReadingAt(r, q)
    <3>1. xfer' = [xfer EXCEPT ![m].phase = "accepted", ![m].entry = TRUE]
      BY <2>1, <2>4 DEF OnFileOffer
    <3>2. QED
      BY <1>3, <2>1, <2>2, <2>4, <3>1
  <2>5. QED
    BY <2>3, <2>4
<1>6. \A t \in Mirrors : dir'[t][p] = IF t = r /\ p = q /\ ~ReadingAt(r, q) THEN Part ELSE dir[t][p]
  BY <1>3, <1>4, <1>5 DEF OnFileOffer, Inv, TypeInv, TypeOK
<1>7. \A t \in Mirrors : p \in own'[t] <=> p \in own[t] /\ ~(t = r /\ p = q /\ ~ReadingAt(r, q))
  BY <1>3, <1>4, <1>5 DEF OnFileOffer, Inv, TypeInv, TypeOK
<1>8. /\ Has(kernel'[o], p, "mkdir") <=> Has(kernel[o], p, "mkdir")
      /\ Has(kernel'[o], p, "delete") <=> Has(kernel[o], p, "delete")
      /\ Has(kernel[o], p, "close") => Has(kernel'[o], p, "close")
      /\ ~(o = r /\ p = q /\ Watched(r, q)) =>
            /\ Has(kernel'[o], p, "create") <=> Has(kernel[o], p, "create")
            /\ Has(kernel'[o], p, "close") <=> Has(kernel[o], p, "close")
      /\ ~(o = r /\ p = q /\ ReadingAt(r, q)) =>
            (Has(kernel'[o], p, "close") <=> Has(kernel[o], p, "close"))
      /\ Answered(kernel[o], p) => Answered(kernel'[o], p)
  <2> DEFINE s == IF ReadingAt(r, q) THEN <<"close">> ELSE IfNew(r, q)
  <2>1. /\ s \in Seq(Kinds) /\ \A i \in DOMAIN s : s[i] \in {"create", "close"}
        /\ ~ReadingAt(r, q) => \A i \in DOMAIN s : s[i] = "create"
    <3>1. <<"close">> \in Seq(Kinds) /\ \A i \in DOMAIN <<"close">> : <<"close">>[i] \in {"create", "close"}
      BY DEF Kinds
    <3>2. IfNew(r, q) \in Seq(Kinds) /\ \A i \in DOMAIN IfNew(r, q) : IfNew(r, q)[i] = "create"
      BY <1>3, KindsOfChanges
    <3>3. QED
      BY <3>1, <3>2
  <2>2. kernel'[o] = IF o = r THEN WithEvents(r, q, s) ELSE kernel[o]
    BY <1>3, <1>4, <1>5 DEF OnFileOffer, Inv, TypeInv, TypeOK
  <2> HIDE DEF s, r, q
  <2> TypeInv
    BY DEF Inv
  <2>3. /\ \A c \in Kinds : Has(kernel'[o], p, c) <=>
            \/ Has(kernel[o], p, c)
            \/ o = r /\ p = q /\ Watched(r, q) /\ \E i \in DOMAIN s : s[i] = c
        /\ Answered(kernel[o], p) /\ (o = r /\ p = q => \A i \in DOMAIN s : s[i] # "delete")
             => Answered(kernel'[o], p)
    BY <1>3, <2>1, <2>2, EventsAdded
  <2>4. {"mkdir", "create", "close", "delete"} \subseteq Kinds
    BY DEF Kinds
  <2>5. QED
    BY <2>1, <2>3, <2>4
<1> HIDE DEF q, r
<1>9. \A t \in Mirrors : xfer'[t].path = xfer[t].path
  BY <1>5 DEF q
<1>10. ReceivingAt(o, p)' <=> ReceivingAt(o, p) \/ (o = r /\ p = q /\ ~ReadingAt(r, q))
  BY <1>1, <1>3, <1>5 DEF ReceivingAt, n, q
<1>11. FileInv(o, p)'
  BY <1>1, <1>2, <1>3, <1>5, <1>6, <1>10 DEF FileInv, LacksDir, Missing, Part
<1>12. WatchInv(o, p)'
  BY <1>1, <1>2, <1>6, <1>8 DEF WatchInv, Watched, Real
<1>13. ASSUME Steady(p)'
       PROVE  PathInv(o, p)'
  <2>1. Steady(p) /\ PathInv(o, p) /\ PathInv(n, p)
    BY <1>1, <1>2, <1>13 DEF Steady
  <2>2. p = q => /\ Real(m, p) /\ xfer[m].version = dir[m][p] /\ Out(m, p) /\ ~Out(r, p)
    BY <1>1, <1>3, <2>1 DEF PathInv, SentIsThere, OneWay, Out, q
  <2>3. p = q => /\ p \notin edited[r] /\ xfer[r].path # p /\ p \notin received[m]
                 /\ ~ReadingAt(r, p) /\ p \notin received[r]
    BY <1>1, <1>3, <1>5, <2>1, <2>2 DEF Out, ReadingAt, PathInv, ReceivedIsPeers
  <2>4. OneWay(o, p)'
    BY <1>1, <1>2, <1>9, <2>1 DEF OneWay, Out, PathInv, n
  <2>5. NewsIsKnown(o, p)'
    BY <1>1, <1>2, <1>3, <1>6, <1>8, <1>10, <2>1, <2>3 DEF NewsIsKnown, News, PathInv
  <2>6. ReportedOnce(o, p)'
    BY <1>1, <1>2, <1>8, <2>1, <2>3, UnflushedIs, UnflushedIsNext DEF ReportedOnce, PathInv
  <2>7. ReceivedIsPeers(o, p)'
    BY <1>1, <1>2, <1>3, <1>5, <1>6, <1>9, <2>1, <2>3 DEF ReceivedIsPeers, Real, PathInv, n, q
  <2>8. SentIsThere(o, p)'
    BY <1>1, <1>2, <1>3, <1>5, <1>6, <2>1, <2>2, <2>3 DEF SentIsThere, Real, PathInv
  <2>9. StillReported(o, p)'
    BY <1>1, <1>2, <1>3, <1>6, <1>7, <1>8, <2>1, <2>3, UnflushedIs, UnflushedIsNext
       DEF StillReported, Reported, PathInv
  <2>10. QED
    BY <2>4, <2>5, <2>6, <2>7, <2>8, <2>9 DEF PathInv
<1>14. QED
  BY <1>11, <1>12, <1>13

(* A file has been received, and is recorded.                               *)
LEMMA ReceivedPaths ==
    ASSUME Inv, NEW m \in Mirrors, LastChunk(m), xfer[m].entry
    PROVE  PathsInv'
<1> SUFFICES ASSUME NEW o \in Mirrors, NEW p \in Paths
             PROVE  FileInv(o, p)' /\ WatchInv(o, p)' /\ (Steady(p)' => PathInv(o, p)')
  BY DEF PathsInv
<1> DEFINE n == Peer(o)
<1>1. /\ n \in Mirrors /\ n # o /\ Peer(n) = o /\ m \in {o, n}
      /\ FileInv(o, p) /\ WatchInv(o, p) /\ (Steady(p) => PathInv(o, p))
      /\ FileInv(n, p) /\ WatchInv(n, p) /\ (Steady(p) => PathInv(n, p))
  BY PeerOf DEF Inv, PathsInv
<1> HIDE DEF n
<1> DEFINE q == xfer[m].path
           r == Peer(m)
<1>2. UNCHANGED <<made, watched, pending, quiet, ready, queue, own, edited, disturbed>>
  BY DEF LastChunk, ghostVars
<1>3. /\ r \in Mirrors /\ r # m /\ Peer(r) = m /\ q \in Paths
      /\ (m = n => r = o) /\ (m = o => r = n)
      /\ xfer[m].phase = "sending" /\ FileInv(r, q) /\ FileInv(m, q)
  BY <1>1, PeerOf DEF LastChunk, Inv, TypeInv, XferInv, PathsInv, n
<1>4. ReceivingAt(r, q) /\ dir[r][q] = Part /\ ~LacksDir(r, q) /\ xfer[m].version # Part
  BY <1>3 DEF FileInv, ReceivingAt, Missing, Part
<1>5. /\ xfer'[m] = Idle /\ \A t \in Mirrors : t # m => xfer'[t] = xfer[t]
      /\ Idle.path = NoPath /\ Idle.phase = "idle" /\ NoPath \notin Paths
  BY ConstantsAssumption DEF LastChunk, Inv, TypeInv, TypeOK, Idle
<1>6. \A t \in Mirrors : dir'[t][p] = IF t = r /\ p = q THEN xfer[m].version ELSE dir[t][p]
  BY <1>3 DEF LastChunk, Inv, TypeInv, TypeOK
<1>7. \A t \in Mirrors : p \in received'[t] <=> p \in received[t] \/ (t = r /\ p = q)
  BY <1>3 DEF LastChunk, Recorded, Inv, TypeInv, TypeOK
<1>8. /\ Has(kernel'[o], p, "mkdir") <=> Has(kernel[o], p, "mkdir")
      /\ Has(kernel'[o], p, "create") <=> Has(kernel[o], p, "create")
      /\ Has(kernel'[o], p, "delete") <=> Has(kernel[o], p, "delete")
      /\ Has(kernel'[o], p, "close") <=> Has(kernel[o], p, "close") \/ (o = r /\ p = q /\ Watched(r, q))
      /\ Answered(kernel[o], p) \/ (o = r /\ p = q /\ Watched(r, q)) => Answered(kernel'[o], p)
  <2> DEFINE s == <<"close", "close">>
  <2>1. /\ s \in Seq(Kinds) /\ s # <<>> /\ Len(s) = 2 /\ DOMAIN s = {1, 2}
        /\ s[1] = "close" /\ s[2] = "close"
    BY DEF Kinds
  <2>2. kernel'[o] = IF o = r THEN WithEvents(r, q, s) ELSE kernel[o]
    BY <1>3 DEF LastChunk, Inv, TypeInv, TypeOK
  <2> HIDE DEF s, r, q
  <2> TypeInv
    BY DEF Inv
  <2>3. /\ \A c \in Kinds : Has(kernel'[o], p, c) <=>
            \/ Has(kernel[o], p, c)
            \/ o = r /\ p = q /\ Watched(r, q) /\ \E i \in DOMAIN s : s[i] = c
        /\ Answered(kernel[o], p) /\ (o = r /\ p = q => \A i \in DOMAIN s : s[i] # "delete")
             => Answered(kernel'[o], p)
        /\ o = r /\ p = q /\ Watched(r, q) /\ s # <<>> /\ s[Len(s)] = "close"
             => Answered(kernel'[o], p)
    BY <1>3, <2>1, <2>2, EventsAdded
  <2>4. {"mkdir", "create", "close", "delete"} \subseteq Kinds
    BY DEF Kinds
  <2>5. QED
    BY <2>1, <2>3, <2>4
<1>9. xfer[m].path = q
  OBVIOUS
<1> HIDE DEF q, r
<1>10. ReceivingAt(o, p)' <=> ReceivingAt(o, p) /\ ~(o = r /\ p = q)
  BY <1>1, <1>3, <1>5, <1>9 DEF ReceivingAt, n
<1>11. FileInv(o, p)'
  BY <1>1, <1>2, <1>3, <1>4, <1>5, <1>6, <1>10 DEF FileInv, LacksDir
<1>12. WatchInv(o, p)'
  BY <1>1, <1>2, <1>3, <1>6, <1>8, NothingToAnswer DEF WatchInv, Watched, Real
<1>13. ASSUME Steady(p)'
       PROVE  PathInv(o, p)'
  <2>1. Steady(p) /\ PathInv(o, p) /\ PathInv(n, p)
    BY <1>1, <1>2, <1>13 DEF Steady
  <2>2. p = q => /\ Real(m, p) /\ xfer[m].version = dir[m][p] /\ Out(m, p) /\ ~Out(r, p)
    BY <1>1, <1>3, <1>9, <2>1 DEF PathInv, SentIsThere, OneWay, Out
  <2>3. p = q => /\ p \notin edited[r] /\ xfer[r].path # p /\ p \notin received[m]
                 /\ p \notin received[r]
    BY <1>1, <1>3, <1>5, <1>9, <2>1, <2>2 DEF Out, PathInv, ReceivedIsPeers
  <2>4. Out(m, p)' => Out(m, p)
    BY <1>2, <1>3, <1>5, <1>7, <2>2 DEF Out, r
  <2>5. Out(r, p)' => Out(r, p)
    BY <1>2, <1>3, <1>5, <1>7 DEF Out
  <2>6. OneWay(o, p)'
    <3>1. OneWay(o, p)' <=> ~(Out(o, p)' /\ Out(n, p)')
      BY DEF OneWay, n
    <3>2. CASE m = o
      BY <1>3, <2>1, <2>4, <2>5, <3>1, <3>2 DEF OneWay, PathInv, n
    <3>3. CASE m = n
      BY <1>3, <2>1, <2>4, <2>5, <3>1, <3>3 DEF OneWay, PathInv, n
    <3>4. QED
      BY <1>1, <3>2, <3>3
  <2>7. o = r /\ p = q => ready[o][p] \notin Changed /\ ~(quiet[o] /\ pending[o][p] \in Changed)
    BY <1>1, <2>1, <2>3 DEF PathInv, NewsIsKnown
  <2>8. NewsIsKnown(o, p)'
    BY <1>1, <1>2, <1>3, <1>6, <1>7, <1>8, <1>10, <2>1 DEF NewsIsKnown, News, PathInv
  <2>9. ReportedOnce(o, p)'
    BY <1>1, <1>2, <1>7, <1>8, <2>1, <2>7, UnflushedIs, UnflushedIsNext DEF ReportedOnce, PathInv
  <2>10. ReceivedIsPeers(o, p)'
    BY <1>1, <1>2, <1>3, <1>5, <1>6, <1>7, <2>1, <2>2, <2>3 DEF ReceivedIsPeers, Real, PathInv, n
  <2>11. SentIsThere(o, p)'
    BY <1>1, <1>3, <1>5, <1>6, <2>1, <2>2, <2>3 DEF SentIsThere, Real, PathInv
  <2>12. StillReported(o, p)'
    <3>1. o = r /\ p = q => Unflushed(o, p)'
      BY <1>1, <1>2, <1>3, <1>4, <1>8, UnflushedIsNext DEF WatchInv, Watched, LacksDir
    <3>2. QED
      BY <1>1, <1>2, <1>3, <1>6, <1>7, <1>8, <2>1, <2>3, <3>1, UnflushedIs, UnflushedIsNext
         DEF StillReported, Reported, PathInv
  <2>13. QED
    BY <2>6, <2>8, <2>9, <2>10, <2>11, <2>12 DEF PathInv
<1>14. QED
  BY <1>11, <1>12, <1>13

----------------------------------------------------------------------------
(* The theorems                                                             *)

(* At the start no path has a record, a change or a notification.           *)
LEMMA InitPaths == Init => PathsInv
<1> SUFFICES ASSUME Init, NEW m \in Mirrors, NEW p \in Paths
             PROVE  FileInv(m, p) /\ WatchInv(m, p) /\ PathInv(m, p)
  BY DEF PathsInv
<1>1. Peer(m) \in Mirrors
  BY PeerOf
<1>2. \A t \in Mirrors : /\ dir[t][p] = Missing /\ kernel[t] = <<>> /\ made[t] = {} /\ xfer[t] = Idle
                         /\ pending[t][p] = "none" /\ ready[t][p] = "none" /\ ~quiet[t]
                         /\ received[t] = {} /\ edited[t] = {} /\ queue[t] = <<>>
  BY DEF Init
<1>3. Idle.path = NoPath /\ Idle.phase = "idle" /\ NoPath \notin Paths /\ Missing # Part
  BY ConstantsAssumption DEF Idle, Missing, Part
<1>4. \A c : ~Has(kernel[m], p, c)
  BY <1>2 DEF Has, Holds
<1>5. Range(<<>>) = {}
  BY DEF Range
<1>6. FileInv(m, p)
  BY <1>1, <1>2, <1>3 DEF FileInv, LacksDir, ReceivingAt
<1>7. WatchInv(m, p)
  BY <1>2, <1>4 DEF WatchInv, Real
<1>8. PathInv(m, p)
  BY <1>1, <1>2, <1>3, <1>4, <1>5 DEF PathInv, OneWay, Out, NewsIsKnown, News, ReportedOnce,
     ReceivedIsPeers, SentIsThere, StillReported, Changed
<1>9. QED
  BY <1>6, <1>7, <1>8

(* A lost or restored connection touches nothing the watchers keep.         *)
LEMMA NetworkPaths ==
    ASSUME Inv, Loses \/ Reconnects \/ UNCHANGED vars
    PROVE  PathsInv'
<1>1. UNCHANGED <<dir, made, kernel, watched, pending, quiet, ready, received, queue, xfer, own, edited,
                  disturbed>>
  BY DEF Loses, Reconnects, vars, watchVars, ghostVars
<1>2. PathsInv
  BY DEF Inv
<1>3. QED
  BY <1>1, <1>2 DEF PathsInv, FileInv, WatchInv, PathInv, OneWay, Out, NewsIsKnown, News,
     ReportedOnce, ReceivedIsPeers, SentIsThere, StillReported, Reported, Unflushed, Real, Steady,
     ReceivingAt, LacksDir

(* Each step keeps what is known of every path of either mirror.            *)
LEMMA InvStep ==
    ASSUME Inv, [Next]_vars
    PROVE  Inv'
<1>1. TypeInv
  BY DEF Inv
<1>2. ASSUME NEW m \in Mirrors
      PROVE  /\ HandleEvent(m) \/ QuietOver(m) \/ FlushIfQuiet(m) => PathsInv'
             /\ SendFileOffer(m) \/ OpensFile(m) => PathsInv'
  BY ReadPaths, QuietPaths, FlushPaths, OfferPaths, OpenPaths
<1>3. ASSUME NEW m \in Mirrors, NEW p \in Paths
      PROVE  /\ Callback(m, p) \/ Edit(m, p) \/ Delete(m, p) => PathsInv'
             /\ MakeDir(m, p) => PathsInv'
  <2>1. Callback(m, p) \/ Edit(m, p) \/ Delete(m, p) => PathsInv'
    BY CallbackPaths, EditPaths, DeletePaths
  <2>2. MakeDir(m, p) => PathsInv'
    BY DirPaths DEF MakeDir
  <2>3. QED
    BY <2>1, <2>2
<1>4. ASSUME NEW m \in Mirrors
      PROVE  PreparesDestination(m) => PathsInv'
  <2> SUFFICES ASSUME PreparesDestination(m)
               PROVE  PathsInv'
    OBVIOUS
  <2>1. Peer(m) \in Mirrors /\ xfer[m].path \in Paths
    BY PeerOf DEF PreparesDestination, Inv, TypeInv, XferInv
  <2>2. /\ DirMade(Peer(m), xfer[m].path)
        /\ UNCHANGED <<dir, watched, created, pending, quiet, ready, received, queue, xfer, connected,
                       boundVars, ghostVars>>
    BY DEF PreparesDestination
  <2>3. QED
    BY <2>1, <2>2, DirPaths
<1>5. ASSUME NEW m \in Mirrors
      PROVE  OnFileOffer(m) => PathsInv'
  <2> SUFFICES ASSUME OnFileOffer(m)
               PROVE  PathsInv'
    OBVIOUS
  <2>1. CASE xfer' = [xfer EXCEPT ![m] = Idle]
    <3>1. ~xfer[m].entry /\ xfer[m].phase = "offered"
      BY DEF OnFileOffer, Inv, TypeInv, XferInv
    <3>2. UNCHANGED <<made, watched, pending, quiet, ready, received, queue, edited, disturbed>>
      BY DEF OnFileOffer
    <3>3. xfer'[m].phase # "accepted"
      BY <2>1 DEF Inv, TypeInv, TypeOK, Idle
    <3>4. UNCHANGED <<dir, kernel, own>>
      BY <3>3 DEF OnFileOffer, Inv, TypeInv, TypeOK
    <3>5. QED
      BY <2>1, <3>1, <3>2, <3>4, IdlePaths
  <2>2. CASE xfer' # [xfer EXCEPT ![m] = Idle]
    BY <2>2, AcceptPaths
  <2>3. QED
    BY <2>1, <2>2
<1>6. ASSUME NEW m \in Mirrors
      PROVE  LastChunk(m) => PathsInv'
  <2> SUFFICES ASSUME LastChunk(m)
               PROVE  PathsInv'
    OBVIOUS
  <2>1. CASE xfer[m].entry
    BY <2>1, ReceivedPaths
  <2>2. CASE ~xfer[m].entry
    <3>1. /\ xfer' = [xfer EXCEPT ![m] = Idle]
          /\ UNCHANGED <<dir, made, kernel, watched, pending, quiet, ready, received, queue, own, edited,
                         disturbed>>
      BY <2>2 DEF LastChunk, ghostVars
    <3>2. QED
      BY <2>2, <3>1, IdlePaths
  <2>3. QED
    BY <2>1, <2>2
<1>7. PathsInv'
  BY <1>2, <1>3, <1>4, <1>5, <1>6, NetworkPaths, StepCases
<1>8. QED
  BY <1>1, <1>7, TypeSteps DEF Inv

(* What is known of every path, at both ends, holds in every reachable      *)
(* state: its record, its change and its notifications go together.         *)
THEOREM Invariant == Spec => []Inv
<1>1. Init => Inv
  BY InitTypes, InitPaths DEF Inv
<1>2. Inv /\ [Next]_vars => Inv'
  BY InvStep
<1>3. QED
  BY <1>1, <1>2, PTL DEF Spec

(* The record of a received file is still there only while the watcher has  *)
(* a notification of that file to come (TakeReceivedFile), unless its       *)
(* reception may outlast the quiet period.                                  *)
THEOREM SteadyRecordIsTaken ==
    Spec => [](\A m \in Mirrors : \A p \in received[m] \ (disturbed \cup Slow) : Reported(m, p))
<1>1. Inv => \A m \in Mirrors : \A p \in received[m] \ (disturbed \cup Slow) : Reported(m, p)
  <2> SUFFICES ASSUME Inv, NEW m \in Mirrors, NEW p \in received[m] \ (disturbed \cup Slow)
               PROVE  Reported(m, p)
    OBVIOUS
  <2>1. p \in Paths /\ Steady(p)
    BY DEF Inv, TypeInv, TypeOK, Steady
  <2>2. PathInv(m, p)
    BY <2>1 DEF Inv, PathsInv
  <2>3. QED
    BY <2>2 DEF PathInv, StillReported
<1>2. QED
  BY <1>1, Invariant, PTL

(* RecordIsTaken, when every reception is over by the quiet period's end:   *)
(* no record is left behind to hide a later change of the file.             *)
THEOREM RecordTaken ==
    ASSUME Slow = {}
    PROVE  Spec => []RecordIsTaken
<1>1. (\A m \in Mirrors : \A p \in received[m] \ (disturbed \cup Slow) : Reported(m, p)) => RecordIsTaken
  BY DEF RecordIsTaken
<1>2. QED
  BY <1>1, SteadyRecordIsTaken, PTL

(* A local change the client has not been told of is one the watcher still  *)
(* has to report (AddWatchTree, Notify), with the same exception.           *)
THEOREM SteadyChangeIsReported ==
    Spec => [](\A m \in Mirrors : \A p \in edited[m] \ (disturbed \cup Slow) :
                 dir[m][p] # Missing => Reported(m, p))
<1>1. Inv => \A m \in Mirrors : \A p \in edited[m] \ (disturbed \cup Slow) :
                 dir[m][p] # Missing => Reported(m, p)
  <2> SUFFICES ASSUME Inv, NEW m \in Mirrors, NEW p \in edited[m] \ (disturbed \cup Slow),
                      dir[m][p] # Missing
               PROVE  Reported(m, p)
    OBVIOUS
  <2>1. p \in Paths /\ Steady(p)
    BY DEF Inv, TypeInv, TypeOK, Steady
  <2>2. PathInv(m, p)
    BY <2>1 DEF Inv, PathsInv
  <2>3. QED
    BY <2>2 DEF PathInv, StillReported
<1>2. QED
  BY <1>1, Invariant, PTL

(* ChangeIsReported: no local change slips through the watcher, neither     *)
(* while a new directory is not watched yet nor as changes are coalesced.   *)
THEOREM ChangeReported ==
    ASSUME Slow = {}
    PROVE  Spec => []ChangeIsReported
<1>1. (\A m \in Mirrors : \A p \in edited[m] \ (disturbed \cup Slow) :
          dir[m][p] # Missing => Reported(m, p)) => ChangeIsReported
  BY DEF ChangeIsReported
<1>2. QED
  BY <1>1, SteadyChangeIsReported, PTL

(* A queue gets longer only by a file that the client does not take for     *)
(* one it has received.                                                     *)
LEMMA QueueGrows ==
    ASSUME TypeInv, [Next]_vars, NEW m \in Mirrors, Len(queue'[m]) > Len(queue[m])
    PROVE  \E p \in Paths : /\ ready[m][p] \in Changed /\ p \notin received[m]
                            /\ queue'[m] = Append(queue[m], p)
<1>1. queue \in [Mirrors -> Seq(Paths)] /\ queue[m] \in Seq(Paths) /\ Len(queue[m]) \in Nat
  BY DEF TypeInv, TypeOK
<1>2. UNCHANGED queue => FALSE
  BY <1>1
<1>3. ASSUME NEW t \in Mirrors, NEW p \in Paths, Callback(t, p)
      PROVE  \E r \in Paths : /\ ready[m][r] \in Changed /\ r \notin received[m]
                              /\ queue'[m] = Append(queue[m], r)
  <2>1. ready[t][p] \in Changes /\ ready[t][p] # "none"
    BY <1>3 DEF Callback, TypeInv, TypeOK
  <2>2. /\ ready[t][p] # "Removed" /\ p \notin received[t]
        /\ QueueFileToAll(t, p)
    BY <1>2, <1>3 DEF Callback, TakenFromPeer
  <2>3. t = m /\ queue'[m] = Append(queue[m], p)
    BY <1>1, <2>2 DEF QueueFileToAll
  <2>4. QED
    BY <2>1, <2>2, <2>3 DEF Changes, Changed
<1>4. ASSUME NEW t \in Mirrors, SendFileOffer(t)
      PROVE  FALSE
  <2>1. queue[t] \in Seq(Paths) /\ queue[t] # <<>> /\ queue' = [queue EXCEPT ![t] = Tail(@)]
    BY <1>1, <1>4 DEF SendFileOffer
  <2>2. Len(Tail(queue[t])) = Len(queue[t]) - 1 /\ Len(queue[t]) \in Nat
    BY <2>1
  <2>3. queue'[m] = queue[m] \/ (t = m /\ queue'[m] = Tail(queue[m]))
    BY <1>1, <2>1
  <2>4. CASE queue'[m] = queue[m]
    BY <1>1, <2>4
  <2>5. CASE t = m /\ queue'[m] = Tail(queue[m])
    <3>1. Len(queue'[m]) = Len(queue[m]) - 1
      BY <2>2, <2>5
    <3>2. QED
      BY <1>1, <3>1
  <2>6. QED
    BY <2>3, <2>4, <2>5
<1>5. ASSUME NEW t \in Mirrors
      PROVE  /\ HandleEvent(t) \/ QuietOver(t) \/ FlushIfQuiet(t) => UNCHANGED queue
             /\ PreparesDestination(t) \/ OnFileOffer(t) \/ OpensFile(t) \/ LastChunk(t) => UNCHANGED queue
             /\ \A p \in Paths : MakeDir(t, p) \/ Edit(t, p) \/ Delete(t, p) => UNCHANGED queue
  BY DEF HandleEvent, QuietOver, FlushIfQuiet, PreparesDestination, OnFileOffer, OpensFile, LastChunk,
     MakeDir, Edit, Delete
<1>6. Loses \/ Reconnects \/ UNCHANGED vars => UNCHANGED queue
  BY DEF Loses, Reconnects, vars
<1>7. QED
  BY <1>2, <1>3, <1>4, <1>5, <1>6, StepCases

(* A mirror queues only what a user of it has written last, unless both     *)
(* ends change a file at the same time or a reception may outlast the       *)
(* quiet period (the callback set up in main, TakeReceivedFile).            *)
THEOREM SteadyNotSentBack ==
    Spec => [][\A m \in Mirrors : Len(queue'[m]) > Len(queue[m]) =>
                   Last(queue'[m]) \in own[m] \cup disturbed \cup Slow]_vars
<1>1. Inv /\ [Next]_vars =>
        [\A m \in Mirrors : Len(queue'[m]) > Len(queue[m]) =>
            Last(queue'[m]) \in own[m] \cup disturbed \cup Slow]_vars
  <2> SUFFICES ASSUME Inv, [Next]_vars, NEW m \in Mirrors, Len(queue'[m]) > Len(queue[m])
               PROVE  Last(queue'[m]) \in own[m] \cup disturbed \cup Slow
    OBVIOUS
  <2>1. TypeInv
    BY DEF Inv
  <2>2. PICK p \in Paths : /\ ready[m][p] \in Changed /\ p \notin received[m]
                           /\ queue'[m] = Append(queue[m], p)
    BY <2>1, QueueGrows
  <2>3. queue[m] \in Seq(Paths)
    BY <2>1 DEF TypeInv, TypeOK
  <2>4. Last(queue'[m]) = p
    BY <2>2, <2>3 DEF Last
  <2>5. Steady(p) => PathInv(m, p)
    BY DEF Inv, PathsInv
  <2>6. Steady(p) => p \in own[m]
    BY <2>2, <2>5 DEF PathInv, NewsIsKnown, StillReported
  <2>7. QED
    BY <2>4, <2>6 DEF Steady
<1>2. QED
  BY <1>1, Invariant, PTL DEF Spec

(* NotSentBack: files received from a peer are not sent back to it.         *)
THEOREM ReceivedNotSentBack ==
    ASSUME Slow = {}
    PROVE  Spec => NotSentBack
<1>1. [\A m \in Mirrors : Len(queue'[m]) > Len(queue[m]) =>
          Last(queue'[m]) \in own[m] \cup disturbed \cup Slow]_vars =>
      [\A m \in Mirrors : Len(queue'[m]) > Len(queue[m]) =>
          Last(queue'[m]) \in own[m] \cup disturbed]_vars
  OBVIOUS
<1>2. QED
  BY <1>1, SteadyNotSentBack, PTL DEF NotSentBack
=============================================================================
