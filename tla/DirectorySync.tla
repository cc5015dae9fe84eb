--------------------------- MODULE DirectorySync ---------------------------
(***************************************************************************)
(* Two clients that keep a directory each in sync (README.md:63-76): the   *)
(* watcher that debounces the changes of a directory                       *)
(* (src/src/FileWatcher.cpp), the callback that tells a local change from  *)
(* a file just received and queues it for the peer (src/src/CloudNode.cpp),*)
(* and the transfers between the two, down to the locks of the files.      *)
(*                                                                         *)
(* The contents of a file are a version, fresh with each local change; all *)
(* versions are of one size, and a direction carries one transfer at a     *)
(* time (files that change their size, and several transfers in a row, are *)
(* the subject of FileTransfer).  The directory tree and inotify are       *)
(* modelled as the watcher uses them.                                      *)
(***************************************************************************)
EXTENDS Integers, Sequences, SequencesExt

CONSTANTS
    Mirrors,    \* the two clients
    Paths,      \* paths below --directory, the same ones at both
    NewDirs,    \* those of them in a subdirectory of their own that does not exist yet
    Slow,       \* those of them whose reception may outlast the quiet period
    NoPath,     \* no transfer is going on
    MaxEdits,   \* bound: local changes
    MaxDeletes, \* bound: local deletions
    MaxLosses   \* bound: losses of the connection

ASSUME ConstantsAssumption ==
    /\ \A m \in Mirrors : \E n \in Mirrors : Mirrors \ {m} = {n}
    /\ NewDirs \subseteq Paths /\ Slow \subseteq Paths
    /\ NoPath \notin Paths
    /\ MaxEdits \in Nat /\ MaxDeletes \in Nat /\ MaxLosses \in Nat

VARIABLES
    dir,        \* the contents of each path: Missing, Part or a version
    made,       \* the subdirectories of NewDirs that exist
    kernel,     \* inotify events not read yet
    watched,    \* the subdirectories in m_watches
    created,    \* m_created
    pending,    \* m_pending, the change of each path
    quiet,      \* m_deadline has passed
    ready,      \* the batch FlushIfQuiet is calling back
    received,   \* m_receivedPaths
    queue,      \* the files queued for the peer
    xfer,       \* the transfer each mirror is the sender of
    connected,  \* there is a data channel either way
    edits, deletes, losses,
    own,        \* paths last written at this end by a user of it
    edited,     \* local changes the watcher has not handed to the client yet
    unsent,     \* local changes that were reported while there was no channel
    deleted,    \* paths deleted at a mirror and not changed since
    disturbed   \* paths changed while a change of them was on its way to or from the peer

watchVars == <<kernel, watched, created, pending, quiet, ready>>
boundVars == <<edits, deletes, losses>>
ghostVars == <<own, edited, unsent, deleted, disturbed>>
vars == <<dir, made, watchVars, received, queue, xfer, connected, boundVars, ghostVars>>

Missing == 0
Part == -1

Changes == {"none", "Added", "Modified", "Removed"}
Phases == {"idle", "offered", "accepted", "sending"}

Peer(m) == CHOOSE n \in Mirrors : n # m

----------------------------------------------------------------------------
(* Mutated forms of definitions below, used to test the properties.        *)

(* a creation is a change like the closing of a written file *)
ChangeUnnamed(m, e) == e.kind

(* the watch of a new directory reports no files already there *)
ScanNothing(m, p) == FALSE

(* the receiver keeps no record of the file *)
RecordedNever(m, p) == received[m]

(* the record is kept when it is used *)
TakeReceivedFileKept(m, p) == received[m]


----------------------------------------------------------------------------
(* The file system and inotify *)

Watched(m, p) == p \notin NewDirs \/ p \in watched[m]

(* Unread events once these have happened to p, if its directory is watched. *)
WithEvents(m, p, kinds) ==
    IF Watched(m, p)
    THEN kernel[m] \o [i \in DOMAIN kinds |-> [kind |-> kinds[i], path |-> p]]
    ELSE kernel[m]

(* p cannot be written before its directory is there.  Making it is an      *)
(* event of the directory above.                                            *)
LacksDir(m, p) == p \in NewDirs \ made[m]

DirMade(m, p) ==
    /\ LacksDir(m, p)
    /\ made' = [made EXCEPT ![m] = @ \cup {p}]
    /\ kernel' = [kernel EXCEPT ![m] = Append(@, [kind |-> "mkdir", path |-> p])]

IfNew(m, p) == IF dir[m][p] = Missing THEN <<"create">> ELSE <<>>

(* A transfer of p to m that has opened, and locked, the file there. *)
ReceivingAt(m, p) ==
    /\ xfer[Peer(m)].phase \in {"accepted", "sending"}
    /\ xfer[Peer(m)].path = p /\ xfer[Peer(m)].entry

(* A change of p at m that neither races with the peer's changes of p nor   *)
(* with what m makes of a file it has received.                             *)
Settled(m, p) ==
    LET n == Peer(m)
    IN  /\ p \notin received[m] \cup received[n]
        /\ p \notin edited[n] /\ p \notin Range(queue[n])
        /\ xfer[n].path # p

(* Bound: nobody changes a file while it is being sent or received. *)
Free(m, p) == xfer[m].path # p /\ ~ReceivingAt(m, p)

Disturbs(m, p) ==
    disturbed' = IF Settled(m, p) THEN disturbed ELSE disturbed \cup {p}

(* A user makes the directory of p. *)
MakeDir(m, p) ==
    /\ DirMade(m, p)
    /\ UNCHANGED <<dir, watched, created, pending, quiet, ready, received, queue, xfer, connected,
                   boundVars, ghostVars>>

(* A local change, written and closed at once. *)
Edit(m, p) ==
    /\ edits < MaxEdits /\ edits' = edits + 1
    /\ Free(m, p) /\ ~LacksDir(m, p)
    /\ dir' = [dir EXCEPT ![m][p] = edits + 1]
    /\ kernel' = [kernel EXCEPT ![m] = WithEvents(m, p, IfNew(m, p) \o <<"close">>)]
    /\ own' = [own EXCEPT ![m] = @ \cup {p}]
    /\ edited' = [edited EXCEPT ![m] = @ \cup {p}]
    /\ unsent' = unsent \ {p} /\ deleted' = deleted \ {p}
    /\ Disturbs(m, p)
    /\ UNCHANGED <<made, watched, created, pending, quiet, ready, received, queue, xfer, connected,
                   deletes, losses>>

Delete(m, p) ==
    /\ deletes < MaxDeletes /\ deletes' = deletes + 1
    /\ Free(m, p) /\ dir[m][p] # Missing
    /\ dir' = [dir EXCEPT ![m][p] = Missing]
    /\ kernel' = [kernel EXCEPT ![m] = WithEvents(m, p, <<"delete">>)]
    /\ own' = [own EXCEPT ![m] = @ \cup {p}]
    /\ deleted' = deleted \cup {p}
    /\ Disturbs(m, p)
    /\ UNCHANGED <<made, watched, created, pending, quiet, ready, received, queue, xfer, connected,
                   edits, losses, edited, unsent>>

----------------------------------------------------------------------------
(* The watcher's thread: HandleEvents, Notify, FlushIfQuiet *)

(* Notify: what is pending for a path after one more change of it. *)
Coalesced(previous, change) ==
    CASE previous = "Added" /\ change = "Modified" -> "Added"
      [] previous = "Removed" /\ change = "Added" -> "Modified"
      [] OTHER -> change

Notify(m, p, change) ==
    /\ pending' = [pending EXCEPT ![m][p] = Coalesced(@, change)]
    /\ quiet' = [quiet EXCEPT ![m] = FALSE]

(* AddWatchTree on a new directory: is there a file to be reported? *)
Scan(m, p) == dir[m][p] # Missing

(* The change a close or a deletion is reported as. *)
Change(m, e) ==
    IF e.kind = "delete" THEN "Removed" ELSE IF e.path \in created[m] THEN "Added" ELSE "Modified"

HandleEvent(m) ==
    /\ \A p \in Paths : ready[m][p] = "none"
    /\ kernel[m] # <<>>
    /\ kernel' = [kernel EXCEPT ![m] = Tail(@)]
    /\ LET e == Head(kernel[m])
       IN  \/ /\ e.kind = "mkdir"
              /\ watched' = [watched EXCEPT ![m] = @ \cup {e.path}]
              /\ IF Scan(m, e.path) THEN Notify(m, e.path, "Added") ELSE UNCHANGED <<pending, quiet>>
              /\ UNCHANGED created
           \/ /\ e.kind = "create"
              /\ created' = [created EXCEPT ![m] = @ \cup {e.path}]
              /\ UNCHANGED <<watched, pending, quiet>>
           \/ /\ e.kind \in {"close", "delete"}
              /\ created' = [created EXCEPT ![m] = @ \ {e.path}]
              /\ Notify(m, e.path, Change(m, e))
              /\ UNCHANGED watched
    /\ UNCHANGED <<dir, made, ready, received, queue, xfer, connected, boundVars, ghostVars>>

HasPending(m) == \E p \in Paths : pending[m][p] # "none"

(* The quiet period passes with nothing to read.  A reception that began    *)
(* before it is over by its end, unless it is a slow one.                   *)
QuietOver(m) ==
    /\ HasPending(m) /\ ~quiet[m] /\ kernel[m] = <<>>
    /\ \A p \in Paths : ready[m][p] = "none"
    /\ \A p \in Paths \ Slow : pending[m][p] # "none" => ~ReceivingAt(m, p)
    /\ quiet' = [quiet EXCEPT ![m] = TRUE]
    /\ UNCHANGED <<dir, made, kernel, watched, created, pending, ready, received, queue, xfer,
                   connected, boundVars, ghostVars>>

(* The batch is taken, whatever has happened since the deadline. *)
FlushIfQuiet(m) ==
    /\ quiet[m] /\ HasPending(m)
    /\ ready' = [ready EXCEPT ![m] = pending[m]]
    /\ pending' = [pending EXCEPT ![m] = [p \in Paths |-> "none"]]
    /\ quiet' = [quiet EXCEPT ![m] = FALSE]
    /\ UNCHANGED <<dir, made, kernel, watched, created, received, queue, xfer, connected, boundVars,
                   ghostVars>>

----------------------------------------------------------------------------
(* The callback set up by main, and what it calls *)

TakenFromPeer(m, p) == p \in received[m]

TakeReceivedFile(m, p) == received[m] \ {p}

(* The watcher has yet to take up a change of p, or to flush it. *)
Unflushed(m, p) ==
    \/ \E i \in DOMAIN kernel[m] :
          kernel[m][i].path = p /\ kernel[m][i].kind \in {"mkdir", "close"}
    \/ pending[m][p] \in {"Added", "Modified"}

(* The local changes still to be handed over once p has been. *)
Handed(m, p) == IF Unflushed(m, p) THEN edited ELSE [edited EXCEPT ![m] = @ \ {p}]

(* QueueFileToAll: whoever has a channel at this moment. *)
QueueFileToAll(m, p) ==
    /\ queue' = [queue EXCEPT ![m] = IF connected THEN Append(@, p) ELSE @]
    /\ edited' = Handed(m, p)
    /\ unsent' = IF connected \/ p \notin own[m] THEN unsent ELSE unsent \cup {p}

Callback(m, p) ==
    /\ ready[m][p] # "none"
    /\ ready' = [ready EXCEPT ![m][p] = "none"]
    /\ \/ /\ ready[m][p] = "Removed"
          /\ edited' = Handed(m, p)
          /\ UNCHANGED <<received, queue, unsent>>
       \/ /\ ready[m][p] # "Removed" /\ TakenFromPeer(m, p)
          /\ received' = [received EXCEPT ![m] = TakeReceivedFile(m, p)]
          /\ UNCHANGED <<queue, edited, unsent>>
       \/ /\ ready[m][p] # "Removed" /\ ~TakenFromPeer(m, p)
          /\ QueueFileToAll(m, p)
          /\ UNCHANGED received
    /\ UNCHANGED <<dir, made, kernel, watched, created, pending, quiet, xfer, connected, boundVars,
                   own, deleted, disturbed>>

----------------------------------------------------------------------------
(* A transfer from m to its peer *)

Idle == [phase |-> "idle", path |-> NoPath, version |-> Missing, entry |-> FALSE]

(* SendFileOffer: the file's details are read without its lock; a file that *)
(* is gone is passed over.                                                  *)
SendFileOffer(m) ==
    /\ connected /\ queue[m] # <<>> /\ xfer[m].phase = "idle"
    /\ queue' = [queue EXCEPT ![m] = Tail(@)]
    /\ LET p == Head(queue[m])
       IN  xfer' = [xfer EXCEPT ![m] =
                       IF dir[m][p] = Missing THEN Idle
                       ELSE [phase |-> "offered", path |-> p, version |-> dir[m][p], entry |-> FALSE]]
    /\ UNCHANGED <<dir, made, watchVars, received, connected, boundVars, ghostVars>>

(* m's thread is reading p under its shared lock. *)
ReadingAt(m, p) == xfer[m].phase = "sending" /\ xfer[m].path = p

(* OnFileOffer at the peer: first it makes the directories that are missing. *)
PreparesDestination(m) ==
    /\ xfer[m].phase = "offered"
    /\ DirMade(Peer(m), xfer[m].path)
    /\ UNCHANGED <<dir, watched, created, pending, quiet, ready, received, queue, xfer, connected,
                   boundVars, ghostVars>>

(* The rest of OnFileOffer.  A file it already has is rejected.  Otherwise  *)
(* the offer is accepted; the destination is created, locked and truncated, *)
(* but when the lock is refused the file is only closed again.              *)
OnFileOffer(m) ==
    LET n == Peer(m)
        p == xfer[m].path
    IN  /\ xfer[m].phase = "offered" /\ ~LacksDir(n, p)
        /\ \/ /\ dir[n][p] = xfer[m].version /\ dir[n][p] # Part
              /\ xfer' = [xfer EXCEPT ![m] = Idle]
              /\ UNCHANGED <<dir, kernel, own>>
           \/ /\ dir[n][p] # xfer[m].version \/ dir[n][p] = Part
              /\ ~ReadingAt(n, p)
              /\ xfer' = [xfer EXCEPT ![m].phase = "accepted", ![m].entry = TRUE]
              /\ dir' = [dir EXCEPT ![n][p] = Part]
              /\ own' = [own EXCEPT ![n] = @ \ {p}]
              /\ kernel' = [kernel EXCEPT ![n] = WithEvents(n, p, IfNew(n, p))]
           \/ /\ dir[n][p] # xfer[m].version \/ dir[n][p] = Part
              /\ ReadingAt(n, p)
              /\ xfer' = [xfer EXCEPT ![m].phase = "accepted"]
              /\ kernel' = [kernel EXCEPT ![n] = WithEvents(n, p, <<"close">>)]
              /\ UNCHANGED <<dir, own>>
        /\ UNCHANGED <<made, watched, created, pending, quiet, ready, received, queue, connected,
                       boundVars, edited, unsent, deleted, disturbed>>

(* m's thread waits for the shared lock of the file it is to send: its own  *)
(* client has locked it, to receive it.                                     *)
MustWait(m) == ReceivingAt(m, xfer[m].path)

OpensFile(m) ==
    /\ xfer[m].phase = "accepted" /\ ~MustWait(m)
    /\ xfer' = [xfer EXCEPT ![m].phase = "sending", ![m].version = dir[m][xfer[m].path]]
    /\ UNCHANGED <<dir, made, watchVars, received, queue, connected, boundVars, ghostVars>>

(* The record of received files with one more in it. *)
Recorded(m, p) == received[m] \cup {p}

(* OnIncomingChunk at the peer, the last chunk: the file is recorded before *)
(* it is closed, by its stream and by its lock.  Without an entry the data  *)
(* is dropped.                                                              *)
LastChunk(m) ==
    LET n == Peer(m)
        p == xfer[m].path
    IN  /\ xfer[m].phase = "sending"
        /\ xfer' = [xfer EXCEPT ![m] = Idle]
        /\ IF xfer[m].entry
           THEN /\ dir' = [dir EXCEPT ![n][p] = xfer[m].version]
                /\ received' = [received EXCEPT ![n] = Recorded(n, p)]
                /\ kernel' = [kernel EXCEPT ![n] = WithEvents(n, p, <<"close", "close">>)]
           ELSE UNCHANGED <<dir, received, kernel>>
        /\ UNCHANGED <<made, watched, created, pending, quiet, ready, queue, connected, boundVars,
                       ghostVars>>

(* The channels are lost and made again.  Bound: between two transfers (one *)
(* that is cut off is the subject of FileTransfer).                         *)
Loses ==
    /\ connected /\ losses < MaxLosses /\ losses' = losses + 1
    /\ \A m \in Mirrors : xfer[m] = Idle
    /\ connected' = FALSE
    /\ UNCHANGED <<dir, made, watchVars, received, queue, xfer, edits, deletes, ghostVars>>

Reconnects ==
    /\ ~connected /\ connected' = TRUE
    /\ UNCHANGED <<dir, made, watchVars, received, queue, xfer, boundVars, ghostVars>>

----------------------------------------------------------------------------
Init ==
    /\ dir = [m \in Mirrors |-> [p \in Paths |-> Missing]]
    /\ made = [m \in Mirrors |-> {}]
    /\ kernel = [m \in Mirrors |-> <<>>]
    /\ watched = [m \in Mirrors |-> {}] /\ created = [m \in Mirrors |-> {}]
    /\ pending = [m \in Mirrors |-> [p \in Paths |-> "none"]]
    /\ quiet = [m \in Mirrors |-> FALSE]
    /\ ready = [m \in Mirrors |-> [p \in Paths |-> "none"]]
    /\ received = [m \in Mirrors |-> {}]
    /\ queue = [m \in Mirrors |-> <<>>]
    /\ xfer = [m \in Mirrors |-> Idle]
    /\ connected = TRUE
    /\ edits = 0 /\ deletes = 0 /\ losses = 0
    /\ own = [m \in Mirrors |-> {}] /\ edited = [m \in Mirrors |-> {}]
    /\ unsent = {} /\ deleted = {} /\ disturbed = {}

WatcherStep(m) ==
    HandleEvent(m) \/ QuietOver(m) \/ FlushIfQuiet(m) \/ \E p \in Paths : Callback(m, p)

TransferStep(m) ==
    SendFileOffer(m) \/ PreparesDestination(m) \/ OnFileOffer(m) \/ OpensFile(m) \/ LastChunk(m)

Next ==
    \/ \E m \in Mirrors : WatcherStep(m) \/ TransferStep(m)
    \/ \E m \in Mirrors, p \in Paths : MakeDir(m, p) \/ Edit(m, p) \/ Delete(m, p)
    \/ Loses \/ Reconnects

Spec == Init /\ [][Next]_vars

(* The threads and the network go on, and a lost connection comes back.     *)
(* Nobody has to change a file.                                             *)
FairSpec ==
    /\ Spec
    /\ \A m \in Mirrors : WF_vars(WatcherStep(m)) /\ WF_vars(TransferStep(m))
    /\ WF_vars(Reconnects)

----------------------------------------------------------------------------
(* Properties *)

Events == [kind : {"mkdir", "create", "close", "delete"}, path : Paths]
Versions == {Missing, Part} \cup 1 .. MaxEdits

(* The variables have the types of the state they stand for. *)
TypeOK ==
    /\ dir \in [Mirrors -> [Paths -> Versions]]
    /\ made \in [Mirrors -> SUBSET NewDirs] /\ watched \in [Mirrors -> SUBSET NewDirs]
    /\ kernel \in [Mirrors -> Seq(Events)]
    /\ created \in [Mirrors -> SUBSET Paths] /\ received \in [Mirrors -> SUBSET Paths]
    /\ pending \in [Mirrors -> [Paths -> Changes]] /\ ready \in [Mirrors -> [Paths -> Changes]]
    /\ quiet \in [Mirrors -> BOOLEAN] /\ connected \in BOOLEAN
    /\ queue \in [Mirrors -> Seq(Paths)]
    /\ xfer \in [Mirrors -> [phase : Phases, path : Paths \cup {NoPath}, version : Versions,
                             entry : BOOLEAN]]
    /\ edits \in 0 .. MaxEdits /\ deletes \in 0 .. MaxDeletes /\ losses \in 0 .. MaxLosses
    /\ own \in [Mirrors -> SUBSET Paths] /\ edited \in [Mirrors -> SUBSET Paths]
    /\ unsent \subseteq Paths /\ deleted \subseteq Paths /\ disturbed \subseteq Paths

(* Files received from a peer are not sent back (README.md:75-76): a mirror *)
(* queues only what one of its own users has written last, unless both ends *)
(* change a file at the same time.                                          *)
NotSentBack ==
    [][\A m \in Mirrors : Len(queue'[m]) > Len(queue[m]) =>
           Last(queue'[m]) \in own[m] \cup disturbed]_vars

(* The watcher of m has yet to report p. *)
Reported(m, p) == Unflushed(m, p) \/ ready[m][p] \in {"Added", "Modified"}

(* The record of a received file is there for the notification of that file *)
(* and no later one (TakeReceivedFile): one is still to come.               *)
RecordIsTaken ==
    \A m \in Mirrors : \A p \in received[m] \ disturbed : Reported(m, p)

(* No local change slips through the watcher: neither while a new directory *)
(* is not watched yet, nor as changes are coalesced (AddWatchTree, Notify). *)
ChangeIsReported ==
    \A m \in Mirrors : \A p \in edited[m] \ disturbed :
        dir[m][p] # Missing => Reported(m, p)

(* Both clients wait for the lock of a file that each of them receives, one *)
(* that both of them have changed at the same time (LockedIfstream).        *)
Crossed ==
    \A m \in Mirrors :
        /\ xfer[m].phase = "accepted" /\ xfer[m].path \in disturbed
        /\ ReceivingAt(m, xfer[m].path)

=============================================================================
