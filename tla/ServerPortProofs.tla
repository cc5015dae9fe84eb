-------------------------- MODULE ServerPortProofs --------------------------
(* What the server's port guarantees for any number of clients, names and  *)
(* signals: the table Stop works from is always right.                     *)
EXTENDS ServerPort, TLAPS

(* The steps of the process one by one, for the proofs by cases below.     *)
LEMMA StepCases ==
    ASSUME [Next]_vars
    PROVE  \/ Interrupt \/ StartsPort \/ StopRequested \/ StopsPort \/ JoinsLoop
           \/ ListenFails \/ ReportsSocket \/ ReportsLoop \/ ReportsRunning
           \/ ClosesAll \/ LoopEnds
           \/ \E s \in Sockets : Accept(s) \/ Opens(s) \/ Closes(s) \/ GoesAway(s)
           \/ UNCHANGED vars
BY DEF Next, MainStep, LoopStep

(* Neither main nor a report of the listener touches the connections.      *)
LEMMA MainKeepsSockets ==
    ASSUME \/ Interrupt \/ StartsPort \/ StopRequested \/ StopsPort \/ JoinsLoop
           \/ ListenFails \/ ReportsSocket \/ ReportsLoop \/ ReportsRunning \/ LoopEnds
           \/ UNCHANGED vars
    PROVE  UNCHANGED socketVars
BY DEF Interrupt, StartsPort, StopRequested, StopsPort, JoinsLoop, ListenFails, ReportsSocket,
       ReportsLoop, ReportsRunning, LoopEnds, vars, mainVars, portVars, socketVars

----------------------------------------------------------------------------
(* Every step of main, the loop and the connections keeps the types.       *)
LEMMA TypeStep == TypeOK /\ [Next]_vars => TypeOK'
<1> SUFFICES ASSUME TypeOK, [Next]_vars
             PROVE  TypeOK'
  OBVIOUS
<1> USE ConstantsAssumption DEF TypeOK
<1>1. CASE Interrupt
  <2>1. interrupts' \in 0 .. MaxInterrupts
    BY <1>1 DEF Interrupt
  <2>2. QED
    BY <1>1, <2>1 DEF Interrupt, AfterInterrupt, portVars, socketVars
<1>2. CASE StartsPort \/ StopRequested \/ JoinsLoop
  BY <1>2 DEF StartsPort, StopRequested, JoinsLoop, portVars, socketVars
<1>3. CASE StopsPort
  BY <1>3 DEF StopsPort, socketVars
<1>4. CASE ListenFails \/ ReportsSocket \/ ReportsLoop \/ ReportsRunning
  <2>1. CASE ListenFails
    BY <2>1 DEF ListenFails, mainVars, socketVars
  <2>2. CASE ReportsSocket
    BY <2>2 DEF ReportsSocket, mainVars, socketVars
  <2>3. CASE ReportsLoop
    BY <2>3 DEF ReportsLoop, mainVars, socketVars
  <2>4. CASE ReportsRunning
    BY <2>4 DEF ReportsRunning, mainVars, socketVars
  <2>5. QED
    BY <1>4, <2>1, <2>2, <2>3, <2>4
<1>5. CASE ClosesAll
  BY <1>5 DEF ClosesAll, mainVars
<1>6. CASE LoopEnds
  BY <1>6 DEF LoopEnds, mainVars, portVars, socketVars
<1>7. ASSUME NEW s \in Sockets, Accept(s) \/ GoesAway(s)
      PROVE  TypeOK'
  BY <1>7 DEF Accept, GoesAway, mainVars, portVars
<1>8. ASSUME NEW s \in Sockets, Opens(s)
      PROVE  TypeOK'
  BY <1>8 DEF Opens, TrackedAs, mainVars, portVars
<1>9. ASSUME NEW s \in Sockets, Closes(s)
      PROVE  TypeOK'
  BY <1>9 DEF Closes, Untracked, mainVars, portVars
<1>10. CASE UNCHANGED vars
  BY <1>10 DEF vars, mainVars, portVars, socketVars
<1>11. QED
  BY <1>1, <1>2, <1>3, <1>4, <1>5, <1>6, <1>7, <1>8, <1>9, <1>10, StepCases

(* The process starts with the types right.                                *)
LEMMA InitTypes == Init => TypeOK
<1> SUFFICES ASSUME Init
             PROVE  TypeOK
  OBVIOUS
<1>1. interrupts \in 0 .. MaxInterrupts
  BY ConstantsAssumption DEF Init
<1>2. /\ status \in [Sockets -> {"new", "accepted", "open", "ended", "closed"}]
      /\ clients \in [Names -> Sockets \cup {NoSocket}]
      /\ overlooked \subseteq Sockets
  BY DEF Init
<1>3. QED
  BY <1>1, <1>2 DEF Init, TypeOK

(* The tables of main, the port and the loop always have their types.      *)
THEOREM TypeCorrect == Spec => []TypeOK
<1>1. Init => TypeOK
  BY InitTypes
<1>2. QED
  BY <1>1, TypeStep, PTL DEF Spec

----------------------------------------------------------------------------
(* Opening, closing and ending keep the entries of the table open ones of  *)
(* their name: an entry goes with its own connection and with no other.    *)
LEMMA TrackedStep == TypeOK /\ TrackedIsOpen /\ [Next]_vars => TrackedIsOpen'
<1> SUFFICES ASSUME TypeOK, TrackedIsOpen, [Next]_vars
             PROVE  TrackedIsOpen'
  OBVIOUS
<1> USE ConstantsAssumption DEF TypeOK, TrackedIsOpen
<1>1. CASE UNCHANGED socketVars
  BY <1>1 DEF socketVars
<1>2. CASE ClosesAll
  BY <1>2 DEF ClosesAll, ToEnd
<1>3. ASSUME NEW s \in Sockets, Accept(s) \/ GoesAway(s)
      PROVE  TrackedIsOpen'
  BY <1>3 DEF Accept, GoesAway
<1>4. ASSUME NEW s \in Sockets, Opens(s)
      PROVE  TrackedIsOpen'
  BY <1>4 DEF Opens, TrackedAs
<1>5. ASSUME NEW s \in Sockets, Closes(s)
      PROVE  TrackedIsOpen'
  BY <1>5 DEF Closes, Untracked
<1>6. QED
  BY <1>1, <1>2, <1>3, <1>4, <1>5, StepCases, MainKeepsSockets

----------------------------------------------------------------------------
(* A connection leaves the table only as it closes or is ended.            *)
LEMMA FirstStep ==
    TypeOK /\ TrackedIsOpen /\ FirstIsTracked /\ [Next]_vars => FirstIsTracked'
<1> SUFFICES ASSUME TypeOK, TrackedIsOpen, FirstIsTracked, [Next]_vars
             PROVE  FirstIsTracked'
  OBVIOUS
<1> USE ConstantsAssumption DEF TypeOK, TrackedIsOpen, FirstIsTracked
<1>1. CASE UNCHANGED socketVars
  BY <1>1 DEF socketVars
<1>2. CASE ClosesAll
  BY <1>2 DEF ClosesAll, ToEnd
<1>3. ASSUME NEW s \in Sockets, Accept(s) \/ GoesAway(s)
      PROVE  FirstIsTracked'
  BY <1>3 DEF Accept, GoesAway
<1>4. ASSUME NEW s \in Sockets, Opens(s)
      PROVE  FirstIsTracked'
  BY <1>4 DEF Opens, TrackedAs
<1>5. ASSUME NEW s \in Sockets, Closes(s)
      PROVE  FirstIsTracked'
  BY <1>5 DEF Closes, Untracked
<1>6. QED
  BY <1>1, <1>2, <1>3, <1>4, <1>5, StepCases, MainKeepsSockets

(* The table of connections is what Stop needs it to be: it names open      *)
(* connections of the right name, and misses none but those that opened     *)
(* beside another of their name or during the shutdown.                     *)
THEOREM TableStaysTrue == Spec => []TableIsTrue
<1>1. Init => TypeOK /\ TrackedIsOpen /\ FirstIsTracked
  BY InitTypes DEF Init, TrackedIsOpen, FirstIsTracked
<1>2. TrackedIsOpen /\ FirstIsTracked => TableIsTrue
  BY DEF TableIsTrue
<1>3. QED
  BY <1>1, <1>2, TypeStep, TrackedStep, FirstStep, PTL DEF Spec
=============================================================================
