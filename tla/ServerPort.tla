----------------------------- MODULE ServerPort -----------------------------
(***************************************************************************)
(* The life of a server process: main (src/src/CloudNode.cpp), the stop    *)
(* token its signal handler uses (src/src/StopToken.cpp), and the server's *)
(* port (src/src/MessagePortServer.cpp), whose event loop runs in a thread *)
(* of its own and keeps a table of the connections that Stop has to end.   *)
(*                                                                         *)
(* The loop handles one event at a time.  It is left when it has no socket *)
(* to wait for, the listening one included; the sockets themselves are the *)
(* library's, as the port uses them.  m_loop and m_listenSocket are set    *)
(* without the mutex under which Stop reads them, so each write is a step. *)
(***************************************************************************)
EXTENDS Naturals, FiniteSets

CONSTANTS
    Names,          \* values of the x-client-id header
    Sockets,        \* connections over the life of the process
    Owner,          \* the name each of them is upgraded with
    NoSocket,       \* no entry in clients
    MaxInterrupts   \* bound: SIGINTs

ASSUME ConstantsAssumption ==
    /\ Owner \in [Sockets -> Names]
    /\ NoSocket \notin Sockets
    /\ MaxInterrupts \in Nat

VARIABLES
    token,          \* the mutex of the stop token: "locked" while running
    interrupts,     \* SIGINTs so far
    main,           \* where main is
    loop,           \* where the thread of the event loop is
    listening,      \* the listening socket: "no", "yes" or "closed"
    m_listenSocket, \* whether it is known to Stop
    m_loop,         \* whether the loop is known to Stop
    isRunning,      \* m_isRunning
    stopRequested,  \* m_stopRequested
    request,        \* what Stop found to do: "none" yet, "nothing", "close", "closed" once done
    status,         \* each connection: "new", "accepted", "open", "ended" by the server, "closed"
    clients,        \* the connection tracked for each name
    overlooked      \* connections opened while another of the name was tracked, or after the close

mainVars == <<token, interrupts, main>>
portVars == <<m_listenSocket, m_loop, isRunning, stopRequested, request>>
socketVars == <<status, clients, overlooked>>
vars == <<mainVars, loop, listening, portVars, socketVars>>

----------------------------------------------------------------------------
(* Mutated forms of definitions below, used to test the properties.        *)

(* the entry of the name is erased, whichever connection it names *)
UntrackedByName(s) == [clients EXCEPT ![Owner[s]] = NoSocket]

(* the connections are left to themselves when the listener is closed *)
ToEndNone == {}

(* the table holds the name in place of the connection *)
TrackedAsName(s) == Owner[s]

----------------------------------------------------------------------------
(* main and the signal handler *)

AfterInterrupt(t) == "unlocked"

(* SIGINT unlocks the mutex of the token, locked or not: unlocking a free   *)
(* mutex, or another thread's, leaves it free in the C library's mutex.     *)
Interrupt ==
    /\ interrupts < MaxInterrupts
    /\ interrupts' = interrupts + 1
    /\ token' = AfterInterrupt(token)
    /\ UNCHANGED <<main, loop, listening, portVars, socketVars>>

(* Start of the port: it returns as soon as there is a thread. *)
StartsPort ==
    /\ main = "starting" /\ main' = "polling"
    /\ loop' = "starting"
    /\ UNCHANGED <<token, interrupts, listening, portVars, socketVars>>

(* The main loop of a server only looks at the token. *)
StopRequested ==
    /\ main = "polling" /\ token = "unlocked"
    /\ main' = "stopping"
    /\ UNCHANGED <<token, interrupts, loop, listening, portVars, socketVars>>

(* Stop, up to the join: nothing is asked of a loop that is not known yet. *)
StopsPort ==
    /\ main = "stopping" /\ main' = "joining"
    /\ isRunning' = FALSE /\ stopRequested' = TRUE
    /\ request' = IF m_loop /\ m_listenSocket THEN "close" ELSE "nothing"
    /\ UNCHANGED <<token, interrupts, loop, listening, m_listenSocket, m_loop, socketVars>>

JoinsLoop ==
    /\ main = "joining" /\ loop = "ended"
    /\ main' = "done"
    /\ UNCHANGED <<token, interrupts, loop, listening, portVars, socketVars>>

----------------------------------------------------------------------------
(* The thread of the event loop *)

(* The listen callback without a socket. *)
ListenFails ==
    /\ loop = "starting" /\ loop' = "running"
    /\ isRunning' = FALSE /\ stopRequested' = TRUE
    /\ UNCHANGED <<mainVars, listening, m_listenSocket, m_loop, request, socketVars>>

(* The listen callback with one: three writes, the last one with the mutex. *)
ReportsSocket ==
    /\ loop = "starting" /\ loop' = "listening"
    /\ listening' = "yes"
    /\ m_listenSocket' = TRUE
    /\ UNCHANGED <<mainVars, m_loop, isRunning, stopRequested, request, socketVars>>

ReportsLoop ==
    /\ loop = "listening" /\ ~m_loop
    /\ m_loop' = TRUE
    /\ UNCHANGED <<mainVars, loop, listening, m_listenSocket, isRunning, stopRequested, request,
                   socketVars>>

ReportsRunning ==
    /\ loop = "listening" /\ m_loop
    /\ loop' = "running"
    /\ isRunning' = TRUE
    /\ UNCHANGED <<mainVars, listening, m_listenSocket, m_loop, stopRequested, request, socketVars>>

(* The connections that are tracked, all of them ended by the close. *)
ToEnd == {clients[n] : n \in Names} \ {NoSocket}

(* What Stop deferred: the listening socket is closed and the tracked       *)
(* connections are ended, which runs their close handler at once.           *)
ClosesAll ==
    /\ loop = "running" /\ request = "close"
    /\ request' = "closed"
    /\ listening' = "closed" /\ m_listenSocket' = FALSE
    /\ status' = [s \in Sockets |-> IF s \in ToEnd THEN "ended" ELSE status[s]]
    /\ clients' = [n \in Names |-> IF clients[n] \in ToEnd THEN NoSocket ELSE clients[n]]
    /\ UNCHANGED <<mainVars, loop, m_loop, isRunning, stopRequested, overlooked>>

(* The loop waits for nothing any more. *)
LoopEnds ==
    /\ loop = "running" /\ listening # "yes" /\ request # "close"
    /\ \A s \in Sockets : status[s] \in {"new", "closed"}
    /\ loop' = "ended"
    /\ UNCHANGED <<mainVars, listening, portVars, socketVars>>

----------------------------------------------------------------------------
(* Connections, handled by the loop *)

Accept(s) ==
    /\ loop = "running" /\ listening = "yes" /\ status[s] = "new"
    /\ status' = [status EXCEPT ![s] = "accepted"]
    /\ UNCHANGED <<mainVars, loop, listening, portVars, clients, overlooked>>

(* What is tracked for the name of a connection that opens. *)
TrackedAs(s) == IF clients[Owner[s]] = NoSocket THEN s ELSE clients[Owner[s]]

(* Upgrade and open handlers; the connection may have been accepted before  *)
(* the listening socket was closed.                                         *)
Opens(s) ==
    /\ loop = "running" /\ status[s] = "accepted"
    /\ status' = [status EXCEPT ![s] = "open"]
    /\ clients' = [clients EXCEPT ![Owner[s]] = TrackedAs(s)]
    /\ overlooked' = IF clients[Owner[s]] # NoSocket \/ request = "closed"
                     THEN overlooked \cup {s} ELSE overlooked
    /\ UNCHANGED <<mainVars, loop, listening, portVars>>

(* The table once s has closed: only its own entry is erased. *)
Untracked(s) == IF clients[Owner[s]] = s THEN [clients EXCEPT ![Owner[s]] = NoSocket] ELSE clients

(* Close handler: the client has gone, or has been silent for too long. *)
Closes(s) ==
    /\ loop = "running" /\ status[s] = "open"
    /\ status' = [status EXCEPT ![s] = "closed"]
    /\ clients' = Untracked(s)
    /\ UNCHANGED <<mainVars, loop, listening, portVars, overlooked>>

(* A connection that was never upgraded, or whose close handler has run,    *)
(* goes away at the latest after the library's time-out.                    *)
GoesAway(s) ==
    /\ loop = "running" /\ status[s] \in {"accepted", "ended"}
    /\ status' = [status EXCEPT ![s] = "closed"]
    /\ UNCHANGED <<mainVars, loop, listening, portVars, clients, overlooked>>

----------------------------------------------------------------------------
Init ==
    /\ token = "locked" /\ interrupts = 0 /\ main = "starting"
    /\ loop = "none" /\ listening = "no"
    /\ m_listenSocket = FALSE /\ m_loop = FALSE /\ isRunning = FALSE /\ stopRequested = FALSE
    /\ request = "none"
    /\ status = [s \in Sockets |-> "new"]
    /\ clients = [n \in Names |-> NoSocket]
    /\ overlooked = {}

MainStep == StartsPort \/ StopRequested \/ StopsPort \/ JoinsLoop

LoopStep ==
    ListenFails \/ ReportsSocket \/ ReportsLoop \/ ReportsRunning \/ ClosesAll \/ LoopEnds

Next ==
    \/ Interrupt \/ MainStep \/ LoopStep
    \/ \E s \in Sockets : Accept(s) \/ Opens(s) \/ Closes(s) \/ GoesAway(s)

Spec == Init /\ [][Next]_vars

(* Both threads run and the library's time-outs end; clients may stay       *)
(* connected for ever.                                                      *)
FairSpec ==
    /\ Spec
    /\ WF_vars(MainStep) /\ WF_vars(LoopStep)
    /\ \A s \in Sockets : WF_vars(GoesAway(s))

----------------------------------------------------------------------------
(* Properties *)

(* The variables have the types of the state they stand for. *)
TypeOK ==
    /\ token \in {"locked", "unlocked"} /\ interrupts \in 0 .. MaxInterrupts
    /\ main \in {"starting", "polling", "stopping", "joining", "done"}
    /\ loop \in {"none", "starting", "listening", "running", "ended"}
    /\ listening \in {"no", "yes", "closed"}
    /\ m_listenSocket \in BOOLEAN /\ m_loop \in BOOLEAN
    /\ isRunning \in BOOLEAN /\ stopRequested \in BOOLEAN
    /\ request \in {"none", "nothing", "close", "closed"}
    /\ status \in [Sockets -> {"new", "accepted", "open", "ended", "closed"}]
    /\ clients \in [Names -> Sockets \cup {NoSocket}]
    /\ overlooked \subseteq Sockets

(* The connections Stop would end are open ones: the pointers in clients    *)
(* outlive none of the closes, whichever connection of a name closes first. *)
TrackedIsOpen ==
    \A n \in Names : clients[n] # NoSocket =>
        status[clients[n]] = "open" /\ Owner[clients[n]] = n

(* Only a connection that opened beside another of its name, or during the  *)
(* shutdown, escapes the table, and with it the end that Stop brings.       *)
FirstIsTracked ==
    \A s \in Sockets : status[s] = "open" /\ s \notin overlooked => clients[Owner[s]] = s

(* What Stop ends is what there is to end: the table names open connections *)
(* only, and all of them but those it never took in.                        *)
TableIsTrue == TrackedIsOpen /\ FirstIsTracked

(* A Stop that does not return was either called before the listener had    *)
(* reported back, or waits for a connection that nothing tracks.            *)
Stuck ==
    /\ main = "joining"
    /\ request = "nothing" \/ \E s \in overlooked : status[s] = "open"

(* However many signals arrive, and whenever, main stops the port and ends, *)
(* unless it is stuck.                                                      *)
InterruptEnds == interrupts > 0 ~> (main = "done" \/ []Stuck)
=============================================================================
