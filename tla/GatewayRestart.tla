--------------------------- MODULE GatewayRestart ---------------------------
(***************************************************************************)
(* The run loop of the gateway process (src/src/cli/gateway-cli/           *)
(* run-loop.ts) together with the command lanes it drains and resets.      *)
(*                                                                         *)
(* Two strands of asynchronous code share the variables below: the loop    *)
(* that starts a server and waits to be told to restart, and the handler   *)
(* of a signal, which drains the lanes, closes the server, hands the lock  *)
(* over and either exits or wakes the loop.  Nothing but the order of      *)
(* their awaits keeps them apart.                                          *)
(***************************************************************************)
EXTENDS Integers, Sequences, FiniteSets

CONSTANTS
  Lanes, Tasks, MaxGeneration, NoTask, NoRun,  \* see CommandLanes
  MaxSignals,    \* bound: signals that are not ignored
  SignalsWhile   \* states of the loop in which signals arrive

LoopStates == {"starting", "up", "exited"}

VARIABLES gatewayDraining, queue, active, maxConcurrent, draining, generation,
          frames, toDrain, run, promise       \* see CommandLanes

VARIABLES
  loop,          \* where the loop is; "exited" when the process has gone
  starts,        \* calls of params.start(); names the server of the last one
  server,        \* the variable server: the number of a start, 0 for null
  live,          \* servers that listen
  awaited,       \* restartResolver resolves the promise the loop waits for
  shuttingDown,
  action,        \* "restart" or "stop": what the last signal asked for
  phase,         \* where the signal handler is; "none" when there is none
  activeAtStart, \* the tasks waitForActiveTasks waits for
  runsAwaited,   \* waitForActiveEmbeddedRuns has not seen an empty map yet
  closing,       \* the server whose close() is awaited, 0 for none
  hadLock,
  lock,          \* the gateway lock is held
  embedded,      \* tasks with a handle in ACTIVE_EMBEDDED_RUNS
  signals

Q == INSTANCE CommandLanes WITH MaxConcurrency <- 1

ASSUME RestartAssumption ==
  /\ Q!LanesAssumption
  /\ MaxSignals \in Nat
  /\ MaxSignals <= MaxGeneration  \* the bounds let every restart reset the lanes
  /\ SignalsWhile \subseteq {"starting", "up"}

lane_vars == <<gatewayDraining, queue, active, maxConcurrent, draining,
               generation, frames, toDrain, run, promise>>
loop_vars == <<loop, starts, server, live, awaited>>
handler_vars == <<shuttingDown, action, phase, activeAtStart, runsAwaited,
                  closing, hadLock, signals>>
vars == <<lane_vars, loop_vars, handler_vars, lock, embedded>>

Phases == {"none", "drain", "closing", "releasing", "reacquiring"}

TypeOK ==
  /\ Q!TypeOK
  /\ loop \in LoopStates
  /\ starts \in 1..(MaxSignals + 1)
  /\ server \in 0..(MaxSignals + 1)
  /\ live \in SUBSET (1..(MaxSignals + 1))
  /\ awaited \in BOOLEAN
  /\ shuttingDown \in BOOLEAN
  /\ action \in {"restart", "stop"}
  /\ phase \in Phases
  /\ activeAtStart \in SUBSET Tasks
  /\ runsAwaited \in BOOLEAN
  /\ closing \in 0..(MaxSignals + 1)
  /\ hadLock \in BOOLEAN
  /\ lock \in BOOLEAN
  /\ embedded \in SUBSET Tasks
  /\ signals \in 0..MaxSignals

\* The lock has been acquired and the first start() is awaited.
Init ==
  /\ Q!Init
  /\ loop = "starting" /\ starts = 1 /\ server = 0 /\ live = {} /\ awaited = FALSE
  /\ shuttingDown = FALSE /\ action = "stop" /\ phase = "none"
  /\ activeAtStart = {} /\ runsAwaited = FALSE /\ closing = 0 /\ hadLock = FALSE
  /\ lock = TRUE /\ embedded = {} /\ signals = 0

Alive == loop # "exited"

\* The event loop runs a callback of the gateway.
Turn == Alive /\ Q!Idle

\* getActiveTaskCount, and the snapshot of waitForActiveTasks
Active == UNION {active[l] : l \in Lanes}

-----------------------------------------------------------------------------
(* The work in the lanes *)

\* Tasks are enqueued, run, settle and are cleared as in CommandLanes.  A turn
\* of an agent drops its handle before its task settles.
LaneStep ==
  /\ Alive
  /\ \/ \E t \in Tasks : Q!Refuse(t) \/ (t \notin embedded /\ Q!Complete(t))
     \/ \E t \in Tasks, l \in Lanes : Q!Enqueue(t, l)
     \/ \E l \in Lanes : Q!ClearCommandLane(l)
     \/ Q!SyncStep \/ Q!SyncThrow
  /\ UNCHANGED <<loop_vars, handler_vars, lock, embedded>>

\* A running task becomes an active agent run, some awaits after its start.
SetActiveEmbeddedRun(t) ==
  /\ Turn
  /\ run[t] # NoRun
  /\ embedded' = embedded \union {t}
  /\ UNCHANGED <<lane_vars, loop_vars, handler_vars, lock>>

\* The run ends, by itself or because it was aborted.
ClearActiveEmbeddedRun(t) ==
  /\ Turn
  /\ t \in embedded
  /\ embedded' = embedded \ {t}
  /\ UNCHANGED <<lane_vars, loop_vars, handler_vars, lock>>

-----------------------------------------------------------------------------
(* The loop *)

StartSucceeds ==
  /\ Turn
  /\ loop = "starting"
  /\ loop' = "up"
  /\ server' = starts
  /\ live' = live \union {starts}
  /\ awaited' = TRUE
  /\ UNCHANGED <<lane_vars, handler_vars, starts, lock, embedded>>

\* Mutant: the lock is kept for the next attempt.
StartFailsKeepsLock ==
  /\ Turn
  /\ loop = "starting"
  /\ IF starts = 1
       THEN loop' = "exited" /\ UNCHANGED <<server, awaited>>
       ELSE loop' = "up" /\ server' = 0 /\ awaited' = TRUE
  /\ UNCHANGED <<lane_vars, handler_vars, starts, live, lock, embedded>>

\* Of the first start the error ends the process; later the process stays
\* alive without a server and lets go of the lock.
StartFails ==
  /\ Turn
  /\ loop = "starting"
  /\ lock' = FALSE
  /\ IF starts = 1
       THEN loop' = "exited" /\ UNCHANGED <<server, awaited>>
       ELSE loop' = "up" /\ server' = 0 /\ awaited' = TRUE
  /\ UNCHANGED <<lane_vars, handler_vars, starts, live, embedded>>

-----------------------------------------------------------------------------
(* The signal handler *)

\* Mutant: the variable is set to null before its server is closed.
BeginCloseOfNothing ==
  /\ phase' = "closing"
  /\ closing' = 0

\* server?.close() is called on the server the variable holds now.
BeginClose ==
  /\ phase' = "closing"
  /\ closing' = server

SigStop ==
  /\ Turn
  /\ signals < MaxSignals /\ loop \in SignalsWhile
  /\ ~shuttingDown
  /\ signals' = signals + 1
  /\ shuttingDown' = TRUE
  /\ action' = "stop"
  /\ BeginClose
  /\ UNCHANGED <<lane_vars, loop_vars, activeAtStart, runsAwaited, hadLock, lock, embedded>>

\* An authorized SIGUSR1: new entries are refused, and if anything is active
\* the tasks of now are waited for.
SigRestart ==
  /\ Turn
  /\ signals < MaxSignals /\ loop \in SignalsWhile
  /\ ~shuttingDown
  /\ signals' = signals + 1
  /\ shuttingDown' = TRUE
  /\ action' = "restart"
  /\ Q!MarkGatewayDraining
  /\ activeAtStart' = Active
  /\ runsAwaited' = (embedded # {})
  /\ IF Active = {} /\ embedded = {}
       THEN BeginClose
       ELSE phase' = "drain" /\ UNCHANGED closing
  /\ UNCHANGED <<loop_vars, hadLock, lock, embedded>>

\* A poll of waitForActiveEmbeddedRuns finds no active run.
RunsDrained ==
  /\ Turn
  /\ phase = "drain" /\ runsAwaited /\ embedded = {}
  /\ runsAwaited' = FALSE
  /\ UNCHANGED <<lane_vars, loop_vars, shuttingDown, action, phase, activeAtStart,
                 closing, hadLock, signals, lock, embedded>>

\* Mutant: only the embedded runs are waited for.
DrainedIgnoresTasks ==
  /\ Turn
  /\ phase = "drain"
  /\ ~runsAwaited
  /\ BeginClose
  /\ UNCHANGED <<lane_vars, loop_vars, shuttingDown, action, activeAtStart,
                 runsAwaited, hadLock, signals, lock, embedded>>

\* "all active work drained"
Drained ==
  /\ Turn
  /\ phase = "drain"
  /\ activeAtStart \intersect Active = {}
  /\ ~runsAwaited
  /\ BeginClose
  /\ UNCHANGED <<lane_vars, loop_vars, shuttingDown, action, activeAtStart,
                 runsAwaited, hadLock, signals, lock, embedded>>

\* Mutant: the timeout is that of the embedded runs alone.
DrainTimeoutOfRuns ==
  /\ Turn
  /\ phase = "drain"
  /\ runsAwaited /\ embedded # {}
  /\ BeginClose
  /\ runsAwaited' = FALSE
  /\ UNCHANGED <<lane_vars, loop_vars, shuttingDown, action, activeAtStart,
                 hadLock, signals, lock, embedded>>

\* DRAIN_TIMEOUT_MS has passed at a poll that finds something left; the runs
\* are told to abort.
DrainTimeout ==
  /\ Turn
  /\ phase = "drain"
  /\ activeAtStart \intersect Active # {} \/ (runsAwaited /\ embedded # {})
  /\ BeginClose
  /\ runsAwaited' = FALSE
  /\ UNCHANGED <<lane_vars, loop_vars, shuttingDown, action, activeAtStart,
                 hadLock, signals, lock, embedded>>

\* close() settles; the finally block forgets whatever server there is now.
Closed ==
  /\ Turn
  /\ phase = "closing"
  /\ phase' = "releasing"
  /\ live' = live \ {closing}
  /\ closing' = 0
  /\ server' = 0
  /\ UNCHANGED <<lane_vars, loop, starts, awaited, shuttingDown, action,
                 activeAtStart, runsAwaited, hadLock, signals, lock, embedded>>

\* close() hangs and the force-exit timer fires.
ForceExit ==
  /\ Turn
  /\ phase = "closing" /\ closing # 0
  /\ loop' = "exited"
  /\ UNCHANGED <<lane_vars, starts, server, live, awaited, handler_vars, lock, embedded>>

\* The lock is released; the process exits when it was told to stop or when a
\* new process takes over.
ReleasedAndExit ==
  /\ Turn
  /\ phase = "releasing"
  /\ lock' = FALSE
  /\ loop' = "exited"
  /\ UNCHANGED <<lane_vars, starts, server, live, awaited, handler_vars, embedded>>

\* Mutant: the lanes are not reset.
WakeLoopWithoutReset ==
  /\ phase' = "none"
  /\ shuttingDown' = FALSE
  /\ IF awaited
       THEN awaited' = FALSE /\ loop' = "starting" /\ starts' = starts + 1
       ELSE UNCHANGED <<awaited, loop, starts>>
  /\ UNCHANGED <<lane_vars, server, live, action, activeAtStart, runsAwaited,
                 closing, signals, embedded>>

\* The end of the handler wakes the loop, if the loop waits for it: the lanes
\* are reset and the next start() is called before anything else runs.
WakeLoop ==
  /\ phase' = "none"
  /\ shuttingDown' = FALSE
  /\ IF awaited
       THEN /\ awaited' = FALSE
            /\ loop' = "starting"
            /\ starts' = starts + 1
            /\ Q!ResetAllLanes
       ELSE UNCHANGED <<lane_vars, awaited, loop, starts>>
  /\ UNCHANGED <<server, live, action, activeAtStart, runsAwaited, closing, signals, embedded>>

\* No new process: the lock is released and, if it was held, acquired again.
ReleasedAndStay ==
  /\ Turn
  /\ phase = "releasing" /\ action = "restart"
  /\ hadLock' = lock
  /\ lock' = FALSE
  /\ IF lock
       THEN /\ phase' = "reacquiring"
            /\ UNCHANGED <<lane_vars, loop_vars, shuttingDown, action, activeAtStart,
                           runsAwaited, closing, signals, embedded>>
       ELSE WakeLoop

Reacquired ==
  /\ Turn
  /\ phase = "reacquiring"
  /\ lock' = TRUE
  /\ UNCHANGED hadLock
  /\ WakeLoop

\* Another process has taken the lock in between.
ReacquireFails ==
  /\ Turn
  /\ phase = "reacquiring"
  /\ loop' = "exited"
  /\ UNCHANGED <<lane_vars, starts, server, live, awaited, handler_vars, lock, embedded>>

-----------------------------------------------------------------------------

HandlerStep ==
  RunsDrained \/ Drained \/ DrainTimeout \/ Closed \/ ForceExit
  \/ ReleasedAndExit \/ ReleasedAndStay \/ Reacquired \/ ReacquireFails

Next ==
  \/ LaneStep
  \/ \E t \in Tasks : SetActiveEmbeddedRun(t) \/ ClearActiveEmbeddedRun(t)
  \/ StartSucceeds \/ StartFails
  \/ SigStop \/ SigRestart
  \/ HandlerStep

\* Synchronous code runs to its end; timers fire; the lock's calls return.  A
\* close() may hang, a start() may hang and a task may hang.
Fairness ==
  /\ WF_vars(Q!SyncStep /\ LaneStep)
  /\ WF_vars(RunsDrained \/ Drained \/ DrainTimeout)
  /\ WF_vars(ForceExit \/ (closing = 0 /\ Closed))
  /\ WF_vars(ReleasedAndExit \/ ReleasedAndStay)
  /\ WF_vars(Reacquired \/ ReacquireFails)

Spec == Init /\ [][Next]_vars
FairSpec == Spec /\ Fairness

-----------------------------------------------------------------------------
(* Properties *)

\* "Gateway is draining for restart" (command-queue.ts:22): new work is refused
\* only while a restart is under way, never by a gateway that just serves.
RefusesOnlyDuringRestart ==
  loop = "up" /\ gatewayDraining => shuttingDown

\* A server that the loop has lost hold of keeps its port, so that the next
\* start() cannot bind it: whatever listens is known to the loop or its handler.
NoLeakedServer == TypeOK /\ (Alive => live \subseteq {server, closing})

\* run-loop.ts:232: a process without a server must not keep the lock, or the
\* commands that manage the gateway cannot.
NoLockWithoutServer == loop = "up" /\ ~shuttingDown /\ server = 0 => ~lock

\* run-loop.ts:122: every turn that was in flight when the restart was requested
\* has settled before the server is torn down, unless the drain has timed out.
InFlightTurnsFinish == [][Drained => \A t \in activeAtStart : run[t] = NoRun]_vars

\* A restart ends with another start() or with the end of the process,
\* whatever hangs: a task, an agent run or the server's close().
RestartHappens ==
  \A n \in 1..MaxSignals :
    (shuttingDown /\ action = "restart" /\ starts = n) ~> (starts > n \/ ~Alive)

=============================================================================
