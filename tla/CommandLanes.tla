---------------------------- MODULE CommandLanes ----------------------------
(***************************************************************************)
(* The in-process command queue (src/src/process/command-queue.ts).        *)
(*                                                                         *)
(* Work is enqueued into named lanes.  A lane starts its entries in order, *)
(* at most maxConcurrent at a time, and is driven by pump(), a synchronous *)
(* loop that runs inside whoever called it: an enqueue, a change of the    *)
(* concurrency, the completion of a task, or resetAllLanes.  The pump      *)
(* starts a task by calling it, so the code of the task up to its first    *)
(* await (its synchronous prefix) runs inside the pump and may itself      *)
(* enqueue, which may start another pump.  frames is that call stack.      *)
(*                                                                         *)
(* resetAllLanes abandons the tasks that are still running (an in-process  *)
(* restart): their runs go on, with a stale generation.                    *)
(***************************************************************************)
EXTENDS Integers, Sequences, FiniteSets

CONSTANTS
  Lanes,           \* lane names
  Tasks,           \* the calls of enqueueCommandInLane, one task each
  MaxConcurrency,  \* bound: largest value given to setCommandLaneConcurrency
  MaxGeneration,   \* bound: how many times resetAllLanes is called
  NoTask,          \* a pump frame that is between two tasks
  NoRun            \* a task whose closure is not in flight

ASSUME LanesAssumption ==
  /\ IsFiniteSet(Tasks)
  /\ MaxConcurrency \in Nat \ {0}
  /\ MaxGeneration \in Nat
  /\ NoTask \notin Tasks
  /\ NoRun \notin [lane : Lanes, generation : 0..MaxGeneration]

VARIABLES
  gatewayDraining,  \* refuse new entries
  queue,            \* lane -> entries not started
  active,           \* lane -> activeTaskIds
  maxConcurrent,    \* lane -> how many may run at once
  draining,         \* lane -> a drainLane call is on the stack
  generation,       \* lane -> how many resets the lane has seen
  frames,           \* the stack of pump calls, the innermost last
  toDrain,          \* the lanes a resetAllLanes call has still to drain
  run,              \* task -> its closure in flight, with the lane and
                    \*         generation it was started in
  promise           \* task -> what its caller has been told

lane_vars == <<queue, active, maxConcurrent, draining, generation>>
vars == <<gatewayDraining, queue, active, maxConcurrent, draining, generation,
          frames, toDrain, run, promise>>

Run == [lane : Lanes, generation : 0..MaxGeneration]
Frame == [lane : Lanes, task : Tasks \union {NoTask}]
Settled == {"resolved", "rejected", "cleared", "refused"}
Promise == {"none", "pending"} \union Settled

TypeOK ==
  /\ gatewayDraining \in BOOLEAN
  /\ queue \in [Lanes -> Seq(Tasks)]
  /\ active \in [Lanes -> SUBSET Tasks]
  /\ maxConcurrent \in [Lanes -> 1..MaxConcurrency]
  /\ draining \in [Lanes -> BOOLEAN]
  /\ generation \in [Lanes -> 0..MaxGeneration]
  /\ frames \in Seq(Frame)
  /\ toDrain \in SUBSET Lanes
  /\ run \in [Tasks -> Run \union {NoRun}]
  /\ promise \in [Tasks -> Promise]

Init ==
  /\ gatewayDraining = FALSE
  /\ queue = [l \in Lanes |-> <<>>]
  /\ active = [l \in Lanes |-> {}]
  /\ maxConcurrent = [l \in Lanes |-> 1]
  /\ draining = [l \in Lanes |-> FALSE]
  /\ generation = [l \in Lanes |-> 0]
  /\ frames = <<>>
  /\ toDrain = {}
  /\ run = [t \in Tasks |-> NoRun]
  /\ promise = [t \in Tasks |-> "none"]

-----------------------------------------------------------------------------
(* The call stack *)

\* Nothing of the command queue is on the stack: the event loop may run
\* another callback.
Idle == frames = <<>> /\ toDrain = {}

Top == frames[Len(frames)]

\* The stack with the innermost pump executing the prefix of t (or no task).
WithTop(t) == [frames EXCEPT ![Len(frames)].task = t]

Push(stack, l) == Append(stack, [lane |-> l, task |-> NoTask])

\* Some code outside the queue has control: the event loop, or the
\* synchronous prefix of the task that the innermost pump has just called.
CallerRuns == Idle \/ (frames # <<>> /\ Top.task # NoTask)

Holds(entries, t) == \E i \in DOMAIN entries : entries[i] = t

Full(l) == Cardinality(active[l]) >= maxConcurrent[l]

\* drainLane: nothing when a call for the lane is already on the stack.
DrainLane(l) ==
  IF draining[l] THEN UNCHANGED <<draining, frames>>
                 ELSE /\ draining' = [draining EXCEPT ![l] = TRUE]
                      /\ frames' = Push(frames, l)

-----------------------------------------------------------------------------
(* Operations *)

\* enqueueCommandInLane, refused because the gateway is about to restart
Refuse(t) ==
  /\ CallerRuns
  /\ promise[t] = "none"
  /\ gatewayDraining
  /\ promise' = [promise EXCEPT ![t] = "refused"]
  /\ UNCHANGED <<gatewayDraining, lane_vars, frames, toDrain, run>>

\* enqueueCommandInLane
Enqueue(t, l) ==
  /\ CallerRuns
  /\ promise[t] = "none"
  /\ ~gatewayDraining
  /\ promise' = [promise EXCEPT ![t] = "pending"]
  /\ queue' = [queue EXCEPT ![l] = Append(@, t)]
  /\ DrainLane(l)
  /\ UNCHANGED <<gatewayDraining, active, maxConcurrent, generation, toDrain, run>>

\* One turn of the pump's loop: the entry at the head leaves the queue, its
\* closure is created with the generation of now, and its prefix runs.
PumpStart ==
  /\ frames # <<>>
  /\ Top.task = NoTask
  /\ ~Full(Top.lane)
  /\ queue[Top.lane] # <<>>
  /\ LET l == Top.lane
         t == Head(queue[l])
     IN /\ queue' = [queue EXCEPT ![l] = Tail(@)]
        /\ active' = [active EXCEPT ![l] = @ \union {t}]
        /\ run' = [run EXCEPT ![t] = [lane |-> l, generation |-> generation[l]]]
        /\ frames' = WithTop(t)
  /\ UNCHANGED <<gatewayDraining, maxConcurrent, draining, generation, toDrain, promise>>

\* Mutant: no finally block clears draining.
PumpEndKeepsDraining ==
  /\ frames # <<>>
  /\ Top.task = NoTask
  /\ Full(Top.lane) \/ queue[Top.lane] = <<>>
  /\ frames' = SubSeq(frames, 1, Len(frames) - 1)
  /\ UNCHANGED <<gatewayDraining, lane_vars, toDrain, run, promise>>

\* The loop ends; the finally block clears draining, also when an outer pump
\* of the same lane is still on the stack.
PumpEnd ==
  /\ frames # <<>>
  /\ Top.task = NoTask
  /\ Full(Top.lane) \/ queue[Top.lane] = <<>>
  /\ draining' = [draining EXCEPT ![Top.lane] = FALSE]
  /\ frames' = SubSeq(frames, 1, Len(frames) - 1)
  /\ UNCHANGED <<gatewayDraining, queue, active, maxConcurrent, generation,
                 toDrain, run, promise>>

\* The prefix reaches its first await and the pump goes on.
TaskYield ==
  /\ frames # <<>>
  /\ Top.task # NoTask
  /\ frames' = WithTop(NoTask)
  /\ UNCHANGED <<gatewayDraining, lane_vars, toDrain, run, promise>>

\* Mutant: a settled task does not pump.
SettleRunWithoutPump(t, outcome, stack) ==
  /\ active' = [active EXCEPT ![run[t].lane] = @ \ {t}]
  /\ frames' = stack
  /\ run' = [run EXCEPT ![t] = NoRun]
  /\ promise' = [promise EXCEPT ![t] = outcome]
  /\ UNCHANGED <<gatewayDraining, queue, maxConcurrent, draining, generation, toDrain>>

\* The closure of t settles, with the caller's stack below it: completeTask,
\* and a pump that does not set draining, unless a reset has intervened.
SettleRun(t, outcome, stack) ==
  LET l == run[t].lane
  IN /\ IF run[t].generation = generation[l]
          THEN /\ active' = [active EXCEPT ![l] = @ \ {t}]
               /\ frames' = Push(stack, l)
          ELSE /\ active' = active
               /\ frames' = stack
     /\ run' = [run EXCEPT ![t] = NoRun]
     /\ promise' = [promise EXCEPT ![t] = outcome]
     /\ UNCHANGED <<gatewayDraining, queue, maxConcurrent, draining, generation, toDrain>>

\* The task settles in a later turn of the event loop.
Complete(t) ==
  /\ Idle
  /\ run[t] # NoRun
  /\ \E outcome \in {"resolved", "rejected"} : SettleRun(t, outcome, frames)

\* The task throws before it returns a promise.
SyncThrow ==
  /\ frames # <<>>
  /\ Top.task # NoTask
  /\ SettleRun(Top.task, "rejected", WithTop(NoTask))

\* Mutant: the value is not kept at 1 or more.
SetCommandLaneConcurrencyUnclamped(l, n) ==
  /\ Idle
  /\ maxConcurrent' = [maxConcurrent EXCEPT ![l] = n - 1]
  /\ DrainLane(l)
  /\ UNCHANGED <<gatewayDraining, queue, active, generation, toDrain, run, promise>>

SetCommandLaneConcurrency(l, n) ==
  /\ Idle
  /\ maxConcurrent' = [maxConcurrent EXCEPT ![l] = n]
  /\ DrainLane(l)
  /\ UNCHANGED <<gatewayDraining, queue, active, generation, toDrain, run, promise>>

\* Mutant: the callers of cleared entries are not told.
ClearCommandLaneSilently(l) ==
  /\ CallerRuns
  /\ queue[l] # <<>>
  /\ queue' = [queue EXCEPT ![l] = <<>>]
  /\ UNCHANGED <<gatewayDraining, active, maxConcurrent, draining, generation,
                 frames, toDrain, run, promise>>

ClearCommandLane(l) ==
  /\ CallerRuns
  /\ queue[l] # <<>>
  /\ queue' = [queue EXCEPT ![l] = <<>>]
  /\ promise' = [t \in Tasks |-> IF Holds(queue[l], t) THEN "cleared" ELSE promise[t]]
  /\ UNCHANGED <<gatewayDraining, active, maxConcurrent, draining, generation,
                 frames, toDrain, run>>

MarkGatewayDraining ==
  /\ Idle
  /\ gatewayDraining' = TRUE
  /\ UNCHANGED <<lane_vars, frames, toDrain, run, promise>>

\* Mutant: abandoned tasks keep a generation that counts.
ResetAllLanesSameGeneration ==
  /\ Idle
  /\ gatewayDraining' = FALSE
  /\ active' = [l \in Lanes |-> {}]
  /\ draining' = [l \in Lanes |-> FALSE]
  /\ toDrain' = {l \in Lanes : queue[l] # <<>>}
  /\ UNCHANGED <<queue, maxConcurrent, generation, frames, run, promise>>

\* resetAllLanes, first pass: every lane is reset before any is drained.
ResetAllLanes ==
  /\ Idle
  /\ \A l \in Lanes : generation[l] < MaxGeneration
  /\ gatewayDraining' = FALSE
  /\ generation' = [l \in Lanes |-> generation[l] + 1]
  /\ active' = [l \in Lanes |-> {}]
  /\ draining' = [l \in Lanes |-> FALSE]
  /\ toDrain' = {l \in Lanes : queue[l] # <<>>}
  /\ UNCHANGED <<queue, maxConcurrent, frames, run, promise>>

\* resetAllLanes, second pass: one lane after the other.
DrainNext(l) ==
  /\ frames = <<>>
  /\ l \in toDrain
  /\ toDrain' = toDrain \ {l}
  /\ DrainLane(l)
  /\ UNCHANGED <<gatewayDraining, queue, active, maxConcurrent, generation, run, promise>>

-----------------------------------------------------------------------------

\* What the code that has control may do next: its own steps, which follow
\* each other without a pause.
SyncStep == PumpStart \/ PumpEnd \/ TaskYield \/ (\E l \in Lanes : DrainNext(l))

Next ==
  \/ \E t \in Tasks : Refuse(t) \/ Complete(t)
  \/ \E t \in Tasks, l \in Lanes : Enqueue(t, l)
  \/ PumpStart \/ PumpEnd \/ TaskYield \/ SyncThrow
  \/ \E l \in Lanes : ClearCommandLane(l) \/ DrainNext(l)
  \/ \E l \in Lanes, n \in 1..MaxConcurrency : SetCommandLaneConcurrency(l, n)
  \/ MarkGatewayDraining
  \/ ResetAllLanes

Spec == Init /\ [][Next]_vars

IsCurrent(t) == run[t] # NoRun /\ run[t].generation = generation[run[t].lane]

\* The task settles, if it has not been abandoned by a reset.
CompleteCurrent(t) == IsCurrent(t) /\ Complete(t)

\* The event loop does not leave a settled await unserved, although other
\* callbacks run in between; a task that a reset has abandoned may hang.
Fairness ==
  /\ WF_vars(SyncStep)
  /\ \A t \in Tasks : SF_vars(CompleteCurrent(t))

FairSpec == Spec /\ Fairness

-----------------------------------------------------------------------------
(* Properties *)

Queued(t) == \E l \in Lanes : Holds(queue[l], t)

\* No lost wake-up: whenever the event loop has control, a lane that holds
\* entries is using all its slots, so that a completion will pump it again.
\* The pumps that nested enqueues, throws and resets leave out (draining is
\* already set) must be made up for by one further down the stack.
NoStalledLane ==
  Idle => \A l \in Lanes : queue[l] # <<>> => Full(l)

\* activeTaskIds holds exactly the runs of the current generation: no slot is
\* leaked to a finished or abandoned run and none is freed twice.
ActiveMatchesRuns ==
  \A l \in Lanes :
    active[l] = {t \in Tasks : /\ run[t] # NoRun
                               /\ run[t].lane = l
                               /\ run[t].generation = generation[l]}

\* A caller waits exactly as long as its entry is in one place of one queue or
\* its run is in flight, never both: no clear, reset or nested pump loses an
\* entry, starts it twice or leaves its promise unsettled.
EveryEntryAccounted ==
  /\ \A t \in Tasks : promise[t] = "pending" <=> (Queued(t) \/ run[t] # NoRun)
  /\ \A t \in Tasks : ~(Queued(t) /\ run[t] # NoRun)
  /\ \A l, m \in Lanes : \A t \in Tasks :
       Holds(queue[l], t) /\ Holds(queue[m], t) => l = m
  /\ \A l \in Lanes : \A i, j \in DOMAIN queue[l] :
       queue[l][i] = queue[l][j] => i = j

\* What the queue promises (LaneService): hide the stack, the flags, the
\* generations and the closures.
Service == INSTANCE LaneService WITH
  closed <- gatewayDraining, waiting <- queue, running <- active,
  limit <- maxConcurrent, outcome <- promise

\* Every step of the queue is a step of that service or changes nothing of it:
\* entries start in order, once, in a free slot, and only waiting entries are
\* cleared, however pumps, throws, resets and stale completions interleave.
ImplementsService == Service!Spec

\* Nor does an entry wait in front of a free slot for ever.
ImplementsFairService == Service!FairSpec

=============================================================================
