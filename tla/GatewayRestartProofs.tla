------------------------ MODULE GatewayRestartProofs ------------------------
(***************************************************************************)
(* Proofs about GatewayRestart, for every set of lanes and tasks and any   *)
(* number of signals.  What the lanes guarantee is taken from              *)
(* CommandLanesProofs: every step of the gateway is a step of the lanes or *)
(* leaves them alone.                                                      *)
(***************************************************************************)
EXTENDS GatewayRestart, SequenceTheorems, TLAPS

P == INSTANCE CommandLanesProofs WITH MaxConcurrency <- 1

-----------------------------------------------------------------------------
(* The lanes of the gateway are those of the proofs. *)

LEMMA LanesAssumed == P!LanesAssumption
BY RestartAssumption DEF RestartAssumption, Q!LanesAssumption, P!LanesAssumption,
   P!IsFiniteSet, Q!IsFiniteSet

\* The lanes start as the lane proofs say.
LEMMA LanesInit == Q!Init => P!IInv
<1>1. Q!Init => P!Init
  BY DEF P!Init, Q!Init
<1> QED
  BY <1>1, LanesAssumed, P!InvInit DEF P!InvInit

\* A state of the lanes that the proofs allow has the types of both instances.
LEMMA LanesTypes == (P!IInv => Q!TypeOK) /\ (P!IInv' => Q!TypeOK')
BY DEF P!IInv, P!TypeOK, Q!TypeOK, P!Run, Q!Run, P!Frame, Q!Frame, P!Promise, Q!Promise,
   P!Settled, Q!Settled

\* Both instances of the lanes call drainLane alike,
LEMMA DrainSame == ASSUME NEW l PROVE Q!DrainLane(l) => P!DrainLane(l)
BY DEF P!DrainLane, Q!DrainLane, P!Push, Q!Push

\* settle a run alike,
LEMMA SettleSame ==
  ASSUME NEW t, NEW outcome, NEW stack
  PROVE  Q!SettleRun(t, outcome, stack) => P!SettleRun(t, outcome, stack)
BY DEF P!SettleRun, Q!SettleRun, P!Push, Q!Push

\* and find the same lanes full.
LEMMA FullSame == ASSUME NEW l PROVE P!Full(l) <=> Q!Full(l)
BY DEF P!Full, Q!Full, P!Cardinality, Q!Cardinality

\* Each step of the lanes that the gateway takes.
LEMMA LaneStepIsStep == LaneStep => P!Next
<1> SUFFICES ASSUME LaneStep PROVE P!Next
  OBVIOUS
<1> USE DEF P!Idle, Q!Idle, P!CallerRuns, Q!CallerRuns, P!Top, Q!Top, P!lane_vars, Q!lane_vars
<1>1. ASSUME NEW t \in Tasks, Q!Refuse(t) PROVE P!Next
  BY <1>1 DEF P!Next, P!Refuse, Q!Refuse
<1>2. ASSUME NEW t \in Tasks, Q!Complete(t) PROVE P!Next
  <2>1. P!Complete(t)
    BY <1>2, SettleSame DEF P!Complete, Q!Complete
  <2> QED
    BY <2>1 DEF P!Next
<1>3. ASSUME NEW t \in Tasks, NEW l \in Lanes, Q!Enqueue(t, l) PROVE P!Next
  <2>1. P!Enqueue(t, l)
    BY <1>3, DrainSame DEF P!Enqueue, Q!Enqueue
  <2> QED
    BY <2>1 DEF P!Next
<1>4. ASSUME NEW l \in Lanes, Q!ClearCommandLane(l) PROVE P!Next
  <2>1. P!ClearCommandLane(l)
    BY <1>4 DEF P!ClearCommandLane, Q!ClearCommandLane, P!Holds, Q!Holds
  <2> QED
    BY <2>1 DEF P!Next
<1>5. CASE Q!PumpStart
  <2>1. P!PumpStart
    BY <1>5, FullSame DEF P!PumpStart, Q!PumpStart, P!WithTop, Q!WithTop
  <2> QED
    BY <2>1 DEF P!Next
<1>6. CASE Q!PumpEnd
  <2>1. P!PumpEnd
    BY <1>6, FullSame DEF P!PumpEnd, Q!PumpEnd
  <2> QED
    BY <2>1 DEF P!Next
<1>7. CASE Q!TaskYield
  <2>1. P!TaskYield
    BY <1>7 DEF P!TaskYield, Q!TaskYield, P!WithTop, Q!WithTop
  <2> QED
    BY <2>1 DEF P!Next
<1>8. ASSUME NEW l \in Lanes, Q!DrainNext(l) PROVE P!Next
  <2>1. P!DrainNext(l)
    BY <1>8, DrainSame DEF P!DrainNext, Q!DrainNext
  <2> QED
    BY <2>1 DEF P!Next
<1>9. CASE Q!SyncThrow
  <2>1. P!SyncThrow
    BY <1>9, SettleSame DEF P!SyncThrow, Q!SyncThrow, P!WithTop, Q!WithTop
  <2> QED
    BY <2>1 DEF P!Next
<1> QED
  BY <1>1, <1>2, <1>3, <1>4, <1>5, <1>6, <1>7, <1>8, <1>9 DEF LaneStep, Q!SyncStep

\* A restart that closes the lanes to new entries is a step of the lanes.
LEMMA MarkIsStep == Q!MarkGatewayDraining => P!Next
BY DEF P!Next, P!MarkGatewayDraining, Q!MarkGatewayDraining, P!Idle, Q!Idle,
   P!lane_vars, Q!lane_vars

\* So is the reset at the end of a restart.
LEMMA ResetIsStep == Q!ResetAllLanes => P!Next
BY DEF P!Next, P!ResetAllLanes, Q!ResetAllLanes, P!Idle, Q!Idle

\* Every step of the gateway is a step of the lanes or leaves them alone.
LEMMA StepOfLanes == [Next]_vars => [P!Next]_(P!vars)
<1> SUFFICES ASSUME [Next]_vars PROVE P!Next \/ UNCHANGED P!vars
  OBVIOUS
<1>0. UNCHANGED lane_vars => UNCHANGED P!vars
  BY DEF lane_vars, P!vars
<1>1. CASE LaneStep
  BY <1>1, LaneStepIsStep
<1>2. CASE SigRestart
  BY <1>2, MarkIsStep DEF SigRestart
<1>3. CASE ReleasedAndStay \/ Reacquired
  BY <1>3, <1>0, ResetIsStep DEF ReleasedAndStay, Reacquired, WakeLoop
<1>4. CASE UNCHANGED vars
  BY <1>4, <1>0 DEF vars
<1>5. CASE \E t \in Tasks : SetActiveEmbeddedRun(t) \/ ClearActiveEmbeddedRun(t)
  BY <1>5, <1>0 DEF SetActiveEmbeddedRun, ClearActiveEmbeddedRun
<1>6. CASE StartSucceeds \/ StartFails \/ SigStop
  BY <1>6, <1>0 DEF StartSucceeds, StartFails, SigStop
<1>7. CASE RunsDrained \/ Drained \/ DrainTimeout \/ Closed
  BY <1>7, <1>0 DEF RunsDrained, Drained, DrainTimeout, Closed
<1>8. CASE ForceExit \/ ReleasedAndExit \/ ReacquireFails
  BY <1>8, <1>0 DEF ForceExit, ReleasedAndExit, ReacquireFails
<1> QED
  BY <1>1, <1>2, <1>3, <1>4, <1>5, <1>6, <1>7, <1>8 DEF Next, HandlerStep

\* Hence every step of the gateway keeps what the proofs say of the lanes.
LEMMA LanesNext == P!IInv /\ [Next]_vars => P!IInv'
BY LanesAssumed, StepOfLanes, P!InvNext DEF P!InvNext

-----------------------------------------------------------------------------
(* The inductive invariant. *)

\* Every start() but the first follows a restart, of one signal each; a server
\* is closed by the handler, which is there as long as shuttingDown is set.
HandlerInv ==
  /\ shuttingDown <=> phase # "none"
  /\ closing # 0 => phase = "closing"
  /\ starts <= signals + 1
  /\ shuttingDown => starts <= signals

\* No reset comes between the snapshot of waitForActiveTasks and the end of the
\* wait, so that what is in the snapshot and still runs holds its slot.
SnapshotCounts ==
  phase = "drain" =>
    \A t \in activeAtStart : run[t] # NoRun => run[t].generation = generation[run[t].lane]

IInv == P!IInv /\ TypeOK /\ HandlerInv /\ SnapshotCounts

\* The process starts with an empty queue, the lock and one start() under way.
LEMMA FirstInv == Init => IInv
<1> SUFFICES ASSUME Init PROVE IInv
  OBVIOUS
<1>1. P!IInv
  BY LanesInit DEF Init
<1>2. Q!TypeOK
  BY <1>1, LanesTypes
<1>3. MaxSignals \in Nat
  BY RestartAssumption DEF RestartAssumption
<1>4. TypeOK /\ HandlerInv
  <2>1. /\ starts = 1 /\ server = 0 /\ closing = 0 /\ signals = 0
        /\ starts \in 1..(MaxSignals + 1) /\ server \in 0..(MaxSignals + 1)
        /\ closing \in 0..(MaxSignals + 1) /\ signals \in 0..MaxSignals
        /\ starts <= signals + 1
    BY <1>3 DEF Init
  <2>2. /\ live \in SUBSET (1..(MaxSignals + 1))
        /\ activeAtStart \in SUBSET Tasks /\ embedded \in SUBSET Tasks
    BY DEF Init
  <2>3. /\ loop \in LoopStates /\ action \in {"restart", "stop"} /\ phase \in Phases
        /\ awaited \in BOOLEAN /\ shuttingDown \in BOOLEAN /\ runsAwaited \in BOOLEAN
        /\ hadLock \in BOOLEAN /\ lock \in BOOLEAN /\ ~shuttingDown /\ phase = "none"
    BY DEF Init, LoopStates, Phases
  <2> QED
    BY <1>2, <2>1, <2>2, <2>3 DEF TypeOK, HandlerInv
<1>5. SnapshotCounts
  BY DEF Init, SnapshotCounts
<1> QED
  BY <1>1, <1>4, <1>5 DEF IInv

\* What stays the same while the lanes or the embedded runs go on.
LEMMA OthersTyped ==
  ASSUME IInv, Q!TypeOK', UNCHANGED <<loop_vars, handler_vars, lock>>,
         embedded' \in SUBSET Tasks
  PROVE  TypeOK' /\ HandlerInv'
BY DEF IInv, TypeOK, HandlerInv, loop_vars, handler_vars

\* The end of the handler; by then the server is closed.
LEMMA Woken ==
  ASSUME IInv, Q!TypeOK', phase \in {"releasing", "reacquiring"}, WakeLoop,
         lock' \in BOOLEAN, hadLock' \in BOOLEAN
  PROVE  TypeOK' /\ HandlerInv'
<1> USE DEF IInv, TypeOK, HandlerInv, WakeLoop
<1>1. MaxSignals \in Nat
  BY RestartAssumption DEF RestartAssumption
<1>2. starts <= signals /\ signals \in 0..MaxSignals /\ starts \in 1..(MaxSignals + 1)
  OBVIOUS
<1>3. /\ phase' = "none" /\ shuttingDown' = FALSE /\ closing' = 0
      /\ signals' \in 0..MaxSignals
      /\ server' \in 0..(MaxSignals + 1) /\ live' \in SUBSET (1..(MaxSignals + 1))
      /\ action' \in {"restart", "stop"} /\ activeAtStart' \in SUBSET Tasks
      /\ runsAwaited' \in BOOLEAN /\ embedded' \in SUBSET Tasks
  OBVIOUS
<1>4. starts' \in 1..(MaxSignals + 1) /\ starts' <= signals' + 1
  <2>1. starts' = starts \/ starts' = starts + 1
    OBVIOUS
  <2>2. signals' = signals
    OBVIOUS
  <2> QED
    BY <1>1, <1>2, <2>1, <2>2 DEF TypeOK
<1>5. awaited' \in BOOLEAN /\ loop' \in LoopStates
  BY DEF LoopStates
<1>6. closing' \in 0..(MaxSignals + 1) /\ phase' \in Phases
  BY <1>1, <1>3 DEF Phases
<1> QED
  BY <1>3, <1>4, <1>5, <1>6

\* No step of the loop, the handler or the lanes leaves the types, and every
\* start() but the first follows a signal.
LEMMA TypesNext == IInv /\ [Next]_vars => TypeOK' /\ HandlerInv'
<1> SUFFICES ASSUME IInv, [Next]_vars PROVE TypeOK' /\ HandlerInv'
  OBVIOUS
<1>1. Q!TypeOK'
  BY LanesNext, LanesTypes DEF IInv
<1>2. MaxSignals \in Nat
  BY RestartAssumption DEF RestartAssumption
<1>3. embedded \in SUBSET Tasks
  BY DEF IInv, TypeOK
<1>4. CASE LaneStep
  BY <1>3, <1>4, <1>1, OthersTyped DEF LaneStep
<1>5. ASSUME NEW t \in Tasks, SetActiveEmbeddedRun(t) \/ ClearActiveEmbeddedRun(t)
      PROVE  TypeOK' /\ HandlerInv'
  BY <1>3, <1>5, <1>1, OthersTyped DEF SetActiveEmbeddedRun, ClearActiveEmbeddedRun
<1> USE <1>1, <1>2 DEF IInv, TypeOK, HandlerInv, loop_vars, handler_vars, LoopStates, Phases
<1>6. CASE StartSucceeds
  BY <1>6 DEF StartSucceeds
<1>7. CASE StartFails
  <2>1. /\ UNCHANGED <<lane_vars, handler_vars, starts, live, embedded>>
        /\ lock' = FALSE
        /\ loop' \in LoopStates
    BY <1>7 DEF StartFails
  <2>2. server' \in 0..(MaxSignals + 1) /\ awaited' \in BOOLEAN
    <3>1. CASE starts = 1
      BY <1>7, <3>1 DEF StartFails
    <3>2. CASE starts # 1
      BY <1>7, <3>2 DEF StartFails
    <3> QED
      BY <3>1, <3>2
  <2> QED
    BY <2>1, <2>2
<1>8. CASE SigStop
  BY <1>8 DEF SigStop, BeginClose
<1>9. CASE SigRestart
  <2>1. Active \subseteq Tasks
    BY DEF Active, Q!TypeOK
  <2> QED
    BY <1>9, <2>1 DEF SigRestart, BeginClose
<1>10. CASE RunsDrained
  BY <1>10 DEF RunsDrained
<1>11. CASE Drained \/ DrainTimeout
  BY <1>11 DEF Drained, DrainTimeout, BeginClose
<1>12. CASE Closed
  BY <1>12 DEF Closed
<1>13. CASE ForceExit \/ ReleasedAndExit \/ ReacquireFails
  BY <1>13 DEF ForceExit, ReleasedAndExit, ReacquireFails
<1>14. CASE ReleasedAndStay
  <2>1. CASE lock
    BY <1>14, <2>1 DEF ReleasedAndStay
  <2>2. CASE ~lock
    BY <1>14, <2>2, Woken DEF ReleasedAndStay
  <2> QED
    BY <2>1, <2>2
<1>15. CASE Reacquired
  BY <1>15, Woken DEF Reacquired
<1>16. CASE UNCHANGED vars
  BY <1>16 DEF vars
<1> QED
  BY <1>4, <1>5, <1>6, <1>7, <1>8, <1>9, <1>10, <1>11, <1>12, <1>13, <1>14, <1>15, <1>16
  DEF Next, HandlerStep

-----------------------------------------------------------------------------
(* The tasks of the snapshot *)

\* The innermost frame of a stack that is not empty.
LEMMA TopFrame == IInv /\ frames # <<>> => Q!Top \in Q!Frame
<1> SUFFICES ASSUME IInv, frames # <<>> PROVE Q!Top \in Q!Frame
  OBVIOUS
<1>1. frames \in Seq(Q!Frame)
  BY DEF IInv, TypeOK, Q!TypeOK
<1>2. Len(frames) \in 1..Len(frames)
  BY <1>1, EmptySeq, LenProperties
<1> QED
  BY <1>1, <1>2, ElementOfSeq DEF Q!Top

\* A step of the lanes creates runs of the current generation only.
LEMMA RunsStayCurrent ==
  ASSUME IInv, LaneStep, NEW t \in Tasks, run'[t] # NoRun,
         run[t] # NoRun => run[t].generation = generation[run[t].lane]
  PROVE  run'[t].generation = generation'[run'[t].lane]
<1> DEFINE Stays == generation' = generation /\ run' = run
           Settles == generation' = generation
                      /\ \E u \in Tasks : run' = [run EXCEPT ![u] = NoRun]
           Starts == generation' = generation
                     /\ \E u \in Tasks, l \in Lanes :
                          run' = [run EXCEPT ![u] = [lane |-> l, generation |-> generation[l]]]
<1>0. Q!TypeOK
  BY DEF IInv, TypeOK
<1>1. ASSUME NEW u \in Tasks, Q!Refuse(u) PROVE Stays
  BY <1>1 DEF Q!Refuse, Q!lane_vars
<1>2. ASSUME NEW u \in Tasks, Q!Complete(u) PROVE Settles
  BY <1>2 DEF Q!Complete, Q!SettleRun
<1>3. ASSUME NEW u \in Tasks, NEW l \in Lanes, Q!Enqueue(u, l) PROVE Stays
  BY <1>3 DEF Q!Enqueue
<1>4. ASSUME NEW l \in Lanes, Q!ClearCommandLane(l) PROVE Stays
  BY <1>4 DEF Q!ClearCommandLane
<1>5. ASSUME Q!PumpStart PROVE Starts
  <2>1. Q!Top.lane \in Lanes
    <3>1. Q!Top \in Q!Frame
      BY <1>5, TopFrame DEF Q!PumpStart
    <3> QED
      BY <3>1 DEF Q!Frame
  <2>2. queue[Q!Top.lane] \in Seq(Tasks) /\ queue[Q!Top.lane] # <<>>
    BY <1>0, <1>5, <2>1 DEF Q!PumpStart, Q!TypeOK
  <2>3. Head(queue[Q!Top.lane]) \in Tasks
    BY <2>2
  <2> QED
    BY <1>5, <2>1, <2>3 DEF Q!PumpStart
<1>6. ASSUME Q!PumpEnd \/ Q!TaskYield PROVE Stays
  BY <1>6 DEF Q!PumpEnd, Q!TaskYield, Q!lane_vars
<1>7. ASSUME NEW l \in Lanes, Q!DrainNext(l) PROVE Stays
  BY <1>7 DEF Q!DrainNext
<1>8. ASSUME Q!SyncThrow PROVE Settles
  <2>1. Q!Top \in Q!Frame /\ Q!Top.task # NoTask
    BY <1>8, TopFrame DEF Q!SyncThrow
  <2>2. Q!Top.task \in Tasks
    BY <2>1 DEF Q!Frame
  <2> QED
    BY <1>8, <2>2 DEF Q!SyncThrow, Q!SettleRun
<1>9. Stays \/ Settles \/ Starts
  BY <1>1, <1>2, <1>3, <1>4, <1>5, <1>6, <1>7, <1>8 DEF LaneStep, Q!SyncStep
<1>10. run \in [Tasks -> Q!Run \union {NoRun}]
  BY <1>0 DEF Q!TypeOK
<1>11. CASE Stays
  BY <1>11
<1>12. CASE Settles
  BY <1>10, <1>12
<1>13. CASE Starts
  BY <1>10, <1>13
<1> QED
  BY <1>9, <1>11, <1>12, <1>13

\* A reset ends the drain, so none comes in the middle of one.
LEMMA SnapshotNext == IInv /\ [Next]_vars => SnapshotCounts'
<1> SUFFICES ASSUME IInv, [Next]_vars PROVE SnapshotCounts'
  OBVIOUS
<1>1. CASE LaneStep
  <2>1. phase' = phase /\ activeAtStart' = activeAtStart
    BY <1>1 DEF LaneStep, handler_vars
  <2>2. activeAtStart \subseteq Tasks
    BY DEF IInv, TypeOK
  <2> QED
    BY <1>1, <2>1, <2>2, RunsStayCurrent DEF SnapshotCounts, IInv
<1>2. CASE SigRestart
  <2>1. \A t \in Active : run[t].generation = generation[run[t].lane]
    BY DEF IInv, P!IInv, P!ActiveMatchesRuns, Active
  <2>2. activeAtStart' = Active /\ run' = run /\ generation' = generation
    BY <1>2 DEF SigRestart, Q!MarkGatewayDraining, Q!lane_vars
  <2> QED
    BY <2>1, <2>2 DEF SnapshotCounts
<1>3. ASSUME UNCHANGED <<run, generation, phase, activeAtStart>> PROVE SnapshotCounts'
  BY <1>3 DEF IInv, SnapshotCounts
<1>4. CASE \/ UNCHANGED vars \/ StartSucceeds \/ StartFails
           \/ RunsDrained \/ ForceExit \/ ReleasedAndExit \/ ReacquireFails
           \/ \E t \in Tasks : SetActiveEmbeddedRun(t) \/ ClearActiveEmbeddedRun(t)
  BY <1>3, <1>4 DEF vars, StartSucceeds, StartFails, RunsDrained, ForceExit, ReleasedAndExit,
     ReacquireFails, SetActiveEmbeddedRun, ClearActiveEmbeddedRun, lane_vars, handler_vars
<1>5. CASE SigStop \/ Drained \/ DrainTimeout \/ Closed \/ ReleasedAndStay \/ Reacquired
  BY <1>5 DEF SigStop, Drained, DrainTimeout, Closed, ReleasedAndStay, Reacquired, WakeLoop,
     BeginClose, SnapshotCounts
<1> QED
  BY <1>1, <1>2, <1>4, <1>5 DEF Next, HandlerStep

\* The invariant is inductive.
LEMMA InvStep == IInv /\ [Next]_vars => IInv'
BY LanesNext, TypesNext, SnapshotNext DEF IInv

\* The inductive invariant: what is proved of the lanes, the types, who may be
\* shutting down, and that the snapshot of the drain counts.
THEOREM Invariance == Spec => []IInv
<1> QED
  BY FirstInv, InvStep, PTL DEF Spec

\* Whatever the tasks, signals and runs do, the gateway keeps its types.
THEOREM TypeCorrect == Spec => []TypeOK
<1>1. IInv => TypeOK
  BY DEF IInv
<1> QED
  BY <1>1, Invariance, PTL

\* The gateway's use of the lanes is one of the behaviours that CommandLanesProofs
\* is about: what is proved there of the lanes holds in the gateway.
THEOREM LanesBehave == Spec => P!Spec
<1>1. Init => P!Init
  BY DEF Init, P!Init, Q!Init
<1> QED
  BY <1>1, StepOfLanes, PTL DEF Spec, P!Spec

\* A drain that ends without a timeout has waited for every task that was active
\* when the restart was requested: none is missed because its slot was given up
\* while it ran.
THEOREM DrainWaits == Spec => InFlightTurnsFinish
<1>1. IInv /\ Drained => \A t \in activeAtStart : run[t] = NoRun
  <2> SUFFICES ASSUME IInv, Drained, NEW t \in activeAtStart, run[t] # NoRun PROVE FALSE
    OBVIOUS
  <2>1. t \in Tasks /\ run[t].lane \in Lanes
    BY DEF IInv, TypeOK, Q!TypeOK, Q!Run
  <2>2. run[t].generation = generation[run[t].lane]
    BY DEF IInv, SnapshotCounts, Drained
  <2>3. t \in active[run[t].lane]
    BY <2>1, <2>2 DEF IInv, P!IInv, P!ActiveMatchesRuns
  <2> QED
    BY <2>1, <2>3 DEF Drained, Active
<1>2. IInv /\ [Next]_vars => [Drained => \A t \in activeAtStart : run[t] = NoRun]_vars
  BY <1>1
<1> QED
  BY <1>2, Invariance, PTL DEF Spec, InFlightTurnsFinish

-----------------------------------------------------------------------------
(* Signals that arrive while a server is up. *)

\* How the two strands take turns: the handler works while the loop waits, with
\* the server that the loop has left it; when it wakes the loop, nothing is left
\* of the server and the lanes take entries again.
Strands ==
  /\ loop = "starting" => phase = "none" /\ server = 0 /\ live = {} /\ ~gatewayDraining
  /\ loop = "up" => awaited
  /\ phase \in {"releasing", "reacquiring"} => server = 0 /\ live = {}
  /\ phase = "closing" => closing = server
  /\ Alive => live \subseteq {server, closing}
  /\ Alive /\ gatewayDraining => shuttingDown
  /\ NoLockWithoutServer

\* Steps that concern only the lanes, the runs or the wait of the handler.
LEMMA StrandsKept ==
  ASSUME Strands, UNCHANGED <<loop_vars, lock, closing, shuttingDown, gatewayDraining>>,
         phase' = phase
  PROVE  Strands'
BY DEF Strands, loop_vars, Alive, NoLockWithoutServer

\* Of the lane operations only the handler's touch the flag.
LEMMA LaneStepKeepsFlag == LaneStep => gatewayDraining' = gatewayDraining
BY DEF LaneStep, Q!Refuse, Q!Complete, Q!SettleRun, Q!Enqueue, Q!ClearCommandLane,
   Q!SyncStep, Q!PumpStart, Q!PumpEnd, Q!TaskYield, Q!DrainNext, Q!SyncThrow

\* The two strands take turns at every step, if no signal comes during a start().
LEMMA StrandsNext ==
  ASSUME SignalsWhile \subseteq {"up"}, IInv, Strands, [Next]_vars
  PROVE  Strands'
<1> USE DEF Alive, NoLockWithoutServer
<1>0. /\ 0 \notin live /\ (closing # 0 => phase = "closing")
      /\ starts # 0 /\ shuttingDown \in BOOLEAN /\ loop \in LoopStates
      /\ (shuttingDown <=> phase # "none")
  BY DEF IInv, TypeOK, HandlerInv
<1>1. CASE LaneStep
  BY <1>1, StrandsKept, LaneStepKeepsFlag DEF LaneStep, handler_vars
<1>2. CASE UNCHANGED vars
  BY <1>2, StrandsKept DEF vars, lane_vars, handler_vars
<1>3. ASSUME NEW t \in Tasks, SetActiveEmbeddedRun(t) \/ ClearActiveEmbeddedRun(t)
      PROVE  Strands'
  BY <1>3, StrandsKept DEF SetActiveEmbeddedRun, ClearActiveEmbeddedRun, lane_vars, handler_vars
<1>4. CASE RunsDrained
  BY <1>4, StrandsKept DEF RunsDrained, lane_vars
<1>5. CASE StartSucceeds
  <2>1. /\ phase = "none" /\ live = {} /\ ~gatewayDraining
        /\ loop' = "up" /\ server' = starts /\ live' = live \union {starts} /\ awaited'
    BY <1>5 DEF StartSucceeds, Strands
  <2>2. UNCHANGED <<phase, closing, shuttingDown, gatewayDraining, lock>>
    BY <1>5 DEF StartSucceeds, lane_vars, handler_vars
  <2> QED
    BY <1>0, <2>1, <2>2 DEF Strands
<1>6. CASE StartFails
  <2>1. /\ phase = "none" /\ live = {} /\ ~gatewayDraining
        /\ ~lock' /\ live' = live
    BY <1>6 DEF StartFails, Strands
  <2>2. loop' = "exited" \/ (loop' = "up" /\ awaited')
    BY <1>6 DEF StartFails
  <2>3. UNCHANGED <<phase, closing, shuttingDown, gatewayDraining>>
    BY <1>6 DEF StartFails, lane_vars, handler_vars
  <2> QED
    BY <2>1, <2>2, <2>3 DEF Strands
<1>7. CASE SigStop
  <2>1. /\ loop = "up" /\ shuttingDown' /\ phase' = "closing" /\ closing' = server
        /\ UNCHANGED <<loop_vars, gatewayDraining, lock>>
    BY <1>7 DEF SigStop, BeginClose, lane_vars
  <2> QED
    BY <1>0, <2>1 DEF Strands, loop_vars
<1>8. CASE SigRestart
  <2>1. loop = "up" /\ shuttingDown' /\ phase = "none" /\ UNCHANGED <<loop_vars, lock>>
    BY <1>0, <1>8 DEF SigRestart
  <2>2. \/ phase' = "closing" /\ closing' = server
        \/ phase' = "drain" /\ closing' = closing
    BY <1>8 DEF SigRestart, BeginClose
  <2> QED
    BY <1>0, <2>1, <2>2 DEF Strands, loop_vars
<1>9. CASE Drained \/ DrainTimeout
  <2>1. /\ phase = "drain" /\ phase' = "closing" /\ closing' = server /\ loop # "exited"
        /\ UNCHANGED <<loop_vars, shuttingDown, gatewayDraining, lock>>
    BY <1>9 DEF Drained, DrainTimeout, BeginClose, Turn, lane_vars
  <2> QED
    BY <1>0, <2>1 DEF Strands, loop_vars
<1>10. CASE Closed
  <2>1. /\ loop = "up" /\ shuttingDown /\ closing = server /\ live \subseteq {server, closing}
    BY <1>0, <1>10 DEF Closed, Turn, Strands, LoopStates
  <2>2. /\ phase' = "releasing" /\ server' = 0 /\ live' = {}
        /\ UNCHANGED <<loop, awaited, shuttingDown, gatewayDraining, lock>>
    BY <1>10, <2>1 DEF Closed, lane_vars
  <2> QED
    BY <2>1, <2>2 DEF Strands
<1>11. CASE ForceExit \/ ReleasedAndExit \/ ReacquireFails
  <2>1. /\ loop' = "exited"
        /\ UNCHANGED <<phase, server, live, closing, shuttingDown, gatewayDraining>>
    BY <1>11 DEF ForceExit, ReleasedAndExit, ReacquireFails, lane_vars, handler_vars
  <2> QED
    BY <2>1 DEF Strands
<1>12. ASSUME phase \in {"releasing", "reacquiring"}, Turn, WakeLoop PROVE Strands'
  <2>1. loop = "up" /\ awaited /\ server = 0 /\ live = {}
    BY <1>0, <1>12 DEF Strands, Turn, LoopStates
  <2>2. /\ loop' = "starting" /\ phase' = "none" /\ ~gatewayDraining'
        /\ server' = server /\ live' = live
    BY <1>12, <2>1 DEF WakeLoop, Q!ResetAllLanes
  <2> QED
    BY <2>1, <2>2 DEF Strands
<1>13. CASE ReleasedAndStay
  <2>1. CASE lock
    BY <1>0, <1>13, <2>1 DEF ReleasedAndStay, Strands, lane_vars, loop_vars
  <2>2. CASE ~lock
    BY <1>12, <1>13, <2>2 DEF ReleasedAndStay
  <2> QED
    BY <2>1, <2>2
<1>14. CASE Reacquired
  BY <1>12, <1>14 DEF Reacquired
<1> QED
  BY <1>1, <1>2, <1>3, <1>4, <1>5, <1>6, <1>7, <1>8, <1>9, <1>10, <1>11, <1>13, <1>14
  DEF Next, HandlerStep

\* The inductive invariant of the two strands.
THEOREM StrandsInvariance == ASSUME SignalsWhile \subseteq {"up"} PROVE Spec => []Strands
<1>1. Init => Strands
  BY DEF Init, Strands, Q!Init, NoLockWithoutServer
<1>2. IInv /\ Strands /\ [Next]_vars => Strands'
  BY StrandsNext
<1> QED
  BY <1>1, <1>2, Invariance, PTL DEF Spec

\* A gateway that serves and is not being restarted takes new work.
THEOREM TakesWork ==
  ASSUME SignalsWhile \subseteq {"up"} PROVE Spec => []RefusesOnlyDuringRestart
<1>1. Strands => RefusesOnlyDuringRestart
  BY DEF Strands, RefusesOnlyDuringRestart, Alive
<1> QED
  BY <1>1, StrandsInvariance, PTL

\* No server is lost with its port, however starts fail and handlers race.
THEOREM ServersKnown ==
  ASSUME SignalsWhile \subseteq {"up"} PROVE Spec => []NoLeakedServer
<1>1. IInv /\ Strands => NoLeakedServer
  BY DEF IInv, Strands, NoLeakedServer
<1> QED
  BY <1>1, Invariance, StrandsInvariance, PTL

\* A gateway without a server leaves the lock to the commands that manage it.
THEOREM LockLeft ==
  ASSUME SignalsWhile \subseteq {"up"} PROVE Spec => []NoLockWithoutServer
<1>1. Strands => NoLockWithoutServer
  BY DEF Strands
<1> QED
  BY <1>1, StrandsInvariance, PTL

=============================================================================
