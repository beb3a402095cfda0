------------------------- MODULE CommandLanesProofs -------------------------
(***************************************************************************)
(* Proofs about CommandLanes, for every set of lanes, every finite set of  *)
(* tasks and every value of the bounds.                                    *)
(***************************************************************************)
EXTENDS CommandLanes, FiniteSetTheorems, SequenceTheorems, TLAPS

-----------------------------------------------------------------------------
(* The inductive invariant: the checked invariants and what they rest on. *)

PumpOnStack(l) == \E i \in 1..Len(frames) : frames[i].lane = l

\* A drainLane call that finds draining set may leave its work to a pump that
\* is still on the stack.
DrainingHasPump == \A l \in Lanes : draining[l] => PumpOnStack(l)

\* NoStalledLane, in every state: while a lane has entries and free slots some
\* pump of it has not returned, or resetAllLanes is about to call one.
WakeUpOwed ==
  \A l \in Lanes : queue[l] # <<>> => Full(l) \/ PumpOnStack(l) \/ l \in toDrain

\* A task whose prefix is on the stack has its closure in flight.
PrefixInFlight ==
  \A i \in 1..Len(frames) :
    frames[i].task # NoTask => run[frames[i].task] # NoRun

\* It is on the stack once.
PrefixOnce ==
  \A i, j \in 1..Len(frames) :
    frames[i].task # NoTask /\ frames[i].task = frames[j].task => i = j

\* No run has a generation that its lane has not reached.
RunsNotFromFuture ==
  \A t \in Tasks : run[t] # NoRun => run[t].generation <= generation[run[t].lane]

IInv ==
  /\ TypeOK
  /\ PrefixInFlight
  /\ PrefixOnce
  /\ DrainingHasPump
  /\ WakeUpOwed
  /\ EveryEntryAccounted
  /\ RunsNotFromFuture
  /\ ActiveMatchesRuns

-----------------------------------------------------------------------------
(* The call stack: what replacing its top, pushing and popping leave. *)

LEMMA WithTopLemma ==
  ASSUME frames \in Seq(Frame), frames # <<>>, NEW t \in Tasks \union {NoTask}
  PROVE  /\ WithTop(t) \in Seq(Frame)
         /\ Len(WithTop(t)) = Len(frames)
         /\ \A i \in 1..Len(frames) : WithTop(t)[i].lane = frames[i].lane
         /\ \A i \in 1..Len(frames) :
              WithTop(t)[i].task = IF i = Len(frames) THEN t ELSE frames[i].task
<1> DEFINE n == Len(frames)
           e == [frames[n] EXCEPT !.task = t]
<1>1. n \in Nat \ {0} /\ frames[n] \in Frame /\ n \in 1..n
  BY EmptySeq, ElementOfSeq, LenProperties
<1>2. e \in Frame /\ e.lane = frames[n].lane /\ e.task = t
  BY <1>1 DEF Frame
<1>3. WithTop(t) = [frames EXCEPT ![n] = e]
  BY DEF WithTop
<1> HIDE DEF e
<1>4. /\ [frames EXCEPT ![n] = e] \in Seq(Frame)
      /\ Len([frames EXCEPT ![n] = e]) = Len(frames)
      /\ \A j \in 1..Len(frames) :
           [frames EXCEPT ![n] = e][j] = IF j = n THEN e ELSE frames[j]
  BY <1>1, <1>2, ExceptSeq
<1> QED BY <1>2, <1>3, <1>4

LEMMA PushLemma ==
  ASSUME NEW stack \in Seq(Frame), NEW l \in Lanes
  PROVE  /\ Push(stack, l) \in Seq(Frame)
         /\ Len(Push(stack, l)) = Len(stack) + 1
         /\ \A i \in 1..Len(stack) : Push(stack, l)[i].lane = stack[i].lane
         /\ \A i \in 1..Len(stack) : Push(stack, l)[i].task = stack[i].task
         /\ Push(stack, l)[Len(stack) + 1].lane = l
         /\ Push(stack, l)[Len(stack) + 1].task = NoTask
<1>1. [lane |-> l, task |-> NoTask] \in Frame
  BY DEF Frame
<1> QED BY <1>1, AppendProperties DEF Push

LEMMA PopLemma ==
  ASSUME frames \in Seq(Frame), frames # <<>>
  PROVE  /\ SubSeq(frames, 1, Len(frames) - 1) \in Seq(Frame)
         /\ Len(SubSeq(frames, 1, Len(frames) - 1)) = Len(frames) - 1
         /\ \A i \in 1..Len(frames) - 1 :
              SubSeq(frames, 1, Len(frames) - 1)[i] = frames[i]
<1>1. Len(frames) \in Nat \ {0}
  BY EmptySeq
<1>2. \A i \in 1..Len(frames) - 1 : frames[i] \in Frame
  BY <1>1, ElementOfSeq
<1> DEFINE n == Len(frames) - 1
<1>3. 1 \in Int /\ n \in Int /\ n \in Nat /\ \A i \in 1..n : frames[i] \in Frame
  BY <1>1, <1>2
<1> HIDE DEF n
<1>4. /\ SubSeq(frames, 1, n) \in Seq(Frame)
      /\ Len(SubSeq(frames, 1, n)) = IF 1 <= n THEN n - 1 + 1 ELSE 0
      /\ \A i \in 1..n - 1 + 1 : SubSeq(frames, 1, n)[i] = frames[1 + i - 1]
  BY <1>3, SubSeqProperties
<1>5. /\ Len(SubSeq(frames, 1, n)) = n
      /\ \A i \in 1..n : SubSeq(frames, 1, n)[i] = frames[i]
  BY <1>3, <1>4
<1> QED BY <1>4, <1>5 DEF n

LEMMA TopLemma ==
  ASSUME frames \in Seq(Frame), frames # <<>>
  PROVE  /\ Len(frames) \in Nat \ {0}
         /\ Top \in Frame
         /\ Top.lane \in Lanes
         /\ Top.task \in Tasks \union {NoTask}
<1>1. Len(frames) \in Nat \ {0}
  BY EmptySeq
<1>2. Top \in Frame
  BY <1>1, ElementOfSeq DEF Top
<1> QED BY <1>1, <1>2 DEF Frame

-----------------------------------------------------------------------------
(* Type correctness *)

LEMMA DrainLaneType ==
  ASSUME TypeOK, NEW l \in Lanes, DrainLane(l)
  PROVE  draining' \in [Lanes -> BOOLEAN] /\ frames' \in Seq(Frame)
<1>1. frames \in Seq(Frame) /\ draining \in [Lanes -> BOOLEAN]
  BY DEF TypeOK
<1>2. CASE draining[l]
  BY <1>1, <1>2 DEF DrainLane
<1>3. CASE ~draining[l]
  <2>1. frames' = Push(frames, l) /\ draining' = [draining EXCEPT ![l] = TRUE]
    BY <1>3 DEF DrainLane
  <2>2. Push(frames, l) \in Seq(Frame)
    BY <1>1, PushLemma
  <2> QED BY <1>1, <2>1, <2>2
<1> QED BY <1>2, <1>3

LEMMA SettleRunType ==
  ASSUME TypeOK, NEW t \in Tasks, run[t] # NoRun,
         NEW outcome \in {"resolved", "rejected"}, NEW stack \in Seq(Frame),
         SettleRun(t, outcome, stack)
  PROVE  TypeOK'
<1> DEFINE l == run[t].lane
<1>1. l \in Lanes
  BY DEF TypeOK, Run
<1>2. active' \in [Lanes -> SUBSET Tasks]
  <2>1. active \in [Lanes -> SUBSET Tasks]
    BY DEF TypeOK
  <2>2. active' = [active EXCEPT ![l] = @ \ {t}] \/ active' = active
    BY DEF SettleRun
  <2> QED BY <1>1, <2>1, <2>2
<1>3. frames' \in Seq(Frame)
  BY <1>1, PushLemma DEF SettleRun
<1>4. run' \in [Tasks -> Run \union {NoRun}] /\ promise' \in [Tasks -> Promise]
  BY DEF SettleRun, TypeOK, Promise, Settled
<1> QED BY <1>2, <1>3, <1>4 DEF SettleRun, TypeOK

LEMMA TypeInit == Init => TypeOK
<1> SUFFICES ASSUME Init PROVE TypeOK
  OBVIOUS
<1>1. <<>> \in Seq(Tasks) /\ <<>> \in Seq(Frame)
  BY EmptySeq
<1>2. 1 \in 1..MaxConcurrency /\ 0 \in 0..MaxGeneration
  BY LanesAssumption
<1> QED BY <1>1, <1>2 DEF Init, TypeOK, Promise

LEMMA TypeNext == TypeOK /\ PrefixInFlight /\ [Next]_vars => TypeOK'
<1> SUFFICES ASSUME TypeOK, PrefixInFlight, [Next]_vars PROVE TypeOK'
  OBVIOUS
<1> USE DEF TypeOK
<1>1. ASSUME NEW t \in Tasks, Refuse(t) PROVE TypeOK'
  BY <1>1 DEF Refuse, lane_vars, Promise, Settled
<1>2. ASSUME NEW t \in Tasks, Complete(t) PROVE TypeOK'
  BY <1>2, SettleRunType DEF Complete
<1>3. ASSUME NEW t \in Tasks, NEW l \in Lanes, Enqueue(t, l) PROVE TypeOK'
  <2>1. draining' \in [Lanes -> BOOLEAN] /\ frames' \in Seq(Frame)
    BY <1>3, DrainLaneType DEF Enqueue
  <2>2. queue' \in [Lanes -> Seq(Tasks)] /\ promise' \in [Tasks -> Promise]
    BY <1>3, AppendProperties DEF Enqueue, Promise
  <2> QED BY <1>3, <2>1, <2>2 DEF Enqueue
<1>4. CASE PumpStart
  <2> DEFINE l == Top.lane
             t == Head(queue[l])
  <2>1. l \in Lanes
    BY <1>4, TopLemma DEF PumpStart
  <2>2. t \in Tasks /\ Tail(queue[l]) \in Seq(Tasks)
    BY <1>4, <2>1, HeadTailProperties DEF PumpStart
  <2>3. frames' \in Seq(Frame)
    BY <1>4, <2>2, WithTopLemma DEF PumpStart
  <2>4. run' \in [Tasks -> Run \union {NoRun}]
    BY <1>4, <2>1, <2>2 DEF PumpStart, Run
  <2>5. queue' \in [Lanes -> Seq(Tasks)] /\ active' \in [Lanes -> SUBSET Tasks]
    BY <1>4, <2>1, <2>2 DEF PumpStart
  <2> QED BY <1>4, <2>3, <2>4, <2>5 DEF PumpStart
<1>5. CASE PumpEnd
  BY <1>5, PopLemma DEF PumpEnd
<1>6. CASE TaskYield
  BY <1>6, WithTopLemma DEF TaskYield, lane_vars
<1>7. CASE SyncThrow
  <2>0. frames \in Seq(Frame) /\ frames # <<>>
    BY <1>7 DEF SyncThrow
  <2>1. Top.task \in Tasks /\ WithTop(NoTask) \in Seq(Frame)
    BY <1>7, <2>0, TopLemma, WithTopLemma DEF SyncThrow
  <2>2. run[Top.task] # NoRun
    BY <1>7, <2>0, TopLemma DEF SyncThrow, PrefixInFlight, Top
  <2>3. SettleRun(Top.task, "rejected", WithTop(NoTask))
    BY <1>7 DEF SyncThrow
  <2> QED BY <2>1, <2>2, <2>3, SettleRunType
<1>8. ASSUME NEW l \in Lanes, ClearCommandLane(l) PROVE TypeOK'
  BY <1>8, EmptySeq DEF ClearCommandLane, Promise, Settled
<1>9. ASSUME NEW l \in Lanes, DrainNext(l) PROVE TypeOK'
  BY <1>9, DrainLaneType DEF DrainNext
<1>10. ASSUME NEW l \in Lanes, NEW n \in 1..MaxConcurrency,
              SetCommandLaneConcurrency(l, n)
       PROVE  TypeOK'
  BY <1>10, DrainLaneType DEF SetCommandLaneConcurrency
<1>11. CASE MarkGatewayDraining
  BY <1>11 DEF MarkGatewayDraining, lane_vars
<1>12. CASE ResetAllLanes
  <2>1. \A l \in Lanes : generation[l] + 1 \in 0..MaxGeneration
    BY <1>12, LanesAssumption DEF ResetAllLanes
  <2>2. generation' \in [Lanes -> 0..MaxGeneration]
    BY <1>12, <2>1 DEF ResetAllLanes
  <2>3. toDrain' \in SUBSET Lanes
    BY <1>12 DEF ResetAllLanes
  <2> QED BY <1>12, <2>2, <2>3 DEF ResetAllLanes
<1>13. CASE UNCHANGED vars
  BY <1>13 DEF vars
<1> QED
  BY <1>1, <1>2, <1>3, <1>4, <1>5, <1>6, <1>7, <1>8, <1>9, <1>10, <1>11, <1>12,
     <1>13 DEF Next

-----------------------------------------------------------------------------
(* What a step of the queue may do to the stack. *)

\* No task's prefix is put on the stack.
KeepsPrefixes ==
  \A i \in 1..Len(frames') :
    frames'[i].task # NoTask => /\ i \in 1..Len(frames)
                                /\ frames'[i].task = frames[i].task

KeepsPumps == \A l \in Lanes : PumpOnStack(l) => PumpOnStack(l)'

LEMMA PushStep ==
  ASSUME frames \in Seq(Frame), NEW l \in Lanes, frames' = Push(frames, l)
  PROVE  KeepsPrefixes /\ KeepsPumps /\ PumpOnStack(l)'
<1> DEFINE n == Len(frames)
<1>1. /\ n \in Nat
      /\ Len(frames') = n + 1
      /\ frames'[n + 1].lane = l
      /\ frames'[n + 1].task = NoTask
      /\ \A i \in 1..n : frames'[i].lane = frames[i].lane
      /\ \A i \in 1..n : frames'[i].task = frames[i].task
  BY PushLemma, LenProperties
<1> HIDE DEF n
<1>2. \A i \in 1..Len(frames') : i \in 1..n \/ i = n + 1
  BY <1>1
<1>3. KeepsPrefixes
  BY <1>1, <1>2 DEF KeepsPrefixes, n
<1>4. KeepsPumps
  BY <1>1 DEF KeepsPumps, PumpOnStack, n
<1>5. PumpOnStack(l)'
  BY <1>1 DEF PumpOnStack
<1> QED BY <1>3, <1>4, <1>5

LEMMA YieldStep ==
  ASSUME frames \in Seq(Frame), frames # <<>>, frames' = WithTop(NoTask)
  PROVE  /\ KeepsPrefixes
         /\ KeepsPumps
         /\ \A i \in 1..Len(frames') : frames'[i].task # NoTask => i # Len(frames)
<1>1. Len(frames) \in Nat \ {0} /\ Len(frames') = Len(frames)
  BY WithTopLemma, TopLemma
<1>2. \A i \in 1..Len(frames) :
        /\ frames'[i].lane = frames[i].lane
        /\ frames'[i].task = IF i = Len(frames) THEN NoTask ELSE frames[i].task
  BY WithTopLemma
<1> QED BY <1>1, <1>2 DEF KeepsPrefixes, KeepsPumps, PumpOnStack

\* SettleRun pushes on a stack that the prefix has left.
LEMMA ThrowStep ==
  ASSUME frames \in Seq(Frame), frames # <<>>, NEW l \in Lanes,
         frames' = Push(WithTop(NoTask), l)
  PROVE  /\ KeepsPrefixes
         /\ KeepsPumps
         /\ PumpOnStack(l)'
         /\ \A i \in 1..Len(frames') : frames'[i].task # NoTask => i # Len(frames)
<1> DEFINE n == Len(frames)
<1>1. n \in Nat \ {0}
  BY TopLemma
<1>2. /\ WithTop(NoTask) \in Seq(Frame)
      /\ Len(WithTop(NoTask)) = n
      /\ \A i \in 1..n :
           /\ WithTop(NoTask)[i].lane = frames[i].lane
           /\ WithTop(NoTask)[i].task = IF i = n THEN NoTask ELSE frames[i].task
  BY WithTopLemma
<1>3. /\ Len(frames') = n + 1
      /\ frames'[n + 1].lane = l
      /\ frames'[n + 1].task = NoTask
      /\ \A i \in 1..n : /\ frames'[i].lane = frames[i].lane
                         /\ frames'[i].task = IF i = n THEN NoTask ELSE frames[i].task
  BY <1>2, PushLemma
<1> HIDE DEF n
<1>4. \A i \in 1..Len(frames') : i \in 1..n \/ i = n + 1
  BY <1>1, <1>3
<1>5. \A i \in 1..n : i \in 1..Len(frames')
  BY <1>1, <1>3
<1>6. n + 1 \in 1..Len(frames')
  BY <1>1, <1>3
<1>7. KeepsPrefixes
  BY <1>3, <1>4 DEF KeepsPrefixes, n
<1>8. KeepsPumps
  BY <1>3, <1>5 DEF KeepsPumps, PumpOnStack, n
<1>9. PumpOnStack(l)'
  BY <1>3, <1>6 DEF PumpOnStack
<1>10. \A i \in 1..Len(frames') : frames'[i].task # NoTask => i # Len(frames)
  BY <1>1, <1>3, <1>4 DEF n
<1> QED BY <1>7, <1>8, <1>9, <1>10

LEMMA PopStep ==
  ASSUME frames \in Seq(Frame), frames # <<>>,
         frames' = SubSeq(frames, 1, Len(frames) - 1)
  PROVE  /\ KeepsPrefixes
         /\ \A l \in Lanes : l # Top.lane /\ PumpOnStack(l) => PumpOnStack(l)'
<1>1. /\ Len(frames) \in Nat \ {0}
      /\ Len(frames') = Len(frames) - 1
      /\ \A i \in 1..Len(frames') : frames'[i] = frames[i]
  BY PopLemma, TopLemma
<1>2. KeepsPrefixes
  BY <1>1 DEF KeepsPrefixes
<1>3. ASSUME NEW l \in Lanes, l # Top.lane, PumpOnStack(l)
      PROVE  PumpOnStack(l)'
  <2>1. PICK i \in 1..Len(frames) : frames[i].lane = l
    BY <1>3 DEF PumpOnStack
  <2>2. i \in 1..Len(frames')
    BY <1>1, <1>3, <2>1 DEF Top
  <2> QED BY <1>1, <2>1, <2>2 DEF PumpOnStack
<1> QED BY <1>2, <1>3

LEMMA DrainLaneStep ==
  ASSUME TypeOK, DrainingHasPump, NEW l \in Lanes, DrainLane(l)
  PROVE  KeepsPrefixes /\ KeepsPumps /\ PumpOnStack(l)' /\ DrainingHasPump'
<1>1. frames \in Seq(Frame) /\ draining \in [Lanes -> BOOLEAN]
  BY DEF TypeOK
<1>2. CASE draining[l]
  <2>1. frames' = frames /\ draining' = draining
    BY <1>2 DEF DrainLane
  <2>2. PumpOnStack(l)
    BY <1>2 DEF DrainingHasPump
  <2> QED BY <2>1, <2>2 DEF KeepsPrefixes, KeepsPumps, PumpOnStack, DrainingHasPump
<1>3. CASE ~draining[l]
  <2>1. frames' = Push(frames, l) /\ draining' = [draining EXCEPT ![l] = TRUE]
    BY <1>3 DEF DrainLane
  <2>2. KeepsPrefixes /\ KeepsPumps /\ PumpOnStack(l)'
    BY <1>1, <2>1, PushStep
  <2>3. \A m \in Lanes : draining'[m] => m = l \/ draining[m]
    BY <1>1, <2>1
  <2> QED BY <2>2, <2>3 DEF DrainingHasPump, KeepsPumps
<1> QED BY <1>2, <1>3

\* A step that puts no prefix on the stack and leaves the runs of those that
\* stay keeps both invariants of prefixes.
LEMMA PrefixesKept ==
  ASSUME PrefixInFlight, PrefixOnce, KeepsPrefixes,
         \A i \in 1..Len(frames') :
           frames'[i].task # NoTask => run'[frames'[i].task] = run[frames'[i].task]
  PROVE  PrefixInFlight' /\ PrefixOnce'
BY DEF PrefixInFlight, PrefixOnce, KeepsPrefixes

-----------------------------------------------------------------------------
(* The synchronous prefixes on the stack *)

LEMMA PrefixNext ==
  IInv /\ [Next]_vars => PrefixInFlight' /\ PrefixOnce'
<1> SUFFICES ASSUME IInv, [Next]_vars PROVE PrefixInFlight' /\ PrefixOnce'
  OBVIOUS
<1> USE DEF IInv
<1>0. frames \in Seq(Frame) /\ run \in [Tasks -> Run \union {NoRun}]
  BY DEF TypeOK
<1>1. ASSUME NEW t \in Tasks, Refuse(t) PROVE PrefixInFlight' /\ PrefixOnce'
  BY <1>1 DEF Refuse, PrefixInFlight, PrefixOnce
<1>2. ASSUME NEW t \in Tasks, Complete(t) PROVE PrefixInFlight' /\ PrefixOnce'
  <2>1. frames = <<>> /\ Len(frames) = 0 /\ run[t].lane \in Lanes
    BY <1>0, <1>2, EmptySeq DEF Complete, Idle, Run
  <2>2. frames' = frames \/ frames' = Push(frames, run[t].lane)
    BY <1>2 DEF Complete, SettleRun
  <2>3. KeepsPrefixes
    BY <1>0, <2>1, <2>2, PushStep DEF KeepsPrefixes
  <2>4. \A i \in 1..Len(frames') : frames'[i].task = NoTask
    BY <2>1, <2>3 DEF KeepsPrefixes
  <2> QED BY <2>3, <2>4, PrefixesKept
<1>3. ASSUME NEW t \in Tasks, NEW l \in Lanes, Enqueue(t, l)
      PROVE  PrefixInFlight' /\ PrefixOnce'
  BY <1>3, DrainLaneStep, PrefixesKept DEF Enqueue
<1>4. CASE PumpStart
  <2> DEFINE l == Top.lane
             t == Head(queue[l])
             n == Len(frames)
  <2>1. l \in Lanes /\ n \in Nat \ {0}
    BY <1>0, <1>4, TopLemma DEF PumpStart
  <2>2. queue[l] \in Seq(Tasks) /\ queue[l] # <<>>
    BY <1>4, <2>1 DEF PumpStart, TypeOK
  <2>3. t \in Tasks /\ t = queue[l][1] /\ 1 \in DOMAIN queue[l]
    BY <2>2, HeadTailProperties, EmptySeq, LenProperties
  <2>4. run[t] = NoRun
    BY <2>1, <2>3 DEF EveryEntryAccounted, Queued, Holds
  <2>5. /\ Len(frames') = n
        /\ \A i \in 1..n : frames'[i].task = IF i = n THEN t ELSE frames[i].task
    BY <1>0, <1>4, <2>3, WithTopLemma DEF PumpStart
  <2>6. run' = [run EXCEPT ![t] = [lane |-> l, generation |-> generation[l]]]
    BY <1>4 DEF PumpStart
  <2>7. [lane |-> l, generation |-> generation[l]] # NoRun
    BY <2>1, LanesAssumption DEF TypeOK
  <2>8. \A u \in Tasks : run[u] # NoRun => run'[u] # NoRun
    BY <1>0, <2>6, <2>7
  <2>9. run'[t] # NoRun
    BY <1>0, <2>3, <2>6, <2>7
  <2>10. \A i \in 1..n : frames[i].task # NoTask => /\ frames[i].task \in Tasks
                                                    /\ run[frames[i].task] # NoRun
    <3>1. \A i \in 1..n : frames[i] \in Frame
      BY <1>0, ElementOfSeq
    <3> QED BY <3>1 DEF PrefixInFlight, Frame
  <2>11. t # NoTask
    BY <2>3, LanesAssumption
  <2> HIDE DEF l, t, n
  <2>12. PrefixInFlight'
    BY <2>5, <2>8, <2>9, <2>10 DEF PrefixInFlight
  <2>13. \A i \in 1..n : frames[i].task # NoTask => frames[i].task # t
    BY <2>4, <2>10
  <2>14. PrefixOnce'
    BY <2>5, <2>11, <2>13 DEF PrefixOnce, n
  <2> QED BY <2>12, <2>14
<1>5. CASE PumpEnd
  BY <1>0, <1>5, PopStep, PrefixesKept DEF PumpEnd
<1>6. CASE TaskYield
  BY <1>0, <1>6, YieldStep, PrefixesKept DEF TaskYield
<1>7. CASE SyncThrow
  <2> DEFINE t == Top.task
             n == Len(frames)
  <2>1. frames # <<>> /\ t # NoTask
    BY <1>7 DEF SyncThrow
  <2>2. t \in Tasks /\ n \in Nat \ {0} /\ t = frames[n].task
    BY <1>0, <2>1, TopLemma DEF Top
  <2>3. run[t] # NoRun
    BY <2>1, <2>2 DEF PrefixInFlight
  <2>4. run[t].lane \in Lanes
    BY <1>0, <2>2, <2>3 DEF Run
  <2>5. /\ frames' = WithTop(NoTask) \/ frames' = Push(WithTop(NoTask), run[t].lane)
        /\ run' = [run EXCEPT ![t] = NoRun]
    BY <1>7 DEF SyncThrow, SettleRun
  <2>6. /\ KeepsPrefixes
        /\ \A i \in 1..Len(frames') : frames'[i].task # NoTask => i # n
    BY <1>0, <2>1, <2>4, <2>5, YieldStep, ThrowStep
  <2> HIDE DEF t, n
  <2>7. \A i \in 1..Len(frames') : frames'[i].task # NoTask => frames'[i].task # t
    BY <2>1, <2>2, <2>6 DEF KeepsPrefixes, PrefixOnce, n
  <2>8. \A i \in 1..Len(frames') :
          frames'[i].task # NoTask => run'[frames'[i].task] = run[frames'[i].task]
    BY <1>0, <2>5, <2>7
  <2> QED BY <2>6, <2>8, PrefixesKept
<1>8. ASSUME NEW l \in Lanes, ClearCommandLane(l)
      PROVE  PrefixInFlight' /\ PrefixOnce'
  BY <1>8 DEF ClearCommandLane, PrefixInFlight, PrefixOnce
<1>9. ASSUME NEW l \in Lanes, DrainNext(l)
      PROVE  PrefixInFlight' /\ PrefixOnce'
  BY <1>9, DrainLaneStep, PrefixesKept DEF DrainNext
<1>10. ASSUME NEW l \in Lanes, NEW n \in 1..MaxConcurrency,
              SetCommandLaneConcurrency(l, n)
       PROVE  PrefixInFlight' /\ PrefixOnce'
  BY <1>10, DrainLaneStep, PrefixesKept DEF SetCommandLaneConcurrency
<1>11. CASE MarkGatewayDraining
  BY <1>11 DEF MarkGatewayDraining, PrefixInFlight, PrefixOnce
<1>12. CASE ResetAllLanes
  BY <1>12 DEF ResetAllLanes, PrefixInFlight, PrefixOnce
<1>13. CASE UNCHANGED vars
  BY <1>13 DEF vars, PrefixInFlight, PrefixOnce
<1> QED
  BY <1>1, <1>2, <1>3, <1>4, <1>5, <1>6, <1>7, <1>8, <1>9, <1>10, <1>11, <1>12,
     <1>13 DEF Next

-----------------------------------------------------------------------------
(* The wake-ups *)

LEMMA DrainingNext == IInv /\ [Next]_vars => DrainingHasPump'
<1> SUFFICES ASSUME IInv, [Next]_vars PROVE DrainingHasPump'
  OBVIOUS
<1> USE DEF IInv
<1>0. frames \in Seq(Frame) /\ draining \in [Lanes -> BOOLEAN]
      /\ run \in [Tasks -> Run \union {NoRun}]
  BY DEF TypeOK
<1>a. ASSUME KeepsPumps, draining' = draining PROVE DrainingHasPump'
  BY <1>a DEF DrainingHasPump, KeepsPumps
<1>b. ASSUME frames' = frames PROVE KeepsPumps
  BY <1>b DEF KeepsPumps, PumpOnStack
<1>1. ASSUME NEW t \in Tasks, Refuse(t) PROVE DrainingHasPump'
  BY <1>1, <1>a, <1>b DEF Refuse, lane_vars
<1>2. ASSUME NEW t \in Tasks, Complete(t) PROVE DrainingHasPump'
  <2>1. run[t].lane \in Lanes
    BY <1>0, <1>2 DEF Complete, Run
  <2>2. /\ frames' = frames \/ frames' = Push(frames, run[t].lane)
        /\ draining' = draining
    BY <1>2 DEF Complete, SettleRun
  <2> QED BY <1>0, <1>a, <1>b, <2>1, <2>2, PushStep
<1>3. ASSUME NEW t \in Tasks, NEW l \in Lanes, Enqueue(t, l) PROVE DrainingHasPump'
  BY <1>3, DrainLaneStep DEF Enqueue
<1>4. CASE PumpStart
  <2>1. Head(queue[Top.lane]) \in Tasks
    BY <1>0, <1>4, TopLemma, HeadTailProperties DEF PumpStart, TypeOK
  <2>2. KeepsPumps
    BY <1>0, <1>4, <2>1, WithTopLemma DEF PumpStart, KeepsPumps, PumpOnStack
  <2> QED BY <1>4, <1>a, <2>2 DEF PumpStart
<1>5. CASE PumpEnd
  <2>1. Top.lane \in Lanes
    BY <1>0, <1>5, TopLemma DEF PumpEnd
  <2>2. draining' = [draining EXCEPT ![Top.lane] = FALSE]
    BY <1>5 DEF PumpEnd
  <2>3. \A l \in Lanes : draining'[l] => l # Top.lane /\ draining[l]
    BY <1>0, <2>1, <2>2
  <2>4. \A l \in Lanes : l # Top.lane /\ PumpOnStack(l) => PumpOnStack(l)'
    BY <1>0, <1>5, PopStep DEF PumpEnd
  <2> QED BY <2>3, <2>4 DEF DrainingHasPump
<1>6. CASE TaskYield
  BY <1>0, <1>6, <1>a, YieldStep DEF TaskYield, lane_vars
<1>7. CASE SyncThrow
  <2>1. frames # <<>> /\ Top.task \in Tasks /\ run[Top.task] # NoRun
    BY <1>0, <1>7, TopLemma DEF SyncThrow, Top, PrefixInFlight
  <2>2. run[Top.task].lane \in Lanes
    BY <1>0, <2>1 DEF Run
  <2>3. /\ \/ frames' = WithTop(NoTask)
           \/ frames' = Push(WithTop(NoTask), run[Top.task].lane)
        /\ draining' = draining
    BY <1>7 DEF SyncThrow, SettleRun
  <2> QED BY <1>0, <1>a, <2>1, <2>2, <2>3, YieldStep, ThrowStep
<1>8. ASSUME NEW l \in Lanes, ClearCommandLane(l) PROVE DrainingHasPump'
  BY <1>8, <1>a, <1>b DEF ClearCommandLane
<1>9. ASSUME NEW l \in Lanes, DrainNext(l) PROVE DrainingHasPump'
  BY <1>9, DrainLaneStep DEF DrainNext
<1>10. ASSUME NEW l \in Lanes, NEW n \in 1..MaxConcurrency,
              SetCommandLaneConcurrency(l, n)
       PROVE  DrainingHasPump'
  BY <1>10, DrainLaneStep DEF SetCommandLaneConcurrency
<1>11. CASE MarkGatewayDraining
  BY <1>11, <1>a, <1>b DEF MarkGatewayDraining, lane_vars
<1>12. CASE ResetAllLanes
  BY <1>12 DEF ResetAllLanes, DrainingHasPump
<1>13. CASE UNCHANGED vars
  BY <1>13, <1>a, <1>b DEF vars
<1> QED
  BY <1>1, <1>2, <1>3, <1>4, <1>5, <1>6, <1>7, <1>8, <1>9, <1>10, <1>11, <1>12,
     <1>13 DEF Next

LEMMA WakeUpNext == IInv /\ [Next]_vars => WakeUpOwed'
<1> SUFFICES ASSUME IInv, [Next]_vars PROVE WakeUpOwed'
  OBVIOUS
<1> USE DEF IInv
<1>0. /\ frames \in Seq(Frame)
      /\ queue \in [Lanes -> Seq(Tasks)]
      /\ run \in [Tasks -> Run \union {NoRun}]
      /\ active \in [Lanes -> SUBSET Tasks]
      /\ maxConcurrent \in [Lanes -> 1..MaxConcurrency]
  BY DEF TypeOK
<1>b. ASSUME frames' = frames PROVE KeepsPumps
  BY <1>b DEF KeepsPumps, PumpOnStack
\* It is enough that the pumps stay and that every lane that gained entries or
\* a free slot has one.
<1>c. ASSUME KeepsPumps, toDrain' = toDrain,
             \A l \in Lanes :
               \/ PumpOnStack(l)'
               \/ /\ queue'[l] = queue[l] \/ queue'[l] = <<>>
                  /\ active'[l] = active[l]
                  /\ maxConcurrent'[l] = maxConcurrent[l]
      PROVE  WakeUpOwed'
  BY <1>c DEF WakeUpOwed, KeepsPumps, Full
<1>1. ASSUME NEW t \in Tasks, Refuse(t) PROVE WakeUpOwed'
  BY <1>1, <1>b, <1>c DEF Refuse, lane_vars
<1>2. ASSUME NEW t \in Tasks, NEW outcome \in {"resolved", "rejected"},
             NEW stack \in Seq(Frame), run[t] # NoRun, SettleRun(t, outcome, stack),
             frames' = stack => KeepsPumps,
             \A l \in Lanes : frames' = Push(stack, l) => KeepsPumps /\ PumpOnStack(l)'
      PROVE  WakeUpOwed'
  <2>1. PICK l \in Lanes : l = run[t].lane
    BY <1>0, <1>2 DEF Run
  <2>2. queue' = queue /\ maxConcurrent' = maxConcurrent /\ toDrain' = toDrain
    BY <1>2 DEF SettleRun
  <2>3. CASE run[t].generation = generation[run[t].lane]
    <3>1. /\ active' = [active EXCEPT ![l] = @ \ {t}]
          /\ frames' = Push(stack, l)
      BY <1>2, <2>1, <2>3 DEF SettleRun
    <3>2. KeepsPumps /\ PumpOnStack(l)'
      BY <1>2, <2>1, <3>1
    <3>3. \A m \in Lanes : m # l => active'[m] = active[m]
      BY <1>0, <3>1
    <3> QED BY <1>c, <2>2, <3>2, <3>3
  <2>4. CASE run[t].generation # generation[run[t].lane]
    <3>1. active' = active /\ frames' = stack
      BY <1>2, <2>4 DEF SettleRun
    <3> QED BY <1>2, <1>c, <2>2, <3>1
  <2> QED BY <2>3, <2>4
<1>3. ASSUME NEW t \in Tasks, Complete(t) PROVE WakeUpOwed'
  <2>1. PICK outcome \in {"resolved", "rejected"} : SettleRun(t, outcome, frames)
    BY <1>3 DEF Complete
  <2>2. run[t] # NoRun
    BY <1>3 DEF Complete
  <2>3. \A l \in Lanes : frames' = Push(frames, l) => KeepsPumps /\ PumpOnStack(l)'
    BY <1>0, PushStep
  <2> QED BY <1>0, <1>2, <1>b, <2>1, <2>2, <2>3
<1>4. ASSUME NEW t \in Tasks, NEW l \in Lanes, Enqueue(t, l) PROVE WakeUpOwed'
  <2>1. KeepsPumps /\ PumpOnStack(l)'
    BY <1>4, DrainLaneStep DEF Enqueue
  <2>2. /\ active' = active /\ maxConcurrent' = maxConcurrent /\ toDrain' = toDrain
        /\ queue' = [queue EXCEPT ![l] = Append(@, t)]
    BY <1>4 DEF Enqueue
  <2>3. \A m \in Lanes : m # l => queue'[m] = queue[m]
    BY <1>0, <2>2
  <2> QED BY <1>c, <2>1, <2>2, <2>3
<1>5. CASE PumpStart
  <2> DEFINE t == Head(queue[Top.lane])
  <2>1. t \in Tasks /\ Top.lane \in Lanes
    BY <1>0, <1>5, TopLemma, HeadTailProperties DEF PumpStart
  <2>2. /\ frames # <<>> /\ frames' = WithTop(t)
        /\ queue' = [queue EXCEPT ![Top.lane] = Tail(@)]
        /\ active' = [active EXCEPT ![Top.lane] = @ \union {t}]
        /\ maxConcurrent' = maxConcurrent /\ toDrain' = toDrain
    BY <1>5 DEF PumpStart
  <2> HIDE DEF t
  <2>3. /\ Len(frames') = Len(frames) /\ Len(frames) \in Nat \ {0}
        /\ \A i \in 1..Len(frames) : frames'[i].lane = frames[i].lane
    BY <1>0, <2>1, <2>2, WithTopLemma, TopLemma
  <2>4. KeepsPumps
    BY <2>3 DEF KeepsPumps, PumpOnStack
  <2>5. PumpOnStack(Top.lane)
    BY <2>3 DEF PumpOnStack, Top
  <2>6. \A l \in Lanes : l # Top.lane => queue'[l] = queue[l] /\ active'[l] = active[l]
    BY <1>0, <2>2
  <2>7. \A l \in Lanes : l = Top.lane => PumpOnStack(l)'
    BY <2>1, <2>4, <2>5 DEF KeepsPumps
  <2> QED BY <1>c, <2>2, <2>4, <2>6, <2>7
<1>6. CASE PumpEnd
  <2>1. \A l \in Lanes : l # Top.lane /\ PumpOnStack(l) => PumpOnStack(l)'
    BY <1>0, <1>6, PopStep DEF PumpEnd
  <2>2. /\ queue' = queue /\ active' = active /\ maxConcurrent' = maxConcurrent
        /\ toDrain' = toDrain
        /\ Full(Top.lane) \/ queue[Top.lane] = <<>>
    BY <1>6 DEF PumpEnd
  <2>3. \A l \in Lanes : Full(l)' <=> Full(l)
    BY <2>2 DEF Full
  <2> QED BY <2>1, <2>2, <2>3 DEF WakeUpOwed
<1>7. CASE TaskYield
  BY <1>0, <1>7, <1>c, YieldStep DEF TaskYield, lane_vars
<1>8. CASE SyncThrow
  <2>1. frames # <<>> /\ Top.task \in Tasks /\ run[Top.task] # NoRun
    BY <1>0, <1>8, TopLemma DEF SyncThrow, Top, PrefixInFlight
  <2>2. WithTop(NoTask) \in Seq(Frame)
    BY <1>0, <2>1, WithTopLemma
  <2>3. SettleRun(Top.task, "rejected", WithTop(NoTask))
    BY <1>8 DEF SyncThrow
  <2>4. /\ frames' = WithTop(NoTask) => KeepsPumps
        /\ \A l \in Lanes :
             frames' = Push(WithTop(NoTask), l) => KeepsPumps /\ PumpOnStack(l)'
    BY <1>0, <2>1, YieldStep, ThrowStep
  <2> QED BY <1>2, <2>1, <2>2, <2>3, <2>4
<1>9. ASSUME NEW l \in Lanes, ClearCommandLane(l) PROVE WakeUpOwed'
  <2>1. queue' = [queue EXCEPT ![l] = <<>>]
    BY <1>9 DEF ClearCommandLane
  <2>2. \A m \in Lanes : queue'[m] = queue[m] \/ queue'[m] = <<>>
    BY <1>0, <2>1
  <2>3. /\ frames' = frames /\ toDrain' = toDrain
        /\ active' = active /\ maxConcurrent' = maxConcurrent
    BY <1>9 DEF ClearCommandLane
  <2> QED BY <1>b, <1>c, <2>2, <2>3
<1>10. ASSUME NEW l \in Lanes, DrainNext(l) PROVE WakeUpOwed'
  <2>1. KeepsPumps /\ PumpOnStack(l)'
    BY <1>10, DrainLaneStep DEF DrainNext
  <2>2. /\ queue' = queue /\ active' = active /\ maxConcurrent' = maxConcurrent
        /\ toDrain' = toDrain \ {l}
    BY <1>10 DEF DrainNext
  <2>3. \A m \in Lanes : Full(m)' <=> Full(m)
    BY <2>2 DEF Full
  <2> QED BY <2>1, <2>2, <2>3 DEF WakeUpOwed, KeepsPumps
<1>11. ASSUME NEW l \in Lanes, NEW n \in 1..MaxConcurrency,
              SetCommandLaneConcurrency(l, n)
       PROVE  WakeUpOwed'
  <2>1. KeepsPumps /\ PumpOnStack(l)'
    BY <1>11, DrainLaneStep DEF SetCommandLaneConcurrency
  <2>2. /\ queue' = queue /\ active' = active /\ toDrain' = toDrain
        /\ \A m \in Lanes : m # l => maxConcurrent'[m] = maxConcurrent[m]
    BY <1>0, <1>11 DEF SetCommandLaneConcurrency
  <2> QED BY <1>c, <2>1, <2>2
<1>12. CASE MarkGatewayDraining
  BY <1>12, <1>b, <1>c DEF MarkGatewayDraining, lane_vars
<1>13. CASE ResetAllLanes
  BY <1>13 DEF ResetAllLanes, WakeUpOwed
<1>14. CASE UNCHANGED vars
  BY <1>14, <1>b, <1>c DEF vars
<1> QED
  BY <1>1, <1>3, <1>4, <1>5, <1>6, <1>7, <1>8, <1>9, <1>10, <1>11, <1>12,
     <1>13, <1>14 DEF Next

-----------------------------------------------------------------------------
(* The entries of a queue *)

Once(entries) ==
  \A i, j \in DOMAIN entries : entries[i] = entries[j] => i = j

LEMMA AppendHolds ==
  ASSUME NEW s \in Seq(Tasks), NEW t \in Tasks
  PROVE  /\ \A u \in Tasks : Holds(Append(s, t), u) <=> Holds(s, u) \/ u = t
         /\ Once(s) /\ ~Holds(s, t) => Once(Append(s, t))
<1> DEFINE a == Append(s, t)
           n == Len(s)
<1>1. /\ n \in Nat /\ DOMAIN s = 1..n /\ DOMAIN a = 1..(n + 1)
      /\ \A i \in 1..n : a[i] = s[i]
      /\ a[n + 1] = t
  BY AppendProperties, LenProperties
<1> HIDE DEF a, n
<1>2. \A i \in 1..(n + 1) : i \in 1..n \/ i = n + 1
  BY <1>1
<1>3. \A i \in 1..n : i \in 1..(n + 1)
  BY <1>1
<1>4. n + 1 \in 1..(n + 1)
  BY <1>1
<1>5. \A u \in Tasks : Holds(a, u) <=> Holds(s, u) \/ u = t
  BY <1>1, <1>2, <1>3, <1>4 DEF Holds
<1>6. ASSUME Once(s), ~Holds(s, t) PROVE Once(a)
  BY <1>1, <1>2, <1>6 DEF Holds, Once
<1> QED BY <1>5, <1>6 DEF a

LEMMA TailHolds ==
  ASSUME NEW s \in Seq(Tasks), s # <<>>, Once(s)
  PROVE  /\ \A u \in Tasks : Holds(Tail(s), u) <=> Holds(s, u) /\ u # Head(s)
         /\ Once(Tail(s))
         /\ Head(s) \in Tasks
         /\ Holds(s, Head(s))
<1> DEFINE b == Tail(s)
           n == Len(s)
           h == Head(s)
<1>1. /\ n \in Nat \ {0} /\ DOMAIN s = 1..n
      /\ h = s[1] /\ h \in Tasks
      /\ b \in Seq(Tasks) /\ Len(b) = n - 1
      /\ \A i \in 1..(n - 1) : b[i] = s[i + 1]
  BY HeadTailProperties, LenProperties, EmptySeq
<1>2. DOMAIN b = 1..(n - 1)
  BY <1>1, LenProperties
<1> HIDE DEF b, n, h
<1>3. \A i \in 1..(n - 1) : i + 1 \in 1..n /\ i + 1 # 1
  BY <1>1
<1>4. \A i \in 1..n : i # 1 => i - 1 \in 1..(n - 1) /\ (i - 1) + 1 = i
  BY <1>1
<1>5. 1 \in 1..n
  BY <1>1
<1>6. ASSUME NEW u \in Tasks, Holds(b, u) PROVE Holds(s, u) /\ u # h
  <2>1. PICK i \in 1..(n - 1) : b[i] = u
    BY <1>2, <1>6 DEF Holds
  <2>2. s[i + 1] = u
    BY <1>1, <2>1
  <2> QED BY <1>1, <1>3, <1>5, <2>2 DEF Holds, Once
<1>7. ASSUME NEW u \in Tasks, Holds(s, u), u # h PROVE Holds(b, u)
  <2>1. PICK i \in 1..n : s[i] = u
    BY <1>1, <1>7 DEF Holds
  <2>2. i - 1 \in 1..(n - 1) /\ b[i - 1] = u
    BY <1>1, <1>4, <1>7, <2>1
  <2> QED BY <1>2, <2>2 DEF Holds
<1>8. Once(b)
  <2> SUFFICES ASSUME NEW i \in 1..(n - 1), NEW j \in 1..(n - 1), b[i] = b[j]
               PROVE  i = j
    BY <1>2 DEF Once
  <2>1. s[i + 1] = s[j + 1]
    BY <1>1
  <2>2. i + 1 = j + 1
    BY <1>1, <1>3, <2>1 DEF Once
  <2> QED BY <1>1, <2>2
<1>9. Holds(s, h)
  BY <1>1, <1>5 DEF Holds
<1> QED BY <1>1, <1>6, <1>7, <1>8, <1>9 DEF b, h

-----------------------------------------------------------------------------
(* The entries and their callers *)

LEMMA AccountedNext == IInv /\ [Next]_vars => EveryEntryAccounted'
<1> SUFFICES ASSUME IInv, [Next]_vars PROVE EveryEntryAccounted'
  OBVIOUS
<1> USE DEF IInv
<1>0. /\ queue \in [Lanes -> Seq(Tasks)]
      /\ run \in [Tasks -> Run \union {NoRun}]
      /\ promise \in [Tasks -> Promise]
      /\ frames \in Seq(Frame)
  BY DEF TypeOK
\* The invariant once more, with the operators of the lemmas above.
<1>a. /\ \A t \in Tasks : promise[t] = "pending" <=> (Queued(t) \/ run[t] # NoRun)
      /\ \A t \in Tasks : ~(Queued(t) /\ run[t] # NoRun)
      /\ \A l, m \in Lanes : \A t \in Tasks :
           Holds(queue[l], t) /\ Holds(queue[m], t) => l = m
      /\ \A l \in Lanes : Once(queue[l])
  BY DEF EveryEntryAccounted, Once
<1>b. ASSUME queue' = queue,
             \A u \in Tasks : (promise'[u] = "pending") <=> (promise[u] = "pending"),
             \A u \in Tasks : (run'[u] = NoRun) <=> (run[u] = NoRun)
      PROVE  EveryEntryAccounted'
  BY <1>b DEF EveryEntryAccounted, Queued, Holds
<1>1. ASSUME NEW t \in Tasks, Refuse(t) PROVE EveryEntryAccounted'
  <2>1. /\ queue' = queue /\ run' = run /\ promise[t] = "none"
        /\ promise' = [promise EXCEPT ![t] = "refused"]
    BY <1>1 DEF Refuse, lane_vars
  <2>2. \A u \in Tasks : (promise'[u] = "pending") <=> (promise[u] = "pending")
    BY <1>0, <2>1
  <2> QED BY <1>b, <2>1, <2>2
<1>2. ASSUME NEW t \in Tasks, NEW outcome \in {"resolved", "rejected"}, NEW stack,
             run[t] # NoRun, SettleRun(t, outcome, stack)
      PROVE  EveryEntryAccounted'
  <2>1. /\ queue' = queue
        /\ run' = [run EXCEPT ![t] = NoRun]
        /\ promise' = [promise EXCEPT ![t] = outcome]
    BY <1>2 DEF SettleRun
  <2>2. \A u \in Tasks : u # t => run'[u] = run[u] /\ promise'[u] = promise[u]
    BY <1>0, <2>1
  <2>3. run'[t] = NoRun /\ promise'[t] # "pending"
    BY <1>0, <2>1
  <2>4. ~Queued(t)
    BY <1>2, <1>a
  <2>5. \A u \in Tasks : Queued(u)' <=> Queued(u)
    BY <2>1 DEF Queued, Holds
  <2>6. \A u \in Tasks : promise'[u] = "pending" <=> (Queued(u)' \/ run'[u] # NoRun)
    BY <1>a, <2>2, <2>3, <2>4, <2>5
  <2>7. \A u \in Tasks : ~(Queued(u)' /\ run'[u] # NoRun)
    BY <1>a, <2>2, <2>3, <2>5
  <2> QED BY <1>a, <2>1, <2>6, <2>7 DEF EveryEntryAccounted, Holds
<1>3. ASSUME NEW t \in Tasks, Complete(t) PROVE EveryEntryAccounted'
  BY <1>2, <1>3 DEF Complete
<1>4. ASSUME NEW t \in Tasks, NEW l \in Lanes, Enqueue(t, l)
      PROVE  EveryEntryAccounted'
  <2>1. /\ promise[t] = "none" /\ run' = run
        /\ promise' = [promise EXCEPT ![t] = "pending"]
        /\ queue' = [queue EXCEPT ![l] = Append(@, t)]
    BY <1>4 DEF Enqueue
  <2>2. ~Queued(t) /\ run[t] = NoRun
    BY <1>a, <2>1
  <2>3. /\ queue[l] \in Seq(Tasks) /\ queue'[l] = Append(queue[l], t)
        /\ \A m \in Lanes : m # l => queue'[m] = queue[m]
    BY <1>0, <2>1
  <2>4. \A m \in Lanes : ~Holds(queue[m], t)
    BY <2>2 DEF Queued
  <2>5. /\ \A u \in Tasks : Holds(Append(queue[l], t), u) <=> Holds(queue[l], u) \/ u = t
        /\ Once(Append(queue[l], t))
    BY <1>a, <2>3, <2>4, AppendHolds
  <2>6. \A m \in Lanes, u \in Tasks :
          Holds(queue'[m], u) <=> Holds(queue[m], u) \/ (m = l /\ u = t)
    BY <2>3, <2>5
  <2>7. \A u \in Tasks : Queued(u)' <=> Queued(u) \/ u = t
    BY <2>6 DEF Queued, Holds
  <2>8. \A u \in Tasks : promise'[u] = "pending" <=> promise[u] = "pending" \/ u = t
    BY <1>0, <2>1
  <2>9. \A u \in Tasks : promise'[u] = "pending" <=> (Queued(u)' \/ run'[u] # NoRun)
    BY <1>a, <2>1, <2>7, <2>8
  <2>10. \A u \in Tasks : ~(Queued(u)' /\ run'[u] # NoRun)
    BY <1>a, <2>1, <2>2, <2>7
  <2>11. \A k, m \in Lanes : \A u \in Tasks :
           Holds(queue'[k], u) /\ Holds(queue'[m], u) => k = m
    BY <1>a, <2>4, <2>6
  <2>12. \A m \in Lanes : Once(queue'[m])
    BY <1>a, <2>3, <2>5
  <2> QED BY <2>9, <2>10, <2>11, <2>12 DEF EveryEntryAccounted, Holds, Once
<1>5. CASE PumpStart
  <2> DEFINE t == Head(queue[Top.lane])
             r == [lane |-> Top.lane, generation |-> generation[Top.lane]]
  <2>1. PICK l \in Lanes : l = Top.lane
    BY <1>0, <1>5, TopLemma DEF PumpStart
  <2>2. queue[l] \in Seq(Tasks) /\ queue[l] # <<>>
    BY <1>0, <1>5, <2>1 DEF PumpStart
  <2>3. /\ \A u \in Tasks : Holds(Tail(queue[l]), u) <=> Holds(queue[l], u) /\ u # t
        /\ Once(Tail(queue[l])) /\ t \in Tasks /\ Holds(queue[l], t)
    BY <1>a, <2>1, <2>2, TailHolds
  <2>4. /\ run' = [run EXCEPT ![t] = r] /\ promise' = promise
        /\ queue' = [queue EXCEPT ![l] = Tail(@)]
    BY <1>5, <2>1 DEF PumpStart
  <2>5. r # NoRun
    BY <2>1, LanesAssumption DEF TypeOK
  <2>6. /\ queue'[l] = Tail(queue[l])
        /\ \A m \in Lanes : m # l => queue'[m] = queue[m]
    BY <1>0, <2>4
  <2> HIDE DEF t, r
  <2>7. run'[t] # NoRun /\ \A u \in Tasks : u # t => run'[u] = run[u]
    BY <1>0, <2>3, <2>4, <2>5
  <2>8. \A m \in Lanes : m # l => ~Holds(queue[m], t)
    BY <1>a, <2>3
  <2>9. \A m \in Lanes, u \in Tasks : Holds(queue'[m], u) <=> Holds(queue[m], u) /\ u # t
    BY <2>3, <2>6, <2>8
  <2>10. \A u \in Tasks : Queued(u)' <=> Queued(u) /\ u # t
    BY <2>9 DEF Queued, Holds
  <2>11. promise[t] = "pending"
    BY <1>a, <2>3 DEF Queued
  <2>12. \A u \in Tasks : promise'[u] = "pending" <=> (Queued(u)' \/ run'[u] # NoRun)
    BY <1>a, <2>4, <2>7, <2>10, <2>11
  <2>13. \A u \in Tasks : ~(Queued(u)' /\ run'[u] # NoRun)
    BY <1>a, <2>7, <2>10
  <2>14. \A k, m \in Lanes : \A u \in Tasks :
           Holds(queue'[k], u) /\ Holds(queue'[m], u) => k = m
    BY <1>a, <2>9
  <2>15. \A m \in Lanes : Once(queue'[m])
    BY <1>a, <2>3, <2>6
  <2> QED BY <2>12, <2>13, <2>14, <2>15 DEF EveryEntryAccounted, Holds, Once
<1>6. CASE PumpEnd
  BY <1>6, <1>b DEF PumpEnd
<1>7. CASE TaskYield
  BY <1>7, <1>b DEF TaskYield, lane_vars
<1>8. CASE SyncThrow
  <2>1. frames # <<>> /\ Top.task \in Tasks /\ run[Top.task] # NoRun
    BY <1>0, <1>8, TopLemma DEF SyncThrow, Top, PrefixInFlight
  <2> QED BY <1>2, <1>8, <2>1 DEF SyncThrow
<1>9. ASSUME NEW l \in Lanes, ClearCommandLane(l) PROVE EveryEntryAccounted'
  <2>1. /\ queue' = [queue EXCEPT ![l] = <<>>] /\ run' = run
        /\ promise' = [t \in Tasks |->
                         IF Holds(queue[l], t) THEN "cleared" ELSE promise[t]]
    BY <1>9 DEF ClearCommandLane
  <2>2. queue'[l] = <<>> /\ \A m \in Lanes : m # l => queue'[m] = queue[m]
    BY <1>0, <2>1
  <2>3. \A m \in Lanes, u \in Tasks : Holds(queue'[m], u) <=> Holds(queue[m], u) /\ m # l
    BY <2>2 DEF Holds
  <2>4. \A u \in Tasks : Queued(u)' <=> Queued(u) /\ ~Holds(queue[l], u)
    <3>1. \A u \in Tasks : Queued(u)' <=> \E m \in Lanes : Holds(queue'[m], u)
      BY DEF Queued, Holds
    <3> QED BY <1>a, <2>3, <3>1 DEF Queued
  <2>5. \A u \in Tasks :
          promise'[u] = "pending" <=> promise[u] = "pending" /\ ~Holds(queue[l], u)
    BY <2>1
  <2>6. \A u \in Tasks : promise'[u] = "pending" <=> (Queued(u)' \/ run'[u] # NoRun)
    BY <1>a, <2>1, <2>4, <2>5 DEF Queued
  <2>7. \A u \in Tasks : ~(Queued(u)' /\ run'[u] # NoRun)
    BY <1>a, <2>1, <2>4
  <2>8. \A k, m \in Lanes : \A u \in Tasks :
          Holds(queue'[k], u) /\ Holds(queue'[m], u) => k = m
    BY <1>a, <2>3
  <2>9. \A m \in Lanes : Once(queue'[m])
    BY <1>a, <2>2 DEF Once
  <2> QED BY <2>6, <2>7, <2>8, <2>9 DEF EveryEntryAccounted, Holds, Once
<1>10. ASSUME NEW l \in Lanes, DrainNext(l) PROVE EveryEntryAccounted'
  BY <1>10, <1>b DEF DrainNext
<1>11. ASSUME NEW l \in Lanes, NEW n \in 1..MaxConcurrency,
              SetCommandLaneConcurrency(l, n)
       PROVE  EveryEntryAccounted'
  BY <1>11, <1>b DEF SetCommandLaneConcurrency
<1>12. CASE MarkGatewayDraining
  BY <1>12, <1>b DEF MarkGatewayDraining, lane_vars
<1>13. CASE ResetAllLanes
  BY <1>13, <1>b DEF ResetAllLanes
<1>14. CASE UNCHANGED vars
  BY <1>14, <1>b DEF vars
<1> QED
  BY <1>1, <1>3, <1>4, <1>5, <1>6, <1>7, <1>8, <1>9, <1>10, <1>11, <1>12,
     <1>13, <1>14 DEF Next

-----------------------------------------------------------------------------
(* The slots *)

LEMMA GenerationNext == IInv /\ [Next]_vars => RunsNotFromFuture'
<1> SUFFICES ASSUME IInv, [Next]_vars PROVE RunsNotFromFuture'
  OBVIOUS
<1> USE DEF IInv
<1>0. /\ run \in [Tasks -> Run \union {NoRun}]
      /\ queue \in [Lanes -> Seq(Tasks)]
      /\ generation \in [Lanes -> 0..MaxGeneration]
      /\ frames \in Seq(Frame)
      /\ MaxGeneration \in Nat
  BY LanesAssumption DEF TypeOK
<1>a. ASSUME generation' = generation,
             \A u \in Tasks : run'[u] = run[u] \/ run'[u] = NoRun
      PROVE  RunsNotFromFuture'
  BY <1>a DEF RunsNotFromFuture
<1>1. ASSUME NEW t \in Tasks, Refuse(t) PROVE RunsNotFromFuture'
  BY <1>1, <1>a DEF Refuse, lane_vars
<1>2. ASSUME NEW t \in Tasks, NEW outcome, NEW stack, SettleRun(t, outcome, stack)
      PROVE  RunsNotFromFuture'
  BY <1>0, <1>2, <1>a DEF SettleRun
<1>3. ASSUME NEW t \in Tasks, Complete(t) PROVE RunsNotFromFuture'
  BY <1>2, <1>3 DEF Complete
<1>4. ASSUME NEW t \in Tasks, NEW l \in Lanes, Enqueue(t, l)
      PROVE  RunsNotFromFuture'
  BY <1>4, <1>a DEF Enqueue
<1>5. CASE PumpStart
  <2>1. PICK l \in Lanes : l = Top.lane
    BY <1>0, <1>5, TopLemma DEF PumpStart
  <2>2. PICK t \in Tasks : t = Head(queue[l])
    BY <1>0, <1>5, <2>1, HeadTailProperties DEF PumpStart
  <2>3. PICK r \in Run : r = [lane |-> l, generation |-> generation[l]]
    BY <1>0 DEF Run
  <2>4. run' = [run EXCEPT ![t] = r] /\ generation' = generation
    BY <1>5, <2>1, <2>2, <2>3 DEF PumpStart
  <2>5. run'[t] = r /\ \A u \in Tasks : u # t => run'[u] = run[u]
    BY <1>0, <2>4
  <2>6. r.lane = l /\ r.generation = generation[l] /\ generation[l] <= generation[l]
    BY <1>0, <2>3
  <2> QED BY <2>4, <2>5, <2>6 DEF RunsNotFromFuture
<1>6. CASE PumpEnd
  BY <1>6, <1>a DEF PumpEnd
<1>7. CASE TaskYield
  BY <1>7, <1>a DEF TaskYield, lane_vars
<1>8. CASE SyncThrow
  <2>1. Top.task \in Tasks
    BY <1>0, <1>8, TopLemma DEF SyncThrow
  <2> QED BY <1>2, <1>8, <2>1 DEF SyncThrow
<1>9. ASSUME NEW l \in Lanes, ClearCommandLane(l) PROVE RunsNotFromFuture'
  BY <1>9, <1>a DEF ClearCommandLane
<1>10. ASSUME NEW l \in Lanes, DrainNext(l) PROVE RunsNotFromFuture'
  BY <1>10, <1>a DEF DrainNext
<1>11. ASSUME NEW l \in Lanes, NEW n \in 1..MaxConcurrency,
              SetCommandLaneConcurrency(l, n)
       PROVE  RunsNotFromFuture'
  BY <1>11, <1>a DEF SetCommandLaneConcurrency
<1>12. CASE MarkGatewayDraining
  BY <1>12, <1>a DEF MarkGatewayDraining, lane_vars
<1>13. CASE ResetAllLanes
  <2>1. /\ run' = run
        /\ \A l \in Lanes : generation'[l] = generation[l] + 1
    BY <1>13 DEF ResetAllLanes
  <2>2. ASSUME NEW t \in Tasks, run[t] # NoRun
        PROVE  run[t].generation <= generation'[run[t].lane]
    <3>1. run[t].lane \in Lanes /\ run[t].generation \in Int
      BY <1>0, <2>2 DEF Run
    <3>2. run[t].generation <= generation[run[t].lane]
      BY <2>2 DEF RunsNotFromFuture
    <3>3. generation[run[t].lane] \in Int
      BY <1>0, <3>1
    <3> QED BY <2>1, <3>1, <3>2, <3>3
  <2> QED BY <2>1, <2>2 DEF RunsNotFromFuture
<1>14. CASE UNCHANGED vars
  BY <1>14, <1>a DEF vars
<1> QED
  BY <1>1, <1>3, <1>4, <1>5, <1>6, <1>7, <1>8, <1>9, <1>10, <1>11, <1>12,
     <1>13, <1>14 DEF Next

LEMMA ActiveNext == IInv /\ [Next]_vars => ActiveMatchesRuns'
<1> SUFFICES ASSUME IInv, [Next]_vars PROVE ActiveMatchesRuns'
  OBVIOUS
<1> USE DEF IInv
<1>0. /\ run \in [Tasks -> Run \union {NoRun}]
      /\ queue \in [Lanes -> Seq(Tasks)]
      /\ active \in [Lanes -> SUBSET Tasks]
      /\ generation \in [Lanes -> 0..MaxGeneration]
      /\ frames \in Seq(Frame)
      /\ MaxGeneration \in Nat
  BY LanesAssumption DEF TypeOK
<1>a. ASSUME generation' = generation, run' = run, active' = active
      PROVE  ActiveMatchesRuns'
  BY <1>a DEF ActiveMatchesRuns
<1>1. ASSUME NEW t \in Tasks, Refuse(t) PROVE ActiveMatchesRuns'
  BY <1>1, <1>a DEF Refuse, lane_vars
<1>2. ASSUME NEW t \in Tasks, run[t] # NoRun, NEW outcome, NEW stack,
             SettleRun(t, outcome, stack)
      PROVE  ActiveMatchesRuns'
  <2>1. PICK l \in Lanes : l = run[t].lane
    BY <1>0, <1>2 DEF Run
  <2>2. run' = [run EXCEPT ![t] = NoRun] /\ generation' = generation
    BY <1>2 DEF SettleRun
  <2>3. run'[t] = NoRun /\ \A u \in Tasks : u # t => run'[u] = run[u]
    BY <1>0, <2>2
  <2>4. \A m \in Lanes : active'[m] = active[m] \ {t}
    <3>1. \A m \in Lanes : t \in active[m] =>
            m = l /\ run[t].generation = generation[l]
      BY <2>1 DEF ActiveMatchesRuns
    <3>2. CASE run[t].generation = generation[l]
      <4>1. active' = [active EXCEPT ![l] = @ \ {t}]
        BY <1>2, <2>1, <3>2 DEF SettleRun
      <4> QED BY <1>0, <3>1, <4>1
    <3>3. CASE run[t].generation # generation[l]
      <4>1. active' = active
        BY <1>2, <2>1, <3>3 DEF SettleRun
      <4> QED BY <1>0, <3>1, <3>3, <4>1
    <3> QED BY <3>2, <3>3
  <2> QED BY <2>2, <2>3, <2>4 DEF ActiveMatchesRuns
<1>3. ASSUME NEW t \in Tasks, Complete(t) PROVE ActiveMatchesRuns'
  BY <1>2, <1>3 DEF Complete
<1>4. ASSUME NEW t \in Tasks, NEW l \in Lanes, Enqueue(t, l)
      PROVE  ActiveMatchesRuns'
  BY <1>4, <1>a DEF Enqueue
<1>5. CASE PumpStart
  <2>1. PICK l \in Lanes : l = Top.lane
    BY <1>0, <1>5, TopLemma DEF PumpStart
  <2>2. PICK t \in Tasks : t = Head(queue[l]) /\ Holds(queue[l], t)
    <3>1. queue[l] \in Seq(Tasks) /\ queue[l] # <<>> /\ Once(queue[l])
      BY <1>0, <1>5, <2>1 DEF PumpStart, EveryEntryAccounted, Once
    <3> QED BY <3>1, TailHolds
  <2>3. PICK r \in Run : r = [lane |-> l, generation |-> generation[l]]
    BY <1>0 DEF Run
  <2>4. /\ run' = [run EXCEPT ![t] = r] /\ generation' = generation
        /\ active' = [active EXCEPT ![l] = @ \union {t}]
    BY <1>5, <2>1, <2>2, <2>3 DEF PumpStart
  <2>5. r # NoRun /\ r.lane = l /\ r.generation = generation[l]
    BY <2>3, LanesAssumption DEF Run
  <2>6. run'[t] = r /\ \A u \in Tasks : u # t => run'[u] = run[u]
    BY <1>0, <2>4
  <2>7. run[t] = NoRun
    BY <2>2 DEF EveryEntryAccounted, Queued
  <2>8. \A m \in Lanes : t \notin active[m]
    BY <2>7 DEF ActiveMatchesRuns
  <2>9. /\ active'[l] = active[l] \union {t}
        /\ \A m \in Lanes : m # l => active'[m] = active[m]
    BY <1>0, <2>4
  <2> QED BY <2>4, <2>5, <2>6, <2>8, <2>9 DEF ActiveMatchesRuns
<1>6. CASE PumpEnd
  BY <1>6, <1>a DEF PumpEnd
<1>7. CASE TaskYield
  BY <1>7, <1>a DEF TaskYield, lane_vars
<1>8. CASE SyncThrow
  <2>1. frames # <<>> /\ Top.task \in Tasks /\ run[Top.task] # NoRun
    BY <1>0, <1>8, TopLemma DEF SyncThrow, Top, PrefixInFlight
  <2> QED BY <1>2, <1>8, <2>1 DEF SyncThrow
<1>9. ASSUME NEW l \in Lanes, ClearCommandLane(l) PROVE ActiveMatchesRuns'
  BY <1>9, <1>a DEF ClearCommandLane
<1>10. ASSUME NEW l \in Lanes, DrainNext(l) PROVE ActiveMatchesRuns'
  BY <1>10, <1>a DEF DrainNext
<1>11. ASSUME NEW l \in Lanes, NEW n \in 1..MaxConcurrency,
              SetCommandLaneConcurrency(l, n)
       PROVE  ActiveMatchesRuns'
  BY <1>11, <1>a DEF SetCommandLaneConcurrency
<1>12. CASE MarkGatewayDraining
  BY <1>12, <1>a DEF MarkGatewayDraining, lane_vars
<1>13. CASE ResetAllLanes
  <2>1. /\ run' = run
        /\ \A l \in Lanes : generation'[l] = generation[l] + 1 /\ active'[l] = {}
    BY <1>13 DEF ResetAllLanes
  <2>2. ASSUME NEW t \in Tasks, run[t] # NoRun
        PROVE  run[t].generation # generation'[run[t].lane]
    <3>1. run[t].lane \in Lanes /\ run[t].generation \in Int
      BY <1>0, <2>2 DEF Run
    <3>2. run[t].generation <= generation[run[t].lane]
      BY <2>2 DEF RunsNotFromFuture
    <3>3. generation[run[t].lane] \in Int
      BY <1>0, <3>1
    <3> QED BY <2>1, <3>1, <3>2, <3>3
  <2> QED BY <2>1, <2>2 DEF ActiveMatchesRuns
<1>14. CASE UNCHANGED vars
  BY <1>14, <1>a DEF vars
<1> QED
  BY <1>1, <1>3, <1>4, <1>5, <1>6, <1>7, <1>8, <1>9, <1>10, <1>11, <1>12,
     <1>13, <1>14 DEF Next

-----------------------------------------------------------------------------
(* The theorems *)

LEMMA InvInit == Init => IInv
<1> SUFFICES ASSUME Init PROVE IInv
  OBVIOUS
<1>1. TypeOK
  BY TypeInit
<1>2. frames = <<>> /\ Len(frames) = 0 /\ DOMAIN <<>> = {}
  BY EmptySeq DEF Init
<1>3. PrefixInFlight /\ PrefixOnce
  BY <1>2 DEF PrefixInFlight, PrefixOnce
<1>4. DrainingHasPump /\ WakeUpOwed
  BY DEF Init, DrainingHasPump, WakeUpOwed
<1>5. EveryEntryAccounted
  BY <1>2 DEF Init, EveryEntryAccounted, Queued, Holds
<1>6. RunsNotFromFuture /\ ActiveMatchesRuns
  BY DEF Init, RunsNotFromFuture, ActiveMatchesRuns
<1> QED BY <1>1, <1>3, <1>4, <1>5, <1>6 DEF IInv

LEMMA InvNext == IInv /\ [Next]_vars => IInv'
BY TypeNext, PrefixNext, DrainingNext, WakeUpNext, AccountedNext, GenerationNext,
   ActiveNext DEF IInv

LEMMA InvImplies ==
  IInv => TypeOK /\ NoStalledLane /\ EveryEntryAccounted /\ ActiveMatchesRuns
<1> SUFFICES ASSUME IInv, Idle PROVE NoStalledLane
  BY DEF IInv, NoStalledLane
<1>1. \A l \in Lanes : ~PumpOnStack(l) /\ l \notin toDrain
  BY EmptySeq DEF Idle, PumpOnStack
<1> QED BY <1>1 DEF IInv, WakeUpOwed, NoStalledLane

\* The inductive invariant holds in every behaviour of the command queue.
THEOREM Invariance == Spec => []IInv
BY InvInit, InvNext, PTL DEF Spec

\* Every variable of the command queue keeps its type.
THEOREM TypeCorrect == Spec => []TypeOK
BY Invariance, InvImplies, PTL

\* No lost wake-up, whatever the lanes, tasks, limits and the nesting of
\* enqueues: when the event loop has control, a lane with entries is full.
THEOREM NoLaneStalls == Spec => []NoStalledLane
BY Invariance, InvImplies, PTL

\* No entry is lost, duplicated or left without an answer: a promise is
\* pending exactly while its entry is queued once or its run is in flight.
THEOREM EntriesAccounted == Spec => []EveryEntryAccounted
BY Invariance, InvImplies, PTL

\* activeTaskIds counts exactly the runs of the current generation.
THEOREM SlotsMatchRuns == Spec => []ActiveMatchesRuns
BY Invariance, InvImplies, PTL

-----------------------------------------------------------------------------
(* The queue implements the service *)

LEMMA SettleImplementsFinish ==
  ASSUME IInv, NEW t \in Tasks, run[t] # NoRun,
         NEW outcome \in {"resolved", "rejected"}, NEW stack,
         SettleRun(t, outcome, stack)
  PROVE  Service!Finish(t)
<1> USE DEF IInv
<1>0. active \in [Lanes -> SUBSET Tasks] /\ run \in [Tasks -> Run \union {NoRun}]
  BY DEF TypeOK
<1>1. promise[t] = "pending" /\ ~Service!Waits(t)
  BY DEF EveryEntryAccounted, Queued, Holds, Service!Waits
<1>2. PICK l \in Lanes : l = run[t].lane
  BY <1>0 DEF Run
<1>3. \A m \in Lanes : t \in active[m] => m = l /\ run[t].generation = generation[l]
  BY <1>2 DEF ActiveMatchesRuns
<1>4. active' = [m \in Lanes |-> active[m] \ {t}]
  <2>1. CASE run[t].generation = generation[l]
    <3>1. active' = [active EXCEPT ![l] = @ \ {t}]
      BY <1>2, <2>1 DEF SettleRun
    <3> QED BY <1>0, <1>3, <3>1
  <2>2. CASE run[t].generation # generation[l]
    <3>1. active' = active
      BY <1>2, <2>2 DEF SettleRun
    <3> QED BY <1>0, <1>3, <2>2, <3>1
  <2> QED BY <2>1, <2>2
<1> QED BY <1>1, <1>4 DEF SettleRun, Service!Finish

LEMMA StepImplements ==
  IInv /\ [Next]_vars => [Service!Next]_(Service!vars)
<1> SUFFICES ASSUME IInv, [Next]_vars PROVE [Service!Next]_(Service!vars)
  OBVIOUS
<1> USE DEF IInv
<1>0. /\ queue \in [Lanes -> Seq(Tasks)]
      /\ active \in [Lanes -> SUBSET Tasks]
      /\ frames \in Seq(Frame)
  BY DEF TypeOK
<1>a. ASSUME UNCHANGED <<gatewayDraining, queue, active, maxConcurrent, promise>>
      PROVE  UNCHANGED Service!vars
  BY <1>a DEF Service!vars
<1>1. ASSUME NEW t \in Tasks, Refuse(t) PROVE Service!Refuse(t)
  BY <1>1 DEF Refuse, lane_vars, Service!Refuse
<1>2. ASSUME NEW t \in Tasks, Complete(t) PROVE Service!Finish(t)
  BY <1>2, SettleImplementsFinish DEF Complete
<1>3. ASSUME NEW t \in Tasks, NEW l \in Lanes, Enqueue(t, l)
      PROVE  Service!Submit(t, l)
  BY <1>3 DEF Enqueue, Service!Submit
<1>4. CASE PumpStart
  <2>1. PICK l \in Lanes : l = Top.lane
    BY <1>0, <1>4, TopLemma DEF PumpStart
  <2>2. queue[l] \in Seq(Tasks) /\ queue[l] # <<>> /\ Once(queue[l])
    BY <1>0, <1>4, <2>1 DEF PumpStart, EveryEntryAccounted, Once
  <2>3. PICK t \in Tasks : t = Head(queue[l]) /\ Holds(queue[l], t)
    BY <2>2, TailHolds
  <2>4. run[t] = NoRun
    BY <2>3 DEF EveryEntryAccounted, Queued
  <2>5. ~Service!HoldsSlot(t)
    BY <2>4 DEF ActiveMatchesRuns, Service!HoldsSlot
  <2>6. ~(Cardinality(active[l]) >= maxConcurrent[l])
    BY <1>4, <2>1 DEF PumpStart, Full
  <2>7. active[l] \in SUBSET Tasks /\ maxConcurrent[l] \in 1..MaxConcurrency
    BY <1>0 DEF TypeOK
  <2>8. Cardinality(active[l]) \in Nat
    BY <2>7, LanesAssumption, FS_Subset, FS_CardinalityType
  <2>9. Cardinality(active[l]) < maxConcurrent[l]
    BY <2>6, <2>7, <2>8
  <2>10. Service!Start(l)
    <3>1. /\ active' = [active EXCEPT ![l] = @ \union {Head(queue[l])}]
          /\ queue' = [queue EXCEPT ![l] = Tail(@)]
          /\ UNCHANGED <<gatewayDraining, maxConcurrent, promise>>
      BY <1>4, <2>1 DEF PumpStart
    <3>2. ~Service!HoldsSlot(Head(queue[l]))
      BY <2>3, <2>5
    <3>3. Service!Cardinality(active[l]) = Cardinality(active[l])
      BY DEF Cardinality, Service!Cardinality
    <3> QED BY <2>2, <2>9, <3>1, <3>2, <3>3 DEF Service!Start
  <2> QED BY <2>10 DEF Service!Next
<1>5. CASE PumpEnd
  BY <1>5, <1>a DEF PumpEnd
<1>6. CASE TaskYield
  BY <1>6, <1>a DEF TaskYield, lane_vars
<1>7. CASE SyncThrow
  <2>1. frames # <<>> /\ Top.task \in Tasks /\ run[Top.task] # NoRun
    BY <1>0, <1>7, TopLemma DEF SyncThrow, Top, PrefixInFlight
  <2>2. PICK t \in Tasks : t = Top.task
    BY <2>1
  <2>3. Service!Finish(t)
    BY <1>7, <2>1, <2>2, SettleImplementsFinish DEF SyncThrow
  <2> QED BY <2>3 DEF Service!Next
<1>8. ASSUME NEW l \in Lanes, ClearCommandLane(l) PROVE Service!Clear(l)
  BY <1>8 DEF ClearCommandLane, Holds, Service!Clear
<1>9. ASSUME NEW l \in Lanes, DrainNext(l) PROVE UNCHANGED Service!vars
  BY <1>9, <1>a DEF DrainNext
<1>10. ASSUME NEW l \in Lanes, NEW n \in 1..MaxConcurrency,
              SetCommandLaneConcurrency(l, n)
       PROVE  Service!SetLimit(l, n)
  BY <1>10 DEF SetCommandLaneConcurrency, Service!SetLimit
<1>11. CASE MarkGatewayDraining
  BY <1>11 DEF MarkGatewayDraining, lane_vars, Service!Close, Service!Next
<1>12. CASE ResetAllLanes
  BY <1>12 DEF ResetAllLanes, Service!Reset, Service!Next
<1>13. CASE UNCHANGED vars
  BY <1>13, <1>a DEF vars
<1> QED
  BY <1>1, <1>2, <1>3, <1>4, <1>5, <1>6, <1>7, <1>8, <1>9, <1>10, <1>11, <1>12,
     <1>13 DEF Next, Service!Next

\* The command queue implements the service: its initial states are the
\* service's, and each of its steps is a step of the service or a stutter.
THEOREM QueueImplementsService == Spec => ImplementsService
<1>1. Init => Service!Init
  BY DEF Init, Service!Init
<1> QED
  BY <1>1, Invariance, StepImplements, PTL DEF Spec, ImplementsService, Service!Spec

=============================================================================
