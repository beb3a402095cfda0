------------------------ MODULE HeartbeatWakeProofs -------------------------
(***************************************************************************)
(* Proofs about HeartbeatWake, for any agents, requests, delays and number *)
(* of runners, batches and changes of the configuration.                   *)
(***************************************************************************)
EXTENDS HeartbeatWake, FiniteSetTheorems, TLAPS

-----------------------------------------------------------------------------
(* The pending wakes and the timer *)

Wakes == [Targets -> Reasons \union {NoWake}]

\* A request that a caller has made, as opposed to an interval.
Asked(reason) == reason \in Reasons \ {"interval"}

\* A wake is kept with the weightier reason; nothing else changes.
LEMMA QueueLemma ==
  ASSUME NEW w \in Wakes, NEW t \in Targets, NEW reason \in Reasons
  PROVE  LET q == QueuePendingWakeReason(w, t, reason)
         IN  /\ q \in Wakes
             /\ \A u \in Targets : u # t => q[u] = w[u]
             /\ q[t] \in {w[t], reason} /\ q[t] # NoWake
             /\ Asked(reason) \/ Asked(w[t]) => Asked(q[t])
             /\ q # NoPending
<1> DEFINE q == QueuePendingWakeReason(w, t, reason)
<1>0. NoWake \notin Reasons
  BY HeartbeatAssumption DEF HeartbeatAssumption
<1>1. /\ Priority("interval") = 1 /\ Priority("wake") = 2 /\ Priority("manual") = 3
  BY DEF Priority
<1>2. q \in Wakes /\ \A u \in Targets : u # t => q[u] = w[u]
  BY DEF QueuePendingWakeReason, Wakes
<1>3. q[t] = IF w[t] # NoWake /\ Priority(reason) < Priority(w[t]) THEN w[t] ELSE reason
  BY DEF QueuePendingWakeReason, Wakes
<1>4. q[t] \in {w[t], reason} /\ q[t] # NoWake
  BY <1>0, <1>3
<1>5. Asked(reason) \/ Asked(w[t]) => Asked(q[t])
  <2> DEFINE x == w[t]
  <2>1. x \in Reasons \union {NoWake}
    BY DEF Wakes
  <2> HIDE DEF x
  <2>2. \A y \in Reasons : Priority(y) \in {1, 2, 3} /\ (Priority(y) = 1 <=> ~Asked(y))
    BY <1>1 DEF Reasons, Asked
  <2>3. CASE Asked(reason) /\ x # NoWake /\ Priority(reason) < Priority(x)
    <3>1. x \in Reasons /\ Priority(x) # 1
      BY <2>1, <2>2, <2>3
    <3>2. Asked(x)
      BY <2>2, <3>1
    <3> QED
      BY <1>3, <2>3, <3>2 DEF x
  <2>4. CASE ~Asked(reason) /\ Asked(x)
    <3>1. x # NoWake /\ x \in Reasons
      BY <1>0, <2>4 DEF Asked
    <3>2. Priority(reason) = 1 /\ Priority(x) \in {2, 3}
      BY <2>2, <2>4, <3>1
    <3> QED
      BY <1>3, <2>4, <3>1, <3>2 DEF x
  <2> QED
    BY <1>3, <2>3, <2>4 DEF x
<1>6. q # NoPending
  BY <1>4 DEF NoPending
<1> QED
  BY <1>2, <1>4, <1>5, <1>6

\* A timer that is asked for is set; one that waits for a retry stays.
LEMMA ScheduleLemma ==
  ASSUME NEW old \in Timer \union {NoTimer}, NEW delay \in Nat, NEW kind \in {"normal", "retry"}
  PROVE  /\ Schedule(old, delay, kind) \in Timer
         /\ Schedule(old, delay, kind) # NoTimer
         /\ old # NoTimer /\ old.kind = "retry" => Schedule(old, delay, kind) = old
         /\ old = NoTimer => Schedule(old, delay, kind) = SetTimer(delay, kind)
<1>1. SetTimer(delay, kind) \in Timer
  BY DEF SetTimer, Timer
<1>2. NoTimer \notin Timer
  BY HeartbeatAssumption DEF HeartbeatAssumption
<1> QED
  BY <1>1, <1>2 DEF Schedule

-----------------------------------------------------------------------------
(* Batches *)

InFlight(s) == batches[s] # NoBatch

\* What a batch goes on with: the same handler and wakes, fewer of them left.
Continues(b, old) ==
  /\ b \in Batch /\ b.runner = old.runner /\ b.wakes = old.wakes /\ b.left \subseteq old.left

LEMMA BatchLemma ==
  ASSUME TypeOK, NEW s \in Slots, InFlight(s)
  PROVE  /\ batches[s] \in Batch /\ batches[s].runner \in Runners /\ batches[s].wakes \in Wakes
         /\ batches[s].left \subseteq Targets /\ batches[s].call \in Targets \union {NoWake}
         /\ batches[s].todo \subseteq Agents /\ batches[s].fresh \in BOOLEAN
         /\ batches[s].delay \in Nat /\ Continues(batches[s], batches[s])
         /\ Continues([batches[s] EXCEPT !.left = {}], batches[s])
         /\ [batches[s] EXCEPT !.left = {}].left = {}
<1>1. batches[s] \in Batch
  BY DEF TypeOK, InFlight
<1> DEFINE b == batches[s]
<1>2. b \in Batch
  BY <1>1
<1> HIDE DEF b
<1>3. /\ b.runner \in Runners /\ b.wakes \in Wakes /\ b.left \subseteq Targets
      /\ b.call \in Targets \union {NoWake} /\ b.todo \subseteq Agents /\ b.fresh \in BOOLEAN
      /\ b.delay \in Nat /\ Continues(b, b)
  BY <1>2 DEF Batch, Wakes, Continues
<1>4. Continues([b EXCEPT !.left = {}], b) /\ [b EXCEPT !.left = {}].left = {}
  BY <1>2 DEF Batch, Continues
<1> QED
  BY <1>2, <1>3, <1>4 DEF b

LEMMA GoOnLemma ==
  ASSUME TypeOK, NEW s \in Slots, InFlight(s), NEW t \in batches[s].left
  PROVE  /\ GoOn(batches[s], t) \in Batch /\ Continues(GoOn(batches[s], t), batches[s])
         /\ GoOn(batches[s], t).left = batches[s].left \ {t}
         /\ GoOn(batches[s], t).call = t
<1> DEFINE b == batches[s]
<1>1. b \in Batch /\ t \in Targets /\ t \in b.left
  BY BatchLemma
<1> HIDE DEF b
<1>2. /\ GoOn(b, t) \in Batch /\ Continues(GoOn(b, t), b)
      /\ GoOn(b, t).left = b.left \ {t} /\ GoOn(b, t).call = t
  BY <1>1 DEF GoOn, Batch, Continues
<1> QED
  BY <1>2 DEF b

\* The end of a handler call, and of its batch if it was the last.
LEMMA SettleLemma ==
  ASSUME TypeOK, NEW s \in Slots, InFlight(s), NEW b, Continues(b, batches[s]),
         NEW w \in Wakes, NEW newTimer \in Timer \union {NoTimer}, SettleCall(s, b, w, newTimer)
  PROVE  /\ pending' = w /\ timer' \in Timer \union {NoTimer}
         /\ batches' \in [Slots -> Batch \union {NoBatch}]
         /\ running' \in BOOLEAN /\ outlived' \in BOOLEAN
         /\ \A q \in Slots : q # s => batches'[q] = batches[q]
         /\ \/ /\ b.left = {} /\ batches'[s] = NoBatch /\ running' = FALSE
               /\ outlived' = (outlived \/ b.runner # started)
            \/ /\ b.left # {} /\ batches'[s] # NoBatch
               /\ Continues(batches'[s], batches[s])
               /\ batches'[s].left = b.left /\ batches'[s].call = NoWake
               /\ UNCHANGED <<running, outlived>>
         /\ newTimer # NoTimer => timer' # NoTimer
         /\ newTimer # NoTimer /\ newTimer.kind = "retry" => timer' = newTimer
<1>0. /\ batches \in [Slots -> Batch \union {NoBatch}] /\ batches[s] \in Batch
      /\ running \in BOOLEAN /\ outlived \in BOOLEAN
  BY BatchLemma DEF TypeOK
<1>1. b \in Batch /\ b.delay \in Nat
  BY DEF Continues, Batch
<1>2. NoBatch \notin Batch /\ NoTimer \notin Timer
  BY HeartbeatAssumption DEF HeartbeatAssumption
<1>3. /\ Schedule(newTimer, b.delay, "normal") \in Timer
      /\ newTimer # NoTimer /\ newTimer.kind = "retry" => Schedule(newTimer, b.delay, "normal") = newTimer
  BY <1>1, ScheduleLemma
<1>4. CASE b.left = {}
  <2>1. /\ pending' = w /\ batches' = [batches EXCEPT ![s] = NoBatch] /\ running' = FALSE
        /\ timer' \in {newTimer, Schedule(newTimer, b.delay, "normal")}
        /\ outlived' = (outlived \/ b.runner # started)
    BY <1>4 DEF SettleCall
  <2>2. outlived' \in BOOLEAN
    BY <2>1
  <2> QED
    BY <1>0, <1>2, <1>3, <1>4, <2>1, <2>2
<1>5. CASE b.left # {}
  <2> DEFINE c == [b EXCEPT !.call = NoWake, !.todo = {}]
  <2>1. /\ pending' = w /\ batches' = [batches EXCEPT ![s] = c] /\ timer' = newTimer
        /\ UNCHANGED <<running, outlived>>
    BY <1>5 DEF SettleCall
  <2>2. /\ c \in Batch /\ Continues(c, batches[s]) /\ c.left = b.left /\ c.call = NoWake
    BY <1>1 DEF Continues, Batch
  <2> HIDE DEF c
  <2> QED
    BY <1>0, <1>2, <1>5, <2>1, <2>2
<1> QED
  BY <1>4, <1>5

\* Wakes w keep what is pending, and what a batch was started with for the
\* targets in T, each with its reason or a weightier one.
Restores(w, s, T) ==
  /\ w \in Wakes
  /\ \A t \in Targets :
       /\ w[t] \in {pending[t], batches[s].wakes[t]}
       /\ pending[t] # NoWake => w[t] # NoWake
       /\ Asked(pending[t]) => Asked(w[t])
       /\ t \in T /\ batches[s].wakes[t] # NoWake => w[t] # NoWake
       /\ t \in T /\ Asked(batches[s].wakes[t]) => Asked(w[t])

\* What a busy call puts back: its own wake.
LEMMA RequeuedLemma ==
  ASSUME TypeOK, NEW s \in Slots, InFlight(s), batches[s].call # NoWake,
         batches[s].wakes[batches[s].call] # NoWake
  PROVE  Restores(Requeued(batches[s]), s, {batches[s].call})
<1> DEFINE b == batches[s]
<1>1. /\ b.wakes \in Wakes /\ b.call \in Targets
  BY BatchLemma
<1>2. b.wakes[b.call] \in Reasons /\ pending \in Wakes
  BY <1>1 DEF Wakes, TypeOK
<1>3. Requeued(b) = QueuePendingWakeReason(pending, b.call, b.wakes[b.call])
  BY DEF Requeued
<1> DEFINE w == Requeued(b)
<1>4. /\ w \in Wakes
      /\ \A u \in Targets : u # b.call => w[u] = pending[u]
      /\ w[b.call] \in {pending[b.call], b.wakes[b.call]} /\ w[b.call] # NoWake
      /\ Asked(b.wakes[b.call]) \/ Asked(pending[b.call]) => Asked(w[b.call])
  BY <1>1, <1>2, <1>3, QueueLemma
<1> HIDE DEF w
<1>5. Restores(w, s, {b.call})
  BY <1>4 DEF Restores
<1> QED
  BY <1>5 DEF w

\* What a call that throws puts back: all wakes of its batch.
Thrown(s) ==
  [t \in Targets |->
    IF batches[s].wakes[t] = NoWake THEN pending[t]
    ELSE QueuePendingWakeReason(pending, t, batches[s].wakes[t])[t]]

LEMMA ThrownLemma ==
  ASSUME TypeOK, NEW s \in Slots, InFlight(s)
  PROVE  Restores(Thrown(s), s, Targets)
<1> DEFINE b == batches[s]
<1>1. b.wakes \in Wakes /\ pending \in Wakes
  BY BatchLemma DEF Wakes, TypeOK
<1>2. NoWake \notin Reasons
  BY HeartbeatAssumption DEF HeartbeatAssumption
<1> DEFINE w == Thrown(s)
<1>3. ASSUME NEW t \in Targets
      PROVE  /\ w[t] \in Reasons \union {NoWake}
             /\ w[t] \in {pending[t], b.wakes[t]}
             /\ pending[t] # NoWake => w[t] # NoWake
             /\ Asked(pending[t]) => Asked(w[t])
             /\ b.wakes[t] # NoWake => w[t] # NoWake
             /\ Asked(b.wakes[t]) => Asked(w[t])
  <2>1. CASE b.wakes[t] = NoWake
    <3>1. w[t] = pending[t] /\ ~Asked(b.wakes[t])
      BY <1>2, <2>1 DEF Thrown, Asked
    <3> QED
      BY <1>1, <2>1, <3>1 DEF Wakes
  <2>2. CASE b.wakes[t] # NoWake
    <3> DEFINE q == QueuePendingWakeReason(pending, t, b.wakes[t])
    <3>1. w[t] = q[t]
      BY <2>2 DEF Thrown
    <3>2. b.wakes[t] \in Reasons
      BY <1>1, <2>2 DEF Wakes
    <3>3. /\ q \in Wakes /\ q[t] \in {pending[t], b.wakes[t]} /\ q[t] # NoWake
          /\ Asked(b.wakes[t]) \/ Asked(pending[t]) => Asked(q[t])
      BY <1>1, <3>2, QueueLemma
    <3> HIDE DEF q, w
    <3> QED
      BY <3>1, <3>3 DEF Wakes
  <2> QED
    BY <2>1, <2>2
<1>4. w = [t \in Targets |-> w[t]]
  BY DEF Thrown
<1> HIDE DEF w
<1>5. w \in Wakes
  BY <1>3, <1>4 DEF Wakes
<1>6. Restores(w, s, Targets)
  BY <1>3, <1>5 DEF Restores
<1> QED
  BY <1>6 DEF w

-----------------------------------------------------------------------------
(* The inductive invariant *)

\* The registered handler is that of the newest runner, which is not stopped.
Handlers ==
  /\ handler # NoRunner => handler = started /\ handler \notin stopped
  /\ \A r \in stopped : r <= started

\* A batch is of a runner that has been started, and what it goes through are
\* wakes that it was started with.
BatchesFormed ==
  \A s \in Slots : InFlight(s) =>
    /\ batches[s].runner <= started
    /\ \A t \in batches[s].left : batches[s].wakes[t] # NoWake
    /\ batches[s].call # NoWake => batches[s].wakes[batches[s].call] # NoWake

Base == TypeOK /\ Handlers /\ BatchesFormed

\* A call of the handler of batch s is over: it goes on as b, with wakes w
\* pending, among them those of T, and with this timer.
Answers(s, b, w, newTimer, T) ==
  /\ InFlight(s) /\ Continues(b, batches[s]) /\ Restores(w, s, T)
  /\ newTimer \in Timer \union {NoTimer} /\ SettleCall(s, b, w, newTimer)

LEMMA NothingRestored ==
  ASSUME Base, NEW s \in Slots, InFlight(s)
  PROVE  Restores(pending, s, {}) /\ timer \in Timer \union {NoTimer}
BY DEF Base, TypeOK, Restores, Wakes

LEMMA InVainEffect ==
  ASSUME Base, NEW s \in Slots, NEW t \in Targets, HandOverInVain(s, t)
  PROVE  /\ t \in batches[s].left /\ batches[s].call = NoWake
         /\ GoOn(batches[s], t).left = batches[s].left \ {t}
         /\ Answers(s, GoOn(batches[s], t), pending, timer, {})
         /\ owed' = owed \ {t}
         /\ UNCHANGED <<handler, scheduled, enabled, started, stopped, agents, due, updates, cooldown>>
         /\ IF enabled THEN ScheduleNext(batches[s].runner)
            ELSE /\ missed' = (missed \/ (t = All /\ batches[s].runner = handler))
                 /\ interval' = interval
<1>1. /\ InFlight(s) /\ t \in batches[s].left /\ batches[s].call = NoWake
      /\ SettleCall(s, GoOn(batches[s], t), pending, timer)
      /\ owed' = owed \ {t}
      /\ UNCHANGED <<handler, scheduled, enabled, started, stopped, agents, due, updates, cooldown>>
      /\ IF enabled THEN ScheduleNext(batches[s].runner)
         ELSE /\ missed' = (missed \/ (t = All /\ batches[s].runner = handler))
              /\ interval' = interval
  BY DEF HandOverInVain, Waiting, InFlight
<1>2. /\ Continues(GoOn(batches[s], t), batches[s])
      /\ GoOn(batches[s], t).left = batches[s].left \ {t}
  BY <1>1, GoOnLemma DEF Base
<1> QED
  BY <1>1, <1>2, NothingRestored DEF Answers

LEMMA HandOverEffect ==
  ASSUME Base, NEW s \in Slots, NEW t \in Targets, HandOver(s, t)
  PROVE  /\ InFlight(s) /\ t \in batches[s].left /\ batches[s].call = NoWake
         /\ owed' = owed \ {t}
         /\ UNCHANGED <<handler, pending, timer, scheduled, running, enabled, runner,
                        updates, missed, outlived, cooldown>>
         /\ batches' \in [Slots -> Batch \union {NoBatch}]
         /\ \A q \in Slots : q # s => batches'[q] = batches[q]
         /\ batches'[s] # NoBatch /\ Continues(batches'[s], batches[s])
         /\ batches'[s].left = batches[s].left \ {t} /\ batches'[s].call = t
<1> DEFINE b == GoOn(batches[s], t)
           todo == AgentsToRun(batches[s], t)
           c == [b EXCEPT !.todo = todo]
<1>1. /\ InFlight(s) /\ t \in batches[s].left /\ batches[s].call = NoWake
      /\ batches' = [batches EXCEPT ![s] = c] /\ owed' = owed \ {t}
      /\ UNCHANGED <<handler, pending, timer, scheduled, running, enabled, runner,
                     updates, missed, outlived, cooldown>>
  BY DEF HandOver, Waiting, InFlight
<1>2. /\ b \in Batch /\ Continues(b, batches[s]) /\ b.left = batches[s].left \ {t} /\ b.call = t
  BY <1>1, GoOnLemma DEF Base
<1>3. todo \in SUBSET Agents
  <2>1. batches[s].runner \in Runners
    BY <1>1, BatchLemma DEF Base
  <2>2. agents[batches[s].runner] \in SUBSET Agents
    BY <2>1 DEF Base, TypeOK
  <2> QED
    BY <2>2 DEF AgentsToRun
<1> HIDE DEF b, todo
<1>4. c \in Batch /\ Continues(c, batches[s]) /\ c.left = batches[s].left \ {t} /\ c.call = t
  BY <1>2, <1>3 DEF Batch, Continues
<1> HIDE DEF c
<1>5. NoBatch \notin Batch /\ batches \in [Slots -> Batch \union {NoBatch}]
  BY HeartbeatAssumption DEF HeartbeatAssumption, Base, TypeOK
<1> QED
  BY <1>1, <1>4, <1>5

\* An agent of a call is done: the call goes on with the others, or is over.
LEMMA AgentDoneEffect ==
  ASSUME Base, NEW s \in Slots, NEW a \in Agents, AgentDone(s, a)
  PROVE  /\ InFlight(s) /\ batches[s].call # NoWake
         /\ due' \in [Runners -> SUBSET Agents]
         /\ UNCHANGED <<handler, scheduled, enabled, started, stopped, agents, updates, owed, cooldown>>
         /\ \/ \E b \in Batch : /\ b.left = batches[s].left
                                /\ Answers(s, b, pending, timer, {}) /\ ScheduleNext(batches[s].runner)
            \/ /\ UNCHANGED <<pending, timer, running, interval, missed, outlived>>
               /\ batches' \in [Slots -> Batch \union {NoBatch}]
               /\ \A q \in Slots : q # s => batches'[q] = batches[q]
               /\ batches'[s] # NoBatch /\ Continues(batches'[s], batches[s])
               /\ batches'[s].left = batches[s].left /\ batches'[s].call = batches[s].call
<1> DEFINE old == batches[s]
           rest == [old EXCEPT !.todo = @ \ {a}]
<1>1. /\ InFlight(s) /\ old.call # NoWake
      /\ \/ due' = IF old.fresh THEN [due EXCEPT ![old.runner] = @ \ {a}] ELSE due
         \/ due' = due
      /\ UNCHANGED <<handler, scheduled, enabled, started, stopped, agents, updates, owed, cooldown>>
      /\ IF rest.todo = {} THEN SettleCall(s, rest, pending, timer) /\ ScheduleNext(old.runner)
         ELSE /\ batches' = [batches EXCEPT ![s] = rest]
              /\ UNCHANGED <<pending, timer, running, interval, missed, outlived>>
  BY DEF AgentDone, InFlight
<1>2. old \in Batch
  BY <1>1, BatchLemma DEF Base
<1>3. due' \in [Runners -> SUBSET Agents]
  BY <1>1 DEF Base, TypeOK
<1> HIDE DEF old
<1>4. rest \in Batch /\ Continues(rest, old) /\ rest.left = old.left /\ rest.call = old.call
  BY <1>2 DEF Batch, Continues
<1> HIDE DEF rest
<1>5. NoBatch \notin Batch /\ batches \in [Slots -> Batch \union {NoBatch}]
  BY HeartbeatAssumption DEF HeartbeatAssumption, Base, TypeOK
<1>6. CASE rest.todo = {}
  <2>1. Answers(s, rest, pending, timer, {}) /\ ScheduleNext(old.runner)
    BY <1>1, <1>4, <1>6, NothingRestored DEF Answers, old
  <2> QED
    BY <1>1, <1>3, <1>4, <2>1 DEF old
<1>7. CASE rest.todo # {}
  <2>1. /\ batches' = [batches EXCEPT ![s] = rest]
        /\ UNCHANGED <<pending, timer, running, interval, missed, outlived>>
    BY <1>1, <1>7
  <2>2. /\ batches' \in [Slots -> Batch \union {NoBatch}]
        /\ \A q \in Slots : q # s => batches'[q] = batches[q]
        /\ batches'[s] = rest /\ rest # NoBatch
    BY <1>4, <1>5, <2>1
  <2> QED
    BY <1>1, <1>3, <1>4, <2>1, <2>2 DEF old
<1> QED
  BY <1>6, <1>7

LEMMA AgentBusyEffect ==
  ASSUME Base, NEW s \in Slots, NEW a \in Agents, AgentBusy(s, a)
  PROVE  /\ batches[s].call # NoWake /\ batches[s].wakes[batches[s].call] # NoWake
         /\ Answers(s, batches[s], Requeued(batches[s]), Schedule(timer, Retry, "retry"), {batches[s].call})
         /\ owed' = StillOwed(batches[s])
         /\ cooldown' = (IF timer = NoTimer THEN Retry ELSE cooldown)
         /\ due' \in [Runners -> SUBSET Agents]
         /\ IF batches[s].call # All THEN ScheduleNext(batches[s].runner)
                                     ELSE UNCHANGED <<interval, missed>>
         /\ UNCHANGED <<handler, scheduled, enabled, started, stopped, agents, updates>>
<1>1. /\ InFlight(s) /\ batches[s].call # NoWake
      /\ SettleCall(s, batches[s], Requeued(batches[s]), Schedule(timer, Retry, "retry"))
      /\ owed' = StillOwed(batches[s])
      /\ cooldown' = (IF timer = NoTimer THEN Retry ELSE cooldown)
      /\ UNCHANGED <<handler, scheduled, enabled, started, stopped, agents, updates>>
      /\ IF batches[s].call # All THEN ScheduleNext(batches[s].runner)
                                  ELSE UNCHANGED <<interval, missed>>
      /\ due' \in {due, [due EXCEPT ![batches[s].runner] = @ \ {a}]}
  BY DEF AgentBusy, InFlight
<1>2. batches[s].wakes[batches[s].call] # NoWake
  BY <1>1 DEF Base, BatchesFormed
<1>3. Restores(Requeued(batches[s]), s, {batches[s].call}) /\ Continues(batches[s], batches[s])
  BY <1>1, <1>2, RequeuedLemma, BatchLemma DEF Base
<1>4. Schedule(timer, Retry, "retry") \in Timer
  BY ScheduleLemma, HeartbeatAssumption DEF HeartbeatAssumption, Base, TypeOK
<1>5. due' \in [Runners -> SUBSET Agents]
  BY <1>1 DEF Base, TypeOK
<1> QED
  BY <1>1, <1>2, <1>3, <1>4, <1>5 DEF Answers

LEMMA ThrowsEffect ==
  ASSUME Base, NEW s \in Slots, HandlerThrows(s)
  PROVE  /\ batches[s].call # NoWake /\ batches[s].wakes[batches[s].call] # NoWake
         /\ Answers(s, [batches[s] EXCEPT !.left = {}], Thrown(s), Schedule(timer, Retry, "retry"), Targets)
         /\ owed' = StillOwed(batches[s])
         /\ cooldown' = (IF timer = NoTimer THEN Retry ELSE cooldown)
         /\ UNCHANGED <<handler, scheduled, enabled, runner, updates, missed>>
<1>1. /\ InFlight(s) /\ batches[s].call # NoWake
      /\ SettleCall(s, [batches[s] EXCEPT !.left = {}], Thrown(s), Schedule(timer, Retry, "retry"))
      /\ owed' = StillOwed(batches[s])
      /\ cooldown' = (IF timer = NoTimer THEN Retry ELSE cooldown)
      /\ UNCHANGED <<handler, scheduled, enabled, runner, updates, missed>>
  BY DEF HandlerThrows, Thrown, InFlight
<1>2. batches[s].wakes[batches[s].call] # NoWake
  BY <1>1 DEF Base, BatchesFormed
<1>3. Restores(Thrown(s), s, Targets) /\ Continues([batches[s] EXCEPT !.left = {}], batches[s])
  BY <1>1, ThrownLemma, BatchLemma DEF Base
<1>4. Schedule(timer, Retry, "retry") \in Timer
  BY ScheduleLemma, HeartbeatAssumption DEF HeartbeatAssumption, Base, TypeOK
<1> QED
  BY <1>1, <1>2, <1>3, <1>4 DEF Answers

\* The end of a call, as far as the types and the shape of batches go.
LEMMA AnswersLemma ==
  ASSUME Base, NEW s \in Slots, NEW b, NEW w, NEW newTimer, NEW T, Answers(s, b, w, newTimer, T)
  PROVE  /\ pending' \in Wakes /\ timer' \in Timer \union {NoTimer}
         /\ batches' \in [Slots -> Batch \union {NoBatch}]
         /\ running' \in BOOLEAN /\ outlived' \in BOOLEAN
         /\ started' = started => BatchesFormed'
<1>1. /\ InFlight(s) /\ Continues(b, batches[s]) /\ w \in Wakes
      /\ newTimer \in Timer \union {NoTimer} /\ SettleCall(s, b, w, newTimer) /\ TypeOK
  BY DEF Answers, Restores, Base
<1>2. /\ pending' = w /\ timer' \in Timer \union {NoTimer}
      /\ batches' \in [Slots -> Batch \union {NoBatch}]
      /\ running' \in BOOLEAN /\ outlived' \in BOOLEAN
      /\ \A q \in Slots : q # s => batches'[q] = batches[q]
      /\ \/ /\ b.left = {} /\ batches'[s] = NoBatch /\ running' = FALSE
            /\ outlived' = (outlived \/ b.runner # started)
         \/ /\ b.left # {} /\ batches'[s] # NoBatch
            /\ Continues(batches'[s], batches[s])
            /\ batches'[s].left = b.left /\ batches'[s].call = NoWake
            /\ UNCHANGED <<running, outlived>>
  BY <1>1, SettleLemma
<1>3. ASSUME started' = started PROVE BatchesFormed'
  BY <1>1, <1>2, <1>3 DEF Base, BatchesFormed, InFlight, Continues
<1> QED
  BY <1>1, <1>2, <1>3

LEMMA ScheduleNextType ==
  ASSUME Base, NEW r \in Runners, ScheduleNext(r)
  PROVE  interval' \in SUBSET Runners /\ missed' \in BOOLEAN
<1>1. interval \in SUBSET Runners /\ missed \in BOOLEAN
  BY DEF Base, TypeOK
<1>2. interval' \in {interval, interval \ {r}, interval \union {r}} /\ missed' = (missed /\ handler # r)
  BY DEF ScheduleNext
<1> QED
  BY <1>1, <1>2

LEMMA BaseInit == Init => Base
<1> SUFFICES ASSUME Init PROVE Base
  OBVIOUS
<1>1. NoBatch \notin Batch
  BY HeartbeatAssumption DEF HeartbeatAssumption
<1>2. \A s \in Slots : ~InFlight(s)
  BY DEF Init, InFlight
<1>3. NoPending \in Wakes
  BY DEF NoPending, Wakes
<1>4. started \in 0..MaxRunners /\ updates \in 0..MaxUpdates /\ cooldown \in Nat
  BY HeartbeatAssumption DEF HeartbeatAssumption, Init
<1>5. /\ batches \in [Slots -> Batch \union {NoBatch}]
      /\ agents \in [Runners -> SUBSET Agents] /\ due \in [Runners -> SUBSET Agents]
  BY DEF Init
<1>6. TypeOK
  BY <1>3, <1>4, <1>5 DEF Init, TypeOK, Wakes
<1>7. Handlers /\ BatchesFormed
  BY <1>2 DEF Init, Handlers, BatchesFormed
<1> QED
  BY <1>6, <1>7 DEF Base

\* What a request does, of a caller or of an interval timer.
LEMMA RequestEffect ==
  ASSUME Base, NEW t \in Targets, NEW reason \in Reasons, NEW delay \in Nat,
         RequestHeartbeatNow(t, reason, delay)
  PROVE  /\ pending' \in Wakes /\ pending' # NoPending /\ pending'[t] # NoWake
         /\ \A u \in Targets : u # t => pending'[u] = pending[u]
         /\ pending'[t] \in {pending[t], reason}
         /\ Asked(reason) \/ Asked(pending[t]) => Asked(pending'[t])
         /\ timer' \in Timer /\ timer' # NoTimer
         /\ timer # NoTimer /\ timer.kind = "retry" => timer' = timer
         /\ owed' = (IF reason = "interval" THEN owed ELSE owed \union {t})
         /\ owed' \in SUBSET Targets
         /\ UNCHANGED <<handler, scheduled, running, batches, enabled, updates,
                        missed, outlived, cooldown>>
<1>1. pending \in Wakes /\ timer \in Timer \union {NoTimer} /\ owed \in SUBSET Targets
  BY DEF Base, TypeOK, Wakes
<1>2. /\ pending' = QueuePendingWakeReason(pending, t, reason)
      /\ timer' = Schedule(timer, delay, "normal")
      /\ owed' = (IF reason = "interval" THEN owed ELSE owed \union {t})
      /\ UNCHANGED <<handler, scheduled, running, batches, enabled, updates,
                     missed, outlived, cooldown>>
  BY DEF RequestHeartbeatNow
<1>3. owed' \in SUBSET Targets
  BY <1>1, <1>2
<1> DEFINE q == QueuePendingWakeReason(pending, t, reason)
<1>4. /\ q \in Wakes /\ q # NoPending /\ q[t] # NoWake
      /\ \A u \in Targets : u # t => q[u] = pending[u]
      /\ q[t] \in {pending[t], reason} /\ (Asked(reason) \/ Asked(pending[t]) => Asked(q[t]))
  BY <1>1, QueueLemma
<1>5. /\ Schedule(timer, delay, "normal") \in Timer /\ Schedule(timer, delay, "normal") # NoTimer
      /\ timer # NoTimer /\ timer.kind = "retry" => Schedule(timer, delay, "normal") = timer
  BY <1>1, ScheduleLemma
<1>6. pending' = q
  BY <1>2
<1> HIDE DEF q
<1> QED
  BY <1>2, <1>3, <1>4, <1>5, <1>6

\* The pending wakes become a batch.
LEMMA StartEffect ==
  ASSUME Base, NEW s \in Slots, StartBatch(s)
  PROVE  /\ handler # NoRunner /\ handler = started /\ ~running /\ ~InFlight(s) /\ TimerDue
         /\ pending' = NoPending /\ timer' = NoTimer /\ scheduled' = FALSE /\ running' = TRUE
         /\ batches' \in [Slots -> Batch \union {NoBatch}]
         /\ \A q \in Slots : q # s => batches'[q] = batches[q]
         /\ batches'[s] # NoBatch /\ batches'[s].runner = started
         /\ batches'[s].wakes = pending /\ batches'[s].call = NoWake
         /\ batches'[s].left = {t \in Targets : pending[t] # NoWake}
         /\ UNCHANGED <<handler, enabled, runner, updates, history>>
<1> DEFINE b == [runner |-> handler, wakes |-> pending,
                 left |-> {t \in Targets : pending[t] # NoWake}, call |-> NoWake,
                 todo |-> {}, fresh |-> TRUE, delay |-> timer.delay]
<1>1. /\ TimerDue /\ handler # NoRunner /\ ~running /\ ~InFlight(s)
      /\ batches' = [batches EXCEPT ![s] = b] /\ running' = TRUE
      /\ pending' = NoPending /\ timer' = NoTimer /\ scheduled' = FALSE
      /\ UNCHANGED <<handler, enabled, runner, updates, history>>
  BY DEF StartBatch, TakeBatch, FreeSlot, InFlight
<1>2. timer \in Timer /\ handler \in Runners /\ pending \in Wakes /\ handler = started
  BY <1>1 DEF Base, Handlers, TypeOK, TimerDue, Wakes
<1>3. timer.delay \in Nat
  BY <1>2 DEF Timer
<1>4. b \in Batch
  BY <1>2, <1>3 DEF Batch, Wakes
<1>5. /\ b.runner = started /\ b.wakes = pending /\ b.call = NoWake
      /\ b.left = {t \in Targets : pending[t] # NoWake}
  BY <1>2
<1> HIDE DEF b
<1>6. NoBatch \notin Batch /\ batches \in [Slots -> Batch \union {NoBatch}]
  BY HeartbeatAssumption DEF HeartbeatAssumption, Base, TypeOK
<1> QED
  BY <1>1, <1>2, <1>4, <1>5, <1>6

-----------------------------------------------------------------------------
(* Type correctness *)

\* What the steps of the runner and the timer leave a batch with.
LEMMA BatchesKept ==
  ASSUME Base, started' \in Int, started' >= started,
         \A s \in Slots : batches'[s] # NoBatch =>
           InFlight(s) /\ Continues(batches'[s], batches[s])
                       /\ batches'[s].call \in {batches[s].call, NoWake} \union batches[s].left
  PROVE  BatchesFormed'
<1> SUFFICES ASSUME NEW s \in Slots, batches'[s] # NoBatch
             PROVE  /\ batches'[s].runner <= started'
                    /\ \A t \in batches'[s].left : batches'[s].wakes[t] # NoWake
                    /\ batches'[s].call # NoWake => batches'[s].wakes[batches'[s].call] # NoWake
  BY DEF BatchesFormed, InFlight
<1>1. /\ InFlight(s) /\ Continues(batches'[s], batches[s])
      /\ batches'[s].call \in {batches[s].call, NoWake} \union batches[s].left
  OBVIOUS
<1>2. batches[s].runner \in Runners /\ started \in 0..MaxRunners /\ MaxRunners \in Nat
  BY <1>1, BatchLemma, HeartbeatAssumption DEF HeartbeatAssumption, Base, TypeOK
<1>3. /\ batches[s].runner <= started
      /\ \A t \in batches[s].left : batches[s].wakes[t] # NoWake
      /\ batches[s].call # NoWake => batches[s].wakes[batches[s].call] # NoWake
  BY <1>1 DEF Base, BatchesFormed
<1>4. /\ batches'[s].runner = batches[s].runner /\ batches'[s].wakes = batches[s].wakes
      /\ batches'[s].left \subseteq batches[s].left
  BY <1>1 DEF Continues
<1>5. batches'[s].runner <= started'
  BY <1>2, <1>3, <1>4 DEF Runners
<1> QED
  BY <1>1, <1>3, <1>4, <1>5

LEMMA BatchesUntouched ==
  ASSUME Base, UNCHANGED batches, started' \in Int, started' >= started
  PROVE  BatchesFormed'
<1>1. \A s \in Slots : batches'[s] # NoBatch =>
        InFlight(s) /\ Continues(batches'[s], batches[s])
                    /\ batches'[s].call \in {batches[s].call, NoWake} \union batches[s].left
  BY BatchLemma DEF Base, InFlight
<1> QED
  BY <1>1, BatchesKept

\* The steps of the runner.
LEMMA RunnerKeepsBase ==
  ASSUME Base, NEW r \in Runners, NEW A \in SUBSET Agents,
         StartHeartbeatRunner(A) \/ StopRunner(r) \/ UpdateConfig(r, A)
  PROVE  Base'
<1>0. /\ started \in 0..MaxRunners /\ MaxRunners \in Nat /\ updates \in 0..MaxUpdates
      /\ MaxUpdates \in Nat /\ Coalesce \in Nat /\ NoRunner \notin Runners
      /\ handler \in Runners \union {NoRunner} /\ stopped \in SUBSET Runners
      /\ interval \in SUBSET Runners /\ missed \in BOOLEAN
      /\ agents \in [Runners -> SUBSET Agents] /\ due \in [Runners -> SUBSET Agents]
      /\ NoBatch \notin Batch /\ batches \in [Slots -> Batch \union {NoBatch}]
  BY HeartbeatAssumption DEF HeartbeatAssumption, Base, TypeOK
<1>h. /\ handler # NoRunner => handler = started /\ handler \notin stopped
      /\ \A q \in stopped : q <= started
  BY DEF Base, Handlers
<1>1. CASE StartHeartbeatRunner(A)
  <2> DEFINE n == started + 1
  <2>1. /\ started < MaxRunners /\ started' = n /\ handler' = n
        /\ running' = FALSE /\ scheduled' = FALSE
        /\ timer' \in {NoTimer, SetTimer(Coalesce, "normal")}
        /\ agents' = [agents EXCEPT ![n] = A] /\ interval' \in {interval, interval \union {n}}
        /\ missed' = FALSE /\ outlived' = FALSE /\ cooldown' = 0
        /\ UNCHANGED <<pending, batches, enabled, stopped, due, updates, owed>>
    BY <1>1 DEF StartHeartbeatRunner, SetHeartbeatWakeHandler
  <2>2. n \in Runners /\ n \in 0..MaxRunners /\ n \in Int /\ n >= started
    BY <1>0, <2>1 DEF Runners
  <2>3. \A q \in stopped : q # n /\ q <= n
    BY <1>0, <1>h, <2>2 DEF Runners
  <2> HIDE DEF n
  <2>4. SetTimer(Coalesce, "normal") \in Timer
    BY <1>0 DEF SetTimer, Timer
  <2>5. TypeOK'
    BY <1>0, <2>1, <2>2, <2>4 DEF Base, TypeOK
  <2>6. Handlers'
    BY <2>1, <2>3 DEF Handlers
  <2>7. BatchesFormed'
    BY <2>1, <2>2, BatchesUntouched
  <2> QED
    BY <2>5, <2>6, <2>7 DEF Base
<1>2. CASE StopRunner(r)
  <2>1. /\ r <= started /\ stopped' = stopped \union {r}
        /\ handler' = (IF handler = r THEN NoRunner ELSE handler) /\ interval' = interval \ {r}
        /\ UNCHANGED <<pending, timer, scheduled, running, batches, enabled, started,
                       agents, due, updates, history>>
    BY <1>2 DEF StopRunner
  <2>2. TypeOK'
    BY <1>0, <2>1 DEF Base, TypeOK, history
  <2>3. Handlers'
    BY <1>h, <2>1 DEF Handlers
  <2>4. BatchesFormed'
    BY <1>0, <2>1, BatchesUntouched
  <2> QED
    BY <2>2, <2>3, <2>4 DEF Base
<1>3. CASE UpdateConfig(r, A)
  <2>1. /\ updates < MaxUpdates /\ updates' = updates + 1
        /\ agents' = [agents EXCEPT ![r] = A] /\ due' = [due EXCEPT ![r] = @ \intersect A]
        /\ interval' \in {interval \ {r}, interval \union {r}}
        /\ missed' = (missed /\ handler # r)
        /\ batches' = [s \in Slots |->
             IF batches[s] # NoBatch /\ batches[s].runner = r /\ batches[s].todo # {}
             THEN [batches[s] EXCEPT !.fresh = FALSE] ELSE batches[s]]
        /\ UNCHANGED <<handler, pending, timer, scheduled, running, enabled, started,
                       stopped, owed, outlived, cooldown>>
    BY <1>3 DEF UpdateConfig
  <2>2. ASSUME NEW s \in Slots
        PROVE  /\ batches'[s] \in Batch \union {NoBatch}
               /\ batches'[s] # NoBatch =>
                    InFlight(s) /\ Continues(batches'[s], batches[s])
                                /\ batches'[s].call = batches[s].call
    <3> DEFINE b == batches[s]
               c == [b EXCEPT !.fresh = FALSE]
    <3>1. batches'[s] \in {b, c} /\ (b = NoBatch => batches'[s] = b)
      BY <2>1
    <3>2. CASE b = NoBatch
      BY <3>1, <3>2
    <3>3. CASE b # NoBatch
      <4>1. b \in Batch /\ InFlight(s)
        BY <1>0, <3>3 DEF InFlight
      <4> HIDE DEF b
      <4>2. c \in Batch /\ Continues(c, b) /\ Continues(b, b) /\ c.call = b.call
        BY <4>1 DEF Batch, Continues
      <4> HIDE DEF c
      <4> QED
        BY <3>1, <4>1, <4>2 DEF b
    <3> QED
      BY <3>2, <3>3
  <2>3. batches' \in [Slots -> Batch \union {NoBatch}]
    BY <2>1, <2>2
  <2>4. updates' \in 0..MaxUpdates /\ missed' \in BOOLEAN
    BY <1>0, <2>1
  <2>5. /\ agents' \in [Runners -> SUBSET Agents] /\ due' \in [Runners -> SUBSET Agents]
        /\ interval' \in SUBSET Runners
    BY <1>0, <2>1
  <2>6. TypeOK'
    BY <2>1, <2>3, <2>4, <2>5 DEF Base, TypeOK
  <2>7. Handlers'
    BY <1>h, <2>1 DEF Handlers
  <2>8. BatchesFormed'
    <3>1. started' \in Int /\ started' >= started
      BY <1>0, <2>1
    <3> QED
      BY <2>2, <3>1, BatchesKept
  <2> QED
    BY <2>6, <2>7, <2>8 DEF Base
<1> QED
  BY <1>1, <1>2, <1>3

\* A request, of a caller or of an interval timer.
LEMMA RequestKeepsBase ==
  ASSUME Base, NEW t \in Targets, NEW reason \in Reasons, NEW delay \in Nat,
         RequestHeartbeatNow(t, reason, delay), interval' \in SUBSET Runners,
         UNCHANGED <<started, stopped, agents, due>>
  PROVE  Base'
<1>1. /\ pending' \in Wakes /\ timer' \in Timer /\ owed' \in SUBSET Targets
      /\ UNCHANGED <<handler, scheduled, running, batches, enabled, updates,
                     missed, outlived, cooldown>>
  BY RequestEffect
<1>2. TypeOK'
  BY <1>1 DEF Base, TypeOK, Wakes
<1>3. Handlers'
  BY <1>1 DEF Base, Handlers
<1>4. started \in Int
  BY DEF Base, TypeOK
<1>5. BatchesFormed'
  BY <1>1, <1>4, BatchesUntouched
<1> QED
  BY <1>2, <1>3, <1>5 DEF Base

LEMMA RequestOf ==
  ASSUME Request
  PROVE  \E t \in Targets, reason \in Reasons, delay \in Nat :
           /\ reason # "interval" /\ <<t, reason>> \in Requests
           /\ RequestHeartbeatNow(t, reason, delay) /\ UNCHANGED runner
<1>1. PICK q \in Requests, delay \in Delays : RequestHeartbeatNow(q[1], q[2], delay)
  BY DEF Request
<1>2. PICK t \in Targets, reason \in Reasons \ {"interval"} : q = <<t, reason>>
  BY HeartbeatAssumption DEF HeartbeatAssumption
<1>3. delay \in Nat /\ <<t, reason>> \in Requests /\ UNCHANGED runner
  BY <1>2, HeartbeatAssumption DEF HeartbeatAssumption, Request
<1>4. RequestHeartbeatNow(t, reason, delay)
  BY <1>1, <1>2
<1> QED
  BY <1>3, <1>4

\* The end of a call.
LEMMA AnswersKeepBase ==
  ASSUME Base, NEW s \in Slots, NEW b, NEW w, NEW newTimer, NEW T, Answers(s, b, w, newTimer, T),
         UNCHANGED <<handler, scheduled, enabled, started, stopped, agents, updates>>,
         due' \in [Runners -> SUBSET Agents], interval' \in SUBSET Runners, missed' \in BOOLEAN,
         owed' \in SUBSET Targets, cooldown' \in Nat
  PROVE  Base'
<1>1. /\ pending' \in Wakes /\ timer' \in Timer \union {NoTimer}
      /\ batches' \in [Slots -> Batch \union {NoBatch}]
      /\ running' \in BOOLEAN /\ outlived' \in BOOLEAN /\ BatchesFormed'
  BY AnswersLemma
<1>2. TypeOK'
  BY <1>1 DEF Base, TypeOK, Wakes
<1>3. Handlers'
  BY DEF Base, Handlers
<1> QED
  BY <1>1, <1>2, <1>3 DEF Base

LEMMA StillOwedType ==
  ASSUME Base, NEW s \in Slots, InFlight(s), batches[s].call # NoWake
  PROVE  StillOwed(batches[s]) \in SUBSET Targets /\ batches[s].call \in Targets
                                                  /\ batches[s].runner \in Runners
<1>1. batches[s].call \in Targets /\ batches[s].runner \in Runners /\ owed \in SUBSET Targets
  BY BatchLemma DEF Base, TypeOK
<1> QED
  BY <1>1 DEF StillOwed

LEMMA CallKeepsBase ==
  ASSUME Base, NEW s \in Slots, NEW t \in Targets, HandOver(s, t) \/ HandOverInVain(s, t)
  PROVE  Base'
<1>0. /\ owed \in SUBSET Targets /\ due \in [Runners -> SUBSET Agents] /\ interval \in SUBSET Runners
      /\ missed \in BOOLEAN /\ cooldown \in Nat
  BY DEF Base, TypeOK
<1>1. CASE HandOver(s, t)
  <2>1. /\ InFlight(s) /\ t \in batches[s].left /\ owed' = owed \ {t}
        /\ UNCHANGED <<handler, pending, timer, scheduled, running, enabled, runner,
                       updates, missed, outlived, cooldown>>
        /\ batches' \in [Slots -> Batch \union {NoBatch}]
        /\ \A q \in Slots : q # s => batches'[q] = batches[q]
        /\ batches'[s] # NoBatch /\ Continues(batches'[s], batches[s])
        /\ batches'[s].call = t
    BY <1>1, HandOverEffect
  <2>2. TypeOK'
    BY <1>0, <2>1 DEF Base, TypeOK, runner
  <2>3. Handlers'
    BY <2>1 DEF Base, Handlers, runner
  <2>4. BatchesFormed'
    <3>1. ASSUME NEW q \in Slots, batches'[q] # NoBatch
          PROVE  /\ InFlight(q) /\ Continues(batches'[q], batches[q])
                 /\ batches'[q].call \in {batches[q].call, NoWake} \union batches[q].left
      <4>1. CASE q = s
        BY <2>1, <4>1
      <4>2. CASE q # s
        BY <2>1, <3>1, <4>2, BatchLemma DEF Base, InFlight
      <4> QED
        BY <4>1, <4>2
    <3>2. started' \in Int /\ started' >= started
      BY <2>1 DEF Base, TypeOK, runner
    <3> QED
      BY <3>1, <3>2, BatchesKept
  <2> QED
    BY <2>2, <2>3, <2>4 DEF Base
<1>2. CASE HandOverInVain(s, t)
  <2>1. /\ Answers(s, GoOn(batches[s], t), pending, timer, {}) /\ owed' = owed \ {t}
        /\ UNCHANGED <<handler, scheduled, enabled, started, stopped, agents, due, updates, cooldown>>
        /\ IF enabled THEN ScheduleNext(batches[s].runner)
           ELSE missed' = (missed \/ (t = All /\ batches[s].runner = handler)) /\ interval' = interval
    BY <1>2, InVainEffect
  <2>2. batches[s].runner \in Runners
    BY <2>1, BatchLemma DEF Answers, Base
  <2>3. interval' \in SUBSET Runners /\ missed' \in BOOLEAN
    <3>1. CASE enabled
      BY <2>1, <2>2, <3>1, ScheduleNextType
    <3>2. CASE ~enabled
      BY <1>0, <2>1, <3>2
    <3> QED
      BY <3>1, <3>2
  <2> QED
    BY <1>0, <2>1, <2>3, AnswersKeepBase
<1> QED
  BY <1>1, <1>2

LEMMA AnswerKeepsBase ==
  ASSUME Base, NEW s \in Slots, NEW a \in Agents, AgentDone(s, a) \/ AgentBusy(s, a)
  PROVE  Base'
<1>0. /\ owed \in SUBSET Targets /\ interval \in SUBSET Runners /\ missed \in BOOLEAN
      /\ cooldown \in Nat /\ Retry \in Nat
  BY HeartbeatAssumption DEF HeartbeatAssumption, Base, TypeOK
<1>1. CASE AgentDone(s, a)
  <2>1. /\ InFlight(s) /\ batches[s].call # NoWake /\ due' \in [Runners -> SUBSET Agents]
        /\ UNCHANGED <<handler, scheduled, enabled, started, stopped, agents, updates, owed, cooldown>>
        /\ \/ \E b \in Batch : /\ b.left = batches[s].left
                               /\ Answers(s, b, pending, timer, {}) /\ ScheduleNext(batches[s].runner)
           \/ /\ UNCHANGED <<pending, timer, running, interval, missed, outlived>>
              /\ batches' \in [Slots -> Batch \union {NoBatch}]
              /\ \A q \in Slots : q # s => batches'[q] = batches[q]
              /\ batches'[s] # NoBatch /\ Continues(batches'[s], batches[s])
              /\ batches'[s].left = batches[s].left /\ batches'[s].call = batches[s].call
    BY <1>1, AgentDoneEffect
  <2>2. ASSUME NEW b, Answers(s, b, pending, timer, {}), ScheduleNext(batches[s].runner)
        PROVE  Base'
    <3>1. batches[s].runner \in Runners
      BY <2>1, BatchLemma DEF Base
    <3>2. interval' \in SUBSET Runners /\ missed' \in BOOLEAN
      BY <2>2, <3>1, ScheduleNextType
    <3> QED
      BY <1>0, <2>1, <2>2, <3>2, AnswersKeepBase
  <2>3. ASSUME UNCHANGED <<pending, timer, running, interval, missed, outlived>>,
               batches' \in [Slots -> Batch \union {NoBatch}],
               \A q \in Slots : q # s => batches'[q] = batches[q],
               batches'[s] # NoBatch, Continues(batches'[s], batches[s]),
               batches'[s].call = batches[s].call
        PROVE  Base'
    <3>1. TypeOK'
      BY <1>0, <2>1, <2>3 DEF Base, TypeOK
    <3>2. Handlers'
      BY <2>1 DEF Base, Handlers
    <3>3. ASSUME NEW q \in Slots, batches'[q] # NoBatch
          PROVE  /\ InFlight(q) /\ Continues(batches'[q], batches[q])
                 /\ batches'[q].call \in {batches[q].call, NoWake} \union batches[q].left
      <4>1. CASE q = s
        BY <2>1, <2>3, <4>1
      <4>2. CASE q # s
        BY <2>3, <3>3, <4>2, BatchLemma DEF Base, InFlight
      <4> QED
        BY <4>1, <4>2
    <3>4. started' \in Int /\ started' >= started
      BY <2>1 DEF Base, TypeOK
    <3>5. BatchesFormed'
      BY <3>3, <3>4, BatchesKept
    <3> QED
      BY <3>1, <3>2, <3>5 DEF Base
  <2> QED
    BY <2>1, <2>2, <2>3
<1>2. CASE AgentBusy(s, a)
  <2>1. /\ batches[s].call # NoWake /\ owed' = StillOwed(batches[s])
        /\ Answers(s, batches[s], Requeued(batches[s]), Schedule(timer, Retry, "retry"), {batches[s].call})
        /\ cooldown' = (IF timer = NoTimer THEN Retry ELSE cooldown)
        /\ due' \in [Runners -> SUBSET Agents]
        /\ ScheduleNext(batches[s].runner) \/ UNCHANGED <<interval, missed>>
        /\ UNCHANGED <<handler, scheduled, enabled, started, stopped, agents, updates>>
    BY <1>2, AgentBusyEffect
  <2>2. owed' \in SUBSET Targets /\ batches[s].runner \in Runners
    BY <2>1, StillOwedType DEF Answers
  <2>3. interval' \in SUBSET Runners /\ missed' \in BOOLEAN
    BY <1>0, <2>1, <2>2, ScheduleNextType
  <2>4. cooldown' \in Nat
    BY <1>0, <2>1
  <2> QED
    BY <2>1, <2>2, <2>3, <2>4, AnswersKeepBase
<1> QED
  BY <1>1, <1>2

LEMMA ThrowKeepsBase ==
  ASSUME Base, NEW s \in Slots, HandlerThrows(s)
  PROVE  Base'
<1>0. /\ due \in [Runners -> SUBSET Agents] /\ interval \in SUBSET Runners /\ missed \in BOOLEAN
      /\ cooldown \in Nat /\ Retry \in Nat
  BY HeartbeatAssumption DEF HeartbeatAssumption, Base, TypeOK
<1>1. /\ batches[s].call # NoWake /\ owed' = StillOwed(batches[s])
      /\ Answers(s, [batches[s] EXCEPT !.left = {}], Thrown(s), Schedule(timer, Retry, "retry"), Targets)
      /\ cooldown' = (IF timer = NoTimer THEN Retry ELSE cooldown)
      /\ UNCHANGED <<handler, scheduled, enabled, runner, updates, missed>>
  BY ThrowsEffect
<1>2. owed' \in SUBSET Targets
  BY <1>1, StillOwedType DEF Answers
<1>3. cooldown' \in Nat /\ missed' \in BOOLEAN
  BY <1>0, <1>1
<1>4. /\ UNCHANGED <<handler, scheduled, enabled, started, stopped, agents, updates>>
      /\ due' \in [Runners -> SUBSET Agents] /\ interval' \in SUBSET Runners
  BY <1>0, <1>1 DEF runner
<1> QED
  BY <1>1, <1>2, <1>3, <1>4, AnswersKeepBase

\* The timer, and the steps that touch neither wakes nor batches.
LEMMA TickEffect ==
  ASSUME Base, Tick
  PROVE  /\ timer' \in Timer \union {NoTimer} /\ cooldown' \in Nat
         /\ timer # NoTimer => timer' # NoTimer /\ timer'.kind = timer.kind
         /\ timer = NoTimer => timer' = NoTimer
         /\ cooldown' = (IF cooldown > 0 THEN cooldown - 1 ELSE 0)
         /\ timer # NoTimer => timer'.left = (IF timer.left > 0 THEN timer.left - 1 ELSE timer.left)
         /\ UNCHANGED <<handler, pending, scheduled, running, batches, enabled, runner,
                        updates, owed, missed, outlived>>
<1>1. timer \in Timer \union {NoTimer} /\ NoTimer \notin Timer /\ cooldown \in Nat
  BY HeartbeatAssumption DEF HeartbeatAssumption, Base, TypeOK
<1>2. /\ timer' = IF timer # NoTimer /\ timer.left > 0
                  THEN [timer EXCEPT !.left = @ - 1] ELSE timer
      /\ cooldown' = (IF cooldown > 0 THEN cooldown - 1 ELSE 0)
      /\ UNCHANGED <<handler, pending, scheduled, running, batches, enabled, runner,
                     updates, owed, missed, outlived>>
  BY DEF Tick
<1>3. cooldown' \in Nat
  BY <1>1, <1>2
<1>4. CASE timer = NoTimer
  BY <1>2, <1>3, <1>4
<1>5. CASE timer # NoTimer
  <2>1. timer \in Timer
    BY <1>1, <1>5
  <2>2. timer' = IF timer.left > 0 THEN [timer EXCEPT !.left = @ - 1] ELSE timer
    BY <1>2, <1>5
  <2>3. /\ timer' \in Timer /\ timer'.kind = timer.kind
        /\ timer'.left = (IF timer.left > 0 THEN timer.left - 1 ELSE timer.left)
    BY <2>1, <2>2 DEF Timer
  <2> QED
    BY <1>1, <1>2, <1>3, <1>5, <2>3
<1> QED
  BY <1>4, <1>5


\* A due timer that takes no batch, for want of a handler or while one runs.
LEMMA FireEffect ==
  ASSUME Base, FireUnhandled \/ FireWhileRunning
  PROVE  /\ timer' \in Timer \union {NoTimer} /\ scheduled' \in BOOLEAN
         /\ handler # NoRunner => timer' # NoTimer /\ timer'.left = timer.delay
                                  /\ timer'.kind = timer.kind
         /\ timer # NoTimer /\ timer.left = 0
         /\ UNCHANGED <<handler, pending, running, batches, enabled, runner, updates, history>>
<1>0. timer \in Timer \union {NoTimer} /\ NoTimer \notin Timer
  BY HeartbeatAssumption DEF HeartbeatAssumption, Base, TypeOK
<1>1. CASE FireUnhandled
  <2>1. /\ timer # NoTimer /\ timer.left = 0 /\ handler = NoRunner /\ timer' = NoTimer
        /\ scheduled' = FALSE
        /\ UNCHANGED <<handler, pending, running, batches, enabled, runner, updates, history>>
    BY <1>1 DEF FireUnhandled, TimerDue
  <2> QED
    BY <2>1
<1>2. CASE FireWhileRunning
  <2>1. /\ timer # NoTimer /\ timer.left = 0 /\ timer' = SetTimer(timer.delay, timer.kind)
        /\ scheduled' = TRUE
        /\ UNCHANGED <<handler, pending, running, batches, enabled, runner, updates, history>>
    BY <1>2 DEF FireWhileRunning, TimerDue
  <2>2. timer \in Timer
    BY <1>0, <2>1
  <2>3. /\ SetTimer(timer.delay, timer.kind) \in Timer
        /\ SetTimer(timer.delay, timer.kind).left = timer.delay
        /\ SetTimer(timer.delay, timer.kind).kind = timer.kind
    BY <2>2 DEF SetTimer, Timer
  <2> QED
    BY <1>0, <2>1, <2>3
<1> QED
  BY <1>1, <1>2

LEMMA TimerKeepsBase ==
  ASSUME Base, Tick \/ FireTimer
  PROVE  Base'
<1>0. started \in Int
  BY DEF Base, TypeOK
<1>1. CASE Tick
  <2>1. /\ timer' \in Timer \union {NoTimer} /\ cooldown' \in Nat
        /\ UNCHANGED <<handler, pending, scheduled, running, batches, enabled, runner,
                       updates, owed, missed, outlived>>
    BY <1>1, TickEffect
  <2>2. TypeOK' /\ Handlers'
    BY <2>1 DEF Base, TypeOK, Handlers, runner
  <2>3. BatchesFormed'
    BY <1>0, <2>1, BatchesUntouched DEF runner
  <2> QED
    BY <2>2, <2>3 DEF Base
<1>2. CASE FireUnhandled \/ FireWhileRunning
  <2>1. /\ timer' \in Timer \union {NoTimer} /\ scheduled' \in BOOLEAN
        /\ UNCHANGED <<handler, pending, running, batches, enabled, runner, updates, history>>
    BY <1>2, FireEffect
  <2>2. TypeOK' /\ Handlers'
    BY <2>1 DEF Base, TypeOK, Handlers, runner, history
  <2>3. BatchesFormed'
    BY <1>0, <2>1, BatchesUntouched DEF runner
  <2> QED
    BY <2>2, <2>3 DEF Base
<1>3. ASSUME NEW s \in Slots, StartBatch(s)
      PROVE  Base'
  <2>1. /\ handler = started /\ ~InFlight(s)
        /\ pending' = NoPending /\ timer' = NoTimer /\ scheduled' = FALSE /\ running' = TRUE
        /\ batches' \in [Slots -> Batch \union {NoBatch}]
        /\ \A q \in Slots : q # s => batches'[q] = batches[q]
        /\ batches'[s].runner = started
        /\ batches'[s].wakes = pending /\ batches'[s].call = NoWake
        /\ batches'[s].left = {t \in Targets : pending[t] # NoWake}
        /\ UNCHANGED <<handler, enabled, runner, updates, history>>
    BY <1>3, StartEffect
  <2>2. NoPending \in Wakes
    BY DEF NoPending, Wakes
  <2>3. TypeOK'
    BY <2>1, <2>2 DEF Base, TypeOK, Wakes, runner, history
  <2>4. Handlers'
    BY <2>1 DEF Base, Handlers, runner
  <2>5. ASSUME NEW q \in Slots, batches'[q] # NoBatch
        PROVE  /\ batches'[q].runner <= started'
               /\ \A t \in batches'[q].left : batches'[q].wakes[t] # NoWake
               /\ batches'[q].call # NoWake => batches'[q].wakes[batches'[q].call] # NoWake
    <3>1. CASE q = s
      BY <1>0, <2>1, <3>1 DEF runner
    <3>2. CASE q # s
      BY <2>1, <2>5, <3>2 DEF Base, BatchesFormed, InFlight, runner
    <3> QED
      BY <3>1, <3>2
  <2>6. BatchesFormed'
    BY <2>5 DEF BatchesFormed, InFlight
  <2> QED
    BY <2>3, <2>4, <2>6 DEF Base
<1> QED
  BY <1>1, <1>2, <1>3 DEF FireTimer

\* The steps that touch neither wakes, timers nor batches.
Aside ==
  \/ \E r \in Runners, a \in Agents : AgentFallsDue(r, a)
  \/ \E on \in BOOLEAN : SetHeartbeatsEnabled(on)
  \/ UNCHANGED vars

LEMMA AsideEffect ==
  ASSUME Base, Aside
  PROVE  /\ due' \in [Runners -> SUBSET Agents] /\ enabled' \in BOOLEAN
         /\ UNCHANGED <<wake, started, stopped, agents, interval, updates, history>>
<1>0. due \in [Runners -> SUBSET Agents] /\ enabled \in BOOLEAN
  BY DEF Base, TypeOK
<1>1. ASSUME NEW r \in Runners, NEW a \in Agents, AgentFallsDue(r, a)
      PROVE  /\ due' = [due EXCEPT ![r] = @ \union {a}] /\ enabled' = enabled
             /\ UNCHANGED <<wake, started, stopped, agents, interval, updates, history>>
  BY <1>1 DEF AgentFallsDue
<1>2. ASSUME NEW on \in BOOLEAN, SetHeartbeatsEnabled(on)
      PROVE  /\ due' = due /\ enabled' = on
             /\ UNCHANGED <<wake, started, stopped, agents, interval, updates, history>>
  BY <1>2 DEF SetHeartbeatsEnabled, runner
<1>3. ASSUME UNCHANGED vars
      PROVE  /\ due' = due /\ enabled' = enabled
             /\ UNCHANGED <<wake, started, stopped, agents, interval, updates, history>>
  BY <1>3 DEF vars, runner
<1> QED
  BY <1>0, <1>1, <1>2, <1>3 DEF Aside

LEMMA AsideKeepsBase ==
  ASSUME Base, Aside
  PROVE  Base'
<1>1. /\ due' \in [Runners -> SUBSET Agents] /\ enabled' \in BOOLEAN
      /\ UNCHANGED <<wake, started, stopped, agents, interval, updates, history>>
  BY AsideEffect
<1>2. TypeOK' /\ Handlers'
  BY <1>1 DEF Base, TypeOK, Handlers, wake, history
<1>3. started \in Int
  BY DEF Base, TypeOK
<1>4. BatchesFormed'
  BY <1>1, <1>3, BatchesUntouched DEF wake
<1> QED
  BY <1>2, <1>4 DEF Base

\* The kinds of steps.
LEMMA StepCases ==
  ASSUME [Next]_vars
  PROVE  \/ \E t \in Targets, reason \in Reasons, delay \in Nat :
              /\ RequestHeartbeatNow(t, reason, delay)
              /\ UNCHANGED <<started, stopped, agents, due>>
              /\ \/ <<t, reason>> \in Requests /\ reason # "interval" /\ interval' = interval
                 \/ /\ t = All /\ reason = "interval"
                    /\ \E r \in Runners : interval' = interval \ {r}
         \/ Tick \/ FireTimer
         \/ \E s \in Slots, t \in Targets : HandOver(s, t) \/ HandOverInVain(s, t)
         \/ \E s \in Slots, a \in Agents : AgentDone(s, a) \/ AgentBusy(s, a)
         \/ \E s \in Slots : HandlerThrows(s)
         \/ \E A \in SUBSET Agents : StartHeartbeatRunner(A)
         \/ \E r \in Runners : StopRunner(r)
         \/ \E r \in Runners, A \in SUBSET Agents : UpdateConfig(r, A)
         \/ Aside
<1>1. ASSUME Request
      PROVE  \E t \in Targets, reason \in Reasons, delay \in Nat :
               /\ RequestHeartbeatNow(t, reason, delay)
               /\ UNCHANGED <<started, stopped, agents, due>>
               /\ <<t, reason>> \in Requests /\ reason # "interval" /\ interval' = interval
  BY <1>1, RequestOf DEF runner
<1>2. ASSUME NEW r \in Runners, IntervalTimer(r)
      PROVE  /\ All \in Targets /\ "interval" \in Reasons /\ 0 \in Nat
             /\ RequestHeartbeatNow(All, "interval", 0)
             /\ UNCHANGED <<started, stopped, agents, due>> /\ interval' = interval \ {r}
  BY <1>2 DEF IntervalTimer, Targets, Reasons
<1>3. CASE Next
  BY <1>1, <1>2, <1>3 DEF Next, Call, Aside
<1>4. CASE UNCHANGED vars
  BY <1>4 DEF Aside
<1> QED
  BY <1>3, <1>4

LEMMA BaseNext ==
  ASSUME Base, [Next]_vars
  PROVE  Base'
<1>1. ASSUME NEW t \in Targets, NEW reason \in Reasons, NEW delay \in Nat,
             RequestHeartbeatNow(t, reason, delay), UNCHANGED <<started, stopped, agents, due>>,
             interval' = interval \/ \E r \in Runners : interval' = interval \ {r}
      PROVE  Base'
  <2>1. interval' \in SUBSET Runners
    BY <1>1 DEF Base, TypeOK
  <2> QED
    BY <1>1, <2>1, RequestKeepsBase
<1>2. ASSUME NEW A \in SUBSET Agents, StartHeartbeatRunner(A)
      PROVE  Base'
  <2>1. started + 1 \in Runners
    BY <1>2, HeartbeatAssumption
       DEF StartHeartbeatRunner, HeartbeatAssumption, Base, TypeOK, Runners
  <2> QED
    BY <1>2, <2>1, RunnerKeepsBase
<1>3. ASSUME NEW r \in Runners, StopRunner(r)
      PROVE  Base'
  <2>1. {} \in SUBSET Agents
    OBVIOUS
  <2> QED
    BY <1>3, <2>1, RunnerKeepsBase
<1>4. ASSUME NEW r \in Runners, NEW A \in SUBSET Agents, UpdateConfig(r, A)
      PROVE  Base'
  BY <1>4, RunnerKeepsBase
<1> QED
  BY <1>1, <1>2, <1>3, <1>4, StepCases, TimerKeepsBase, CallKeepsBase, AnswerKeepsBase,
     ThrowKeepsBase, AsideKeepsBase

\* Every reachable state is of its type, with the shape of the handlers and
\* the batches that the other invariants rest on.
LEMMA BaseInvariance == Spec => []Base
<1>1. Base /\ [Next]_vars => Base'
  BY BaseNext
<1> QED
  BY BaseInit, <1>1, PTL DEF Spec

\* Type correctness of the wake layer and the runners, whatever the interleaving
\* of requests, timers, handler calls and restarts (heartbeat-wake.ts, heartbeat-runner.ts).
THEOREM TypeCorrect == Spec => []TypeOK
<1>1. Base => TypeOK
  BY DEF Base
<1> QED
  BY BaseInvariance, <1>1, PTL

-----------------------------------------------------------------------------
(* What a step of a batch leaves behind *)

\* A step of the batch in slot s, which puts the wakes of T back.
CallStep(s, T) ==
  /\ InFlight(s)
  /\ UNCHANGED <<handler, started, stopped, agents>>
  /\ \A q \in Slots : q # s => batches'[q] = batches[q]
  /\ Restores(pending', s, T)
  /\ \/ /\ batches'[s] = NoBatch /\ running' = FALSE
        /\ outlived' = (outlived \/ batches[s].runner # started)
     \/ /\ batches'[s] # NoBatch /\ Continues(batches'[s], batches[s])
        /\ UNCHANGED <<running, outlived>>

\* What becomes of its timer and the cooldown ...
CallTimer ==
  /\ timer # NoTimer \/ pending' # pending => timer' # NoTimer
  /\ timer # NoTimer /\ timer.kind = "retry" => timer' = timer
  /\ \/ cooldown' = cooldown
     \/ timer = NoTimer /\ cooldown' = Retry /\ timer' = SetTimer(Retry, "retry")

\* ... of the requests that it was to hand over ...
CallRequests(s, T) ==
  /\ \A t \in batches[s].left :
       \/ batches'[s] # NoBatch /\ t \in batches'[s].left
       \/ t \in T \/ t \notin owed'
  /\ \A t \in owed' : t \in owed \/ (t \in T /\ Asked(batches[s].wakes[t]))

\* ... and of the next interval.
CallInterval(s, T) ==
  /\ \/ ScheduleNext(batches[s].runner)
     \/ interval' = interval /\ (missed => missed')
  /\ All \in batches[s].left \union {batches[s].call} =>
       \/ batches'[s] # NoBatch /\ All \in batches'[s].left \union {batches'[s].call}
       \/ All \in T \/ ScheduleNext(batches[s].runner)
       \/ missed' \/ batches[s].runner # handler

CallEffect(s) ==
  \E T \in SUBSET Targets :
    CallStep(s, T) /\ CallTimer /\ CallRequests(s, T) /\ CallInterval(s, T)

\* The end of a call, for CallStep and CallTimer.
LEMMA AnswersStep ==
  ASSUME Base, NEW s \in Slots, NEW b, NEW w, NEW newTimer, NEW T, Answers(s, b, w, newTimer, T),
         UNCHANGED <<handler, started, stopped, agents>>
  PROVE  /\ CallStep(s, T) /\ pending' = w
         /\ newTimer # NoTimer => timer' # NoTimer
         /\ newTimer # NoTimer /\ newTimer.kind = "retry" => timer' = newTimer
         /\ b.left # {} => batches'[s] # NoBatch /\ batches'[s].left = b.left
<1>1. /\ InFlight(s) /\ Continues(b, batches[s]) /\ Restores(w, s, T) /\ w \in Wakes
      /\ newTimer \in Timer \union {NoTimer} /\ SettleCall(s, b, w, newTimer) /\ TypeOK
  BY DEF Answers, Restores, Base
<1>2. /\ pending' = w
      /\ \A q \in Slots : q # s => batches'[q] = batches[q]
      /\ \/ /\ b.left = {} /\ batches'[s] = NoBatch /\ running' = FALSE
            /\ outlived' = (outlived \/ b.runner # started)
         \/ /\ b.left # {} /\ batches'[s] # NoBatch
            /\ Continues(batches'[s], batches[s])
            /\ batches'[s].left = b.left
            /\ UNCHANGED <<running, outlived>>
      /\ newTimer # NoTimer => timer' # NoTimer
      /\ newTimer # NoTimer /\ newTimer.kind = "retry" => timer' = newTimer
  BY <1>1, SettleLemma
<1>3. b.runner = batches[s].runner
  BY <1>1 DEF Continues
<1>4. CallStep(s, T)
  BY <1>1, <1>2, <1>3 DEF CallStep
<1> QED
  BY <1>2, <1>4

\* A busy or failing call sets a timer for the retry, unless it finds one.
LEMMA RetryTimer ==
  ASSUME Base, timer' # NoTimer,
         Schedule(timer, Retry, "retry").kind = "retry" => timer' = Schedule(timer, Retry, "retry"),
         cooldown' = (IF timer = NoTimer THEN Retry ELSE cooldown)
  PROVE  CallTimer
<1>1. /\ timer \in Timer \union {NoTimer} /\ Retry \in Nat /\ "retry" \in {"normal", "retry"}
  BY HeartbeatAssumption DEF HeartbeatAssumption, Base, TypeOK
<1>2. /\ timer # NoTimer /\ timer.kind = "retry" => Schedule(timer, Retry, "retry") = timer
      /\ timer = NoTimer => Schedule(timer, Retry, "retry") = SetTimer(Retry, "retry")
  BY <1>1, ScheduleLemma
<1>3. SetTimer(Retry, "retry").kind = "retry"
  BY DEF SetTimer
<1>4. CASE timer = NoTimer
  BY <1>2, <1>3, <1>4 DEF CallTimer
<1>5. CASE timer # NoTimer
  BY <1>2, <1>5 DEF CallTimer
<1> QED
  BY <1>4, <1>5

LEMMA HandOverStep ==
  ASSUME Base, NEW s \in Slots, NEW t \in Targets, HandOver(s, t)
  PROVE  CallEffect(s)
<1>1. /\ InFlight(s) /\ t \in batches[s].left /\ batches[s].call = NoWake
      /\ owed' = owed \ {t}
      /\ UNCHANGED <<handler, pending, timer, scheduled, running, enabled, runner,
                     updates, missed, outlived, cooldown>>
      /\ \A q \in Slots : q # s => batches'[q] = batches[q]
      /\ batches'[s] # NoBatch /\ Continues(batches'[s], batches[s])
      /\ batches'[s].left = batches[s].left \ {t} /\ batches'[s].call = t
  BY HandOverEffect
<1>2. Restores(pending, s, {}) /\ All # NoWake
  BY <1>1, NothingRestored, HeartbeatAssumption DEF HeartbeatAssumption, Targets
<1>3. CallStep(s, {})
  BY <1>1, <1>2 DEF CallStep, runner
<1>4. CallTimer
  BY <1>1 DEF CallTimer
<1>5. CallRequests(s, {})
  BY <1>1 DEF CallRequests
<1>6. CallInterval(s, {})
  BY <1>1, <1>2 DEF CallInterval, runner
<1> QED
  BY <1>3, <1>4, <1>5, <1>6 DEF CallEffect

LEMMA InVainStep ==
  ASSUME Base, NEW s \in Slots, NEW t \in Targets, HandOverInVain(s, t)
  PROVE  CallEffect(s)
<1> DEFINE b == GoOn(batches[s], t)
<1>1. /\ t \in batches[s].left /\ batches[s].call = NoWake
      /\ b.left = batches[s].left \ {t}
      /\ Answers(s, b, pending, timer, {})
      /\ owed' = owed \ {t}
      /\ UNCHANGED <<handler, started, stopped, agents, cooldown>>
      /\ IF enabled THEN ScheduleNext(batches[s].runner)
         ELSE /\ missed' = (missed \/ (t = All /\ batches[s].runner = handler))
              /\ interval' = interval
  BY InVainEffect
<1> HIDE DEF b
<1>2. /\ CallStep(s, {}) /\ pending' = pending
      /\ timer # NoTimer => timer' # NoTimer
      /\ timer # NoTimer /\ timer.kind = "retry" => timer' = timer
      /\ b.left # {} => batches'[s] # NoBatch /\ batches'[s].left = b.left
  BY <1>1, AnswersStep
<1>3. All # NoWake
  BY HeartbeatAssumption DEF HeartbeatAssumption, Targets
<1>4. CallTimer
  BY <1>1, <1>2 DEF CallTimer
<1>5. CallRequests(s, {})
  BY <1>1, <1>2 DEF CallRequests
<1>6. CallInterval(s, {})
  <2>1. CASE enabled
    BY <1>1, <2>1 DEF CallInterval
  <2>2. CASE ~enabled
    <3>1. interval' = interval /\ missed' = (missed \/ (t = All /\ batches[s].runner = handler))
      BY <1>1, <2>2
    <3>2. CASE t = All
      BY <3>1, <3>2 DEF CallInterval
    <3>3. CASE t # All
      BY <1>1, <1>2, <1>3, <3>1, <3>3 DEF CallInterval
    <3> QED
      BY <3>2, <3>3
  <2> QED
    BY <2>1, <2>2
<1> QED
  BY <1>2, <1>4, <1>5, <1>6 DEF CallEffect

LEMMA AgentDoneStep ==
  ASSUME Base, NEW s \in Slots, NEW a \in Agents, AgentDone(s, a)
  PROVE  CallEffect(s)
<1>1. /\ InFlight(s) /\ UNCHANGED <<handler, started, stopped, agents, owed, cooldown>>
      /\ \/ \E b \in Batch : /\ b.left = batches[s].left
                             /\ Answers(s, b, pending, timer, {}) /\ ScheduleNext(batches[s].runner)
         \/ /\ UNCHANGED <<pending, timer, running, interval, missed, outlived>>
            /\ \A q \in Slots : q # s => batches'[q] = batches[q]
            /\ batches'[s] # NoBatch /\ Continues(batches'[s], batches[s])
            /\ batches'[s].left = batches[s].left /\ batches'[s].call = batches[s].call
  BY AgentDoneEffect
<1>2. ASSUME NEW b \in Batch, b.left = batches[s].left, Answers(s, b, pending, timer, {}),
             ScheduleNext(batches[s].runner)
      PROVE  CallEffect(s)
  <2>1. /\ CallStep(s, {}) /\ pending' = pending
        /\ timer # NoTimer => timer' # NoTimer
        /\ timer # NoTimer /\ timer.kind = "retry" => timer' = timer
        /\ b.left # {} => batches'[s] # NoBatch /\ batches'[s].left = b.left
    BY <1>1, <1>2, AnswersStep
  <2>2. CallTimer /\ CallInterval(s, {})
    BY <1>1, <1>2, <2>1 DEF CallTimer, CallInterval
  <2>3. CallRequests(s, {})
    BY <1>1, <1>2, <2>1 DEF CallRequests
  <2> QED
    BY <2>1, <2>2, <2>3 DEF CallEffect
<1>3. ASSUME UNCHANGED <<pending, timer, running, interval, missed, outlived>>,
             \A q \in Slots : q # s => batches'[q] = batches[q],
             batches'[s] # NoBatch, Continues(batches'[s], batches[s]),
             batches'[s].left = batches[s].left, batches'[s].call = batches[s].call
      PROVE  CallEffect(s)
  <2>1. Restores(pending', s, {})
    BY <1>1, <1>3, NothingRestored
  <2>2. CallStep(s, {})
    BY <1>1, <1>3, <2>1 DEF CallStep
  <2>3. CallTimer /\ CallInterval(s, {}) /\ CallRequests(s, {})
    BY <1>1, <1>3 DEF CallTimer, CallInterval, CallRequests
  <2> QED
    BY <2>2, <2>3 DEF CallEffect
<1> QED
  BY <1>1, <1>2, <1>3

LEMMA AgentBusyStep ==
  ASSUME Base, NEW s \in Slots, NEW a \in Agents, AgentBusy(s, a)
  PROVE  CallEffect(s)
<1> DEFINE b == batches[s]
           newTimer == Schedule(timer, Retry, "retry")
<1>1. /\ b.call # NoWake /\ b.wakes[b.call] # NoWake
      /\ Answers(s, b, Requeued(b), newTimer, {b.call})
      /\ owed' = StillOwed(b)
      /\ cooldown' = (IF timer = NoTimer THEN Retry ELSE cooldown)
      /\ IF b.call # All THEN ScheduleNext(b.runner) ELSE UNCHANGED <<interval, missed>>
      /\ UNCHANGED <<handler, started, stopped, agents>>
  BY AgentBusyEffect
<1>2. /\ timer \in Timer \union {NoTimer} /\ Retry \in Nat /\ b.call \in Targets
      /\ b.wakes \in Wakes
  BY <1>1, BatchLemma, HeartbeatAssumption DEF HeartbeatAssumption, Base, TypeOK, Answers
<1>3. newTimer # NoTimer
  BY <1>2, ScheduleLemma
<1> DEFINE w == Requeued(b)
<1> HIDE DEF newTimer, w
<1>4. /\ CallStep(s, {b.call}) /\ pending' = w
      /\ newTimer # NoTimer => timer' # NoTimer
      /\ newTimer # NoTimer /\ newTimer.kind = "retry" => timer' = newTimer
      /\ b.left # {} => batches'[s] # NoBatch /\ batches'[s].left = b.left
  BY <1>1, AnswersStep DEF w
<1>5. CallTimer
  BY <1>1, <1>3, <1>4, RetryTimer DEF newTimer
<1>6. CallRequests(s, {b.call})
  <2>1. owed' = owed \/ (b.wakes[b.call] # "interval" /\ owed' = owed \union {b.call})
    BY <1>1 DEF StillOwed
  <2>2. b.wakes[b.call] # "interval" => Asked(b.wakes[b.call])
    BY <1>1, <1>2 DEF Asked, Wakes
  <2> QED
    BY <1>4, <2>1, <2>2 DEF CallRequests
<1>7. CallInterval(s, {b.call})
  BY <1>1, <1>4 DEF CallInterval
<1> QED
  BY <1>2, <1>4, <1>5, <1>6, <1>7 DEF CallEffect

LEMMA ThrowsStep ==
  ASSUME Base, NEW s \in Slots, HandlerThrows(s)
  PROVE  CallEffect(s)
<1> DEFINE b == batches[s]
           c == [b EXCEPT !.left = {}]
           newTimer == Schedule(timer, Retry, "retry")
<1>1. /\ b.call # NoWake /\ b.wakes[b.call] # NoWake
      /\ Answers(s, c, Thrown(s), newTimer, Targets)
      /\ owed' = StillOwed(b)
      /\ cooldown' = (IF timer = NoTimer THEN Retry ELSE cooldown)
      /\ UNCHANGED <<handler, started, stopped, agents>>
      /\ UNCHANGED <<interval, missed>>
  BY ThrowsEffect DEF runner
<1>2. /\ timer \in Timer \union {NoTimer} /\ Retry \in Nat /\ b.call \in Targets
      /\ b.wakes \in Wakes /\ b.left \subseteq Targets
  BY <1>1, BatchLemma, HeartbeatAssumption DEF HeartbeatAssumption, Base, TypeOK, Answers
<1>3. newTimer # NoTimer
  BY <1>2, ScheduleLemma
<1> DEFINE w == Thrown(s)
<1> HIDE DEF newTimer, w, c
<1>4. /\ CallStep(s, Targets) /\ pending' = w
      /\ newTimer # NoTimer => timer' # NoTimer
      /\ newTimer # NoTimer /\ newTimer.kind = "retry" => timer' = newTimer
  BY <1>1, AnswersStep DEF w
<1>5. CallTimer
  BY <1>1, <1>3, <1>4, RetryTimer DEF newTimer
<1>6. CallRequests(s, Targets)
  <2>1. owed' = owed \/ (b.wakes[b.call] # "interval" /\ owed' = owed \union {b.call})
    BY <1>1 DEF StillOwed
  <2>2. b.wakes[b.call] # "interval" => Asked(b.wakes[b.call])
    BY <1>1, <1>2 DEF Asked, Wakes
  <2> QED
    BY <1>2, <2>1, <2>2 DEF CallRequests
<1>7. CallInterval(s, Targets)
  BY <1>1 DEF CallInterval, Targets
<1> QED
  BY <1>4, <1>5, <1>6, <1>7 DEF CallEffect

\* The kinds of steps, with what those of a batch have in common.
LEMMA StepKinds ==
  ASSUME Base, [Next]_vars
  PROVE  \/ \E t \in Targets, reason \in Reasons, delay \in Nat :
              /\ RequestHeartbeatNow(t, reason, delay)
              /\ UNCHANGED <<started, stopped, agents, due>>
              /\ \/ <<t, reason>> \in Requests /\ reason # "interval" /\ interval' = interval
                 \/ /\ t = All /\ reason = "interval"
                    /\ \E r \in Runners : interval' = interval \ {r}
         \/ Tick \/ FireUnhandled \/ FireWhileRunning
         \/ \E s \in Slots : StartBatch(s)
         \/ \E s \in Slots : CallEffect(s)
         \/ \E A \in SUBSET Agents : StartHeartbeatRunner(A)
         \/ \E r \in Runners : StopRunner(r)
         \/ \E r \in Runners, A \in SUBSET Agents : UpdateConfig(r, A)
         \/ Aside
<1>1. ASSUME NEW s \in Slots, NEW t \in Targets, HandOver(s, t) \/ HandOverInVain(s, t)
      PROVE  CallEffect(s)
  BY <1>1, HandOverStep, InVainStep
<1>2. ASSUME NEW s \in Slots, NEW a \in Agents, AgentDone(s, a) \/ AgentBusy(s, a)
      PROVE  CallEffect(s)
  BY <1>2, AgentDoneStep, AgentBusyStep
<1>3. ASSUME NEW s \in Slots, HandlerThrows(s)
      PROVE  CallEffect(s)
  BY <1>3, ThrowsStep
<1> QED
  BY <1>1, <1>2, <1>3, StepCases DEF FireTimer

-----------------------------------------------------------------------------
(* Pending wakes have a timer *)

LEMMA TimerNext ==
  ASSUME Base, PendingHasTimer, [Next]_vars
  PROVE  PendingHasTimer'
<1> SUFFICES ASSUME handler' # NoRunner, pending' # NoPending
             PROVE  timer' # NoTimer
  BY DEF PendingHasTimer, NoPending
<1>0. handler # NoRunner /\ pending # NoPending => timer # NoTimer
  BY DEF PendingHasTimer
<1>1. ASSUME NEW t \in Targets, NEW reason \in Reasons, NEW delay \in Nat,
             RequestHeartbeatNow(t, reason, delay)
      PROVE  timer' # NoTimer
  BY <1>1, RequestEffect
<1>2. CASE Tick
  BY <1>0, <1>2, TickEffect
<1>3. CASE FireUnhandled \/ FireWhileRunning
  BY <1>3, FireEffect
<1>4. ASSUME NEW s \in Slots, StartBatch(s)
      PROVE  FALSE
  BY <1>4, StartEffect
<1>5. ASSUME NEW s \in Slots, CallEffect(s)
      PROVE  timer' # NoTimer
  <2>1. /\ handler' = handler
        /\ timer # NoTimer \/ pending' # pending => timer' # NoTimer
    BY <1>5 DEF CallEffect, CallStep, CallTimer
  <2> QED
    BY <1>0, <2>1
<1>6. ASSUME NEW A \in SUBSET Agents, StartHeartbeatRunner(A)
      PROVE  timer' # NoTimer
  <2>1. pending' = pending /\ timer' = IF pending = NoPending THEN NoTimer ELSE SetTimer(Coalesce, "normal")
    BY <1>6 DEF StartHeartbeatRunner, SetHeartbeatWakeHandler
  <2>2. SetTimer(Coalesce, "normal") \in Timer /\ NoTimer \notin Timer
    BY HeartbeatAssumption DEF HeartbeatAssumption, SetTimer, Timer
  <2> QED
    BY <2>1, <2>2
<1>7. ASSUME NEW r \in Runners, StopRunner(r)
      PROVE  timer' # NoTimer
  BY <1>0, <1>7 DEF StopRunner
<1>8. ASSUME NEW r \in Runners, NEW A \in SUBSET Agents, UpdateConfig(r, A)
      PROVE  timer' # NoTimer
  BY <1>0, <1>8 DEF UpdateConfig
<1>9. CASE Aside
  BY <1>0, <1>9, AsideEffect DEF wake
<1> QED
  BY <1>1, <1>2, <1>3, <1>4, <1>5, <1>6, <1>7, <1>8, <1>9, StepKinds

\* With a handler, pending wakes always have a timer: no interleaving of requests,
\* busy answers, errors and changes of the handler leaves a wake that nothing
\* will fire (schedule and the finally block of heartbeat-wake.ts, setHeartbeatWakeHandler).
THEOREM PendingWakesAreFired == Spec => []PendingHasTimer
<1>1. Init => PendingHasTimer
  BY DEF Init, PendingHasTimer
<1>2. Base /\ PendingHasTimer /\ [Next]_vars => PendingHasTimer'
  BY TimerNext
<1> QED
  BY BaseInvariance, <1>1, <1>2, PTL DEF Spec

-----------------------------------------------------------------------------
(* The cooldown *)

\* While it lasts, the timer is that of the retry, which nothing preempts.
RetryHolds ==
  cooldown > 0 => timer # NoTimer /\ timer.kind = "retry" /\ timer.left >= cooldown

LEMMA CooldownType ==
  ASSUME Base
  PROVE  /\ cooldown \in Nat /\ timer \in Timer \union {NoTimer} /\ NoTimer \notin Timer
         /\ timer # NoTimer => timer.left \in Nat
<1>1. cooldown \in Nat /\ timer \in Timer \union {NoTimer} /\ NoTimer \notin Timer
  BY HeartbeatAssumption DEF HeartbeatAssumption, Base, TypeOK
<1>2. \A x \in Timer : x.left \in Nat
  BY DEF Timer
<1> QED
  BY <1>1, <1>2

\* A timer that is due, or none, means that no cooldown lasts.
LEMMA NoCooldown ==
  ASSUME Base, RetryHolds, timer = NoTimer \/ timer.left = 0
  PROVE  cooldown = 0
BY CooldownType DEF RetryHolds

LEMMA CooldownNext ==
  ASSUME Base, RetryHolds, [Next]_vars
  PROVE  RetryHolds'
<1>0. /\ cooldown \in Nat /\ timer \in Timer \union {NoTimer} /\ NoTimer \notin Timer
      /\ timer # NoTimer => timer.left \in Nat
  BY CooldownType
<1>h. cooldown > 0 => timer # NoTimer /\ timer.kind = "retry" /\ timer.left >= cooldown
  BY DEF RetryHolds
<1>1. ASSUME NEW t \in Targets, NEW reason \in Reasons, NEW delay \in Nat,
             RequestHeartbeatNow(t, reason, delay)
      PROVE  RetryHolds'
  <2>1. cooldown' = cooldown /\ (timer # NoTimer /\ timer.kind = "retry" => timer' = timer)
    BY <1>1, RequestEffect
  <2> QED
    BY <1>h, <2>1 DEF RetryHolds
<1>2. CASE Tick
  <2>1. /\ cooldown' = (IF cooldown > 0 THEN cooldown - 1 ELSE 0)
        /\ timer # NoTimer => timer' # NoTimer /\ timer'.kind = timer.kind
        /\ timer # NoTimer => timer'.left = (IF timer.left > 0 THEN timer.left - 1 ELSE timer.left)
    BY <1>2, TickEffect
  <2>2. ASSUME cooldown' > 0
        PROVE  timer' # NoTimer /\ timer'.kind = "retry" /\ timer'.left >= cooldown'
    <3>1. cooldown > 0 /\ cooldown' = cooldown - 1
      BY <1>0, <2>1, <2>2
    <3>2. timer # NoTimer /\ timer.kind = "retry" /\ timer.left >= cooldown
      BY <1>h, <3>1
    <3>3. timer'.left = timer.left - 1
      BY <1>0, <2>1, <3>1, <3>2
    <3> QED
      BY <1>0, <2>1, <3>1, <3>2, <3>3
  <2> QED
    BY <2>2 DEF RetryHolds
<1>3. CASE FireUnhandled \/ FireWhileRunning
  <2>1. timer.left = 0 /\ cooldown' = cooldown
    BY <1>3, FireEffect DEF history
  <2>2. cooldown' = 0
    BY <2>1, NoCooldown
  <2> QED
    BY <2>2 DEF RetryHolds
<1>4. ASSUME NEW s \in Slots, StartBatch(s)
      PROVE  RetryHolds'
  <2>1. timer.left = 0 /\ cooldown' = cooldown
    BY <1>4, StartEffect DEF TimerDue, history
  <2>2. cooldown' = 0
    BY <2>1, NoCooldown
  <2> QED
    BY <2>2 DEF RetryHolds
<1>5. ASSUME NEW s \in Slots, CallEffect(s)
      PROVE  RetryHolds'
  <2>1. /\ timer # NoTimer /\ timer.kind = "retry" => timer' = timer
        /\ \/ cooldown' = cooldown
           \/ timer = NoTimer /\ cooldown' = Retry /\ timer' = SetTimer(Retry, "retry")
    BY <1>5 DEF CallEffect, CallTimer
  <2>2. CASE cooldown' = cooldown
    BY <1>h, <2>1, <2>2 DEF RetryHolds
  <2>3. CASE cooldown' = Retry /\ timer' = SetTimer(Retry, "retry")
    <3>1. /\ SetTimer(Retry, "retry") \in Timer /\ SetTimer(Retry, "retry").kind = "retry"
          /\ SetTimer(Retry, "retry").left = Retry /\ Retry \in Nat
      BY HeartbeatAssumption DEF HeartbeatAssumption, SetTimer, Timer
    <3> QED
      BY <1>0, <2>3, <3>1 DEF RetryHolds
  <2> QED
    BY <2>1, <2>2, <2>3
<1>6. ASSUME NEW A \in SUBSET Agents, StartHeartbeatRunner(A)
      PROVE  RetryHolds'
  <2>1. cooldown' = 0
    BY <1>6 DEF StartHeartbeatRunner
  <2> QED
    BY <2>1 DEF RetryHolds
<1>7. ASSUME NEW r \in Runners, StopRunner(r)
      PROVE  RetryHolds'
  BY <1>7, <1>h DEF StopRunner, history, RetryHolds
<1>8. ASSUME NEW r \in Runners, NEW A \in SUBSET Agents, UpdateConfig(r, A)
      PROVE  RetryHolds'
  BY <1>8, <1>h DEF UpdateConfig, RetryHolds
<1>9. CASE Aside
  <2>1. cooldown' = cooldown /\ timer' = timer
    BY <1>9, AsideEffect DEF wake, history
  <2> QED
    BY <1>h, <2>1 DEF RetryHolds
<1> QED
  BY <1>1, <1>2, <1>3, <1>4, <1>5, <1>6, <1>7, <1>8, <1>9, StepKinds

\* After a busy answer no request, batch or other busy answer makes the next
\* try come before the cooldown of a retry is over (schedule of heartbeat-wake.ts).
THEOREM RetryIsNotPreempted == Spec => []CooldownIsKept
<1>1. Init => RetryHolds
  BY DEF Init, RetryHolds
<1>2. Base /\ RetryHolds /\ [Next]_vars => RetryHolds'
  BY CooldownNext
<1>3. Base /\ RetryHolds => CooldownIsKept
  BY CooldownType DEF RetryHolds, CooldownIsKept
<1> QED
  BY BaseInvariance, <1>1, <1>2, <1>3, PTL DEF Spec

-----------------------------------------------------------------------------
(* One batch at a time *)

\* A change of the configuration leaves the batches as they are, but for
\* whether their agents are current.
LEMMA UpdateEffect ==
  ASSUME Base, NEW r \in Runners, NEW A \in SUBSET Agents, UpdateConfig(r, A), NEW s \in Slots
  PROVE  /\ batches'[s] # NoBatch <=> InFlight(s)
         /\ InFlight(s) => /\ Continues(batches'[s], batches[s])
                           /\ batches'[s].left = batches[s].left
                           /\ batches'[s].call = batches[s].call
<1> DEFINE b == batches[s]
           c == [b EXCEPT !.fresh = FALSE]
<1>1. batches'[s] \in {b, c} /\ (b = NoBatch => batches'[s] = b)
  BY DEF UpdateConfig
<1>2. b \in Batch \union {NoBatch} /\ NoBatch \notin Batch
  BY HeartbeatAssumption DEF HeartbeatAssumption, Base, TypeOK
<1>3. CASE b = NoBatch
  BY <1>1, <1>3 DEF InFlight
<1>4. CASE b # NoBatch
  <2>1. b \in Batch
    BY <1>2, <1>4
  <2> HIDE DEF b
  <2>2. /\ c \in Batch /\ Continues(c, b) /\ c.left = b.left /\ c.call = b.call
        /\ Continues(b, b)
    BY <2>1 DEF Batch, Continues
  <2> HIDE DEF c
  <2> QED
    BY <1>1, <1>2, <1>4, <2>2 DEF b, InFlight
<1> QED
  BY <1>3, <1>4

\* A batch of the newest runner is in slot s.
Newest(s) == InFlight(s) /\ batches[s].runner = started

\* Unless a batch of an earlier handler has ended under the present one.
Single ==
  ~outlived =>
    /\ running <=> \E s \in Slots : Newest(s)
    /\ \A s, q \in Slots : Newest(s) /\ Newest(q) => s = q

LEMMA SingleUnchanged ==
  ASSUME Single, UNCHANGED <<running, outlived>>,
         \A s \in Slots : Newest(s)' <=> Newest(s)
  PROVE  Single'
BY Zenon DEF Single

LEMMA SingleBatches ==
  ASSUME Single, UNCHANGED <<running, outlived, batches, started>>
  PROVE  Single'
BY SingleUnchanged DEF Newest, InFlight

LEMMA SingleNext ==
  ASSUME Base, Single, [Next]_vars
  PROVE  Single'
<1>0. outlived \in BOOLEAN /\ running \in BOOLEAN
  BY DEF Base, TypeOK
<1>1. ASSUME NEW t \in Targets, NEW reason \in Reasons, NEW delay \in Nat,
             RequestHeartbeatNow(t, reason, delay), started' = started
      PROVE  Single'
  BY <1>1, RequestEffect, SingleBatches
<1>2. CASE Tick
  BY <1>2, TickEffect, SingleBatches DEF runner
<1>3. CASE FireUnhandled \/ FireWhileRunning
  BY <1>3, FireEffect, SingleBatches DEF runner, history
<1>4. ASSUME NEW s \in Slots, StartBatch(s)
      PROVE  Single'
  <2>1. /\ ~running /\ running' = TRUE /\ outlived' = outlived /\ started' = started
        /\ \A q \in Slots : q # s => batches'[q] = batches[q]
        /\ batches'[s] # NoBatch /\ batches'[s].runner = started
    BY <1>4, StartEffect DEF runner, history
  <2>2. Newest(s)' /\ \A q \in Slots : q # s => (Newest(q)' <=> Newest(q))
    BY <2>1 DEF Newest, InFlight
  <2>3. ASSUME ~outlived PROVE \A q \in Slots : ~Newest(q)
    BY <2>1, <2>3 DEF Single
  <2> QED
    BY <2>1, <2>2, <2>3 DEF Single
<1>5. ASSUME NEW s \in Slots, CallEffect(s)
      PROVE  Single'
  <2>1. /\ InFlight(s) /\ started' = started
        /\ \A q \in Slots : q # s => batches'[q] = batches[q]
        /\ \/ /\ batches'[s] = NoBatch /\ running' = FALSE
              /\ outlived' = (outlived \/ batches[s].runner # started)
           \/ /\ batches'[s] # NoBatch /\ Continues(batches'[s], batches[s])
              /\ UNCHANGED <<running, outlived>>
    BY <1>5 DEF CallEffect, CallStep
  <2>2. \A q \in Slots : q # s => (Newest(q)' <=> Newest(q))
    BY <2>1 DEF Newest, InFlight
  <2>3. CASE batches'[s] = NoBatch /\ running' = FALSE
             /\ outlived' = (outlived \/ batches[s].runner # started)
    <3>1. ~Newest(s)'
      BY <2>3 DEF Newest, InFlight
    <3>2. ASSUME ~outlived' PROVE \A q \in Slots : ~Newest(q)'
      <4>1. ~outlived /\ Newest(s)
        BY <2>1, <2>3, <3>2 DEF Newest
      <4>2. \A q \in Slots : Newest(q) => q = s
        BY <4>1 DEF Single
      <4> QED
        BY <2>2, <3>1, <4>2
    <3> QED
      BY <2>3, <3>2 DEF Single
  <2>4. CASE batches'[s] # NoBatch /\ Continues(batches'[s], batches[s])
             /\ UNCHANGED <<running, outlived>>
    <3>1. Newest(s)' <=> Newest(s)
      BY <2>1, <2>4 DEF Newest, InFlight, Continues
    <3> QED
      BY <2>2, <2>4, <3>1, SingleUnchanged
  <2> QED
    BY <2>1, <2>3, <2>4
<1>6. ASSUME NEW A \in SUBSET Agents, StartHeartbeatRunner(A)
      PROVE  Single'
  <2>1. running' = FALSE /\ started' = started + 1 /\ batches' = batches /\ started \in Nat
    BY <1>6 DEF StartHeartbeatRunner, SetHeartbeatWakeHandler, Base, TypeOK
  <2>2. ASSUME NEW s \in Slots PROVE ~Newest(s)'
    <3>1. InFlight(s) => batches[s].runner \in Runners
      BY BatchLemma DEF Base
    <3>2. InFlight(s) => batches[s].runner <= started
      BY DEF Base, BatchesFormed
    <3> QED
      BY <2>1, <3>1, <3>2 DEF Newest, InFlight, Runners
  <2> QED
    BY <2>1, <2>2 DEF Single
<1>7. ASSUME NEW r \in Runners, StopRunner(r)
      PROVE  Single'
  BY <1>7, SingleBatches DEF StopRunner, history
<1>8. ASSUME NEW r \in Runners, NEW A \in SUBSET Agents, UpdateConfig(r, A)
      PROVE  Single'
  <2>1. UNCHANGED <<running, outlived, started>>
    BY <1>8 DEF UpdateConfig
  <2>2. \A s \in Slots : Newest(s)' <=> Newest(s)
    BY <1>8, <2>1, UpdateEffect DEF Newest, InFlight, Continues
  <2> QED
    BY <2>1, <2>2, SingleUnchanged
<1>9. CASE Aside
  BY <1>9, AsideEffect, SingleBatches DEF wake, history
<1> QED
  BY <1>1, <1>2, <1>3, <1>4, <1>5, <1>6, <1>7, <1>8, <1>9, StepKinds

\* As long as no batch of an earlier handler has ended under the present one,
\* its batches do not overlap and running says whether there is one
\* (the guard and the finally block of heartbeat-wake.ts).
THEOREM BatchesDoNotOverlap == Spec => []OneBatchAtATime
<1>1. Init => Single
  BY DEF Init, Single, Newest, InFlight
<1>2. Base /\ Single /\ [Next]_vars => Single'
  BY SingleNext
<1>3. ASSUME Base, Single PROVE OneBatchAtATime
  <2>1. TypeOK
    BY <1>3 DEF Base
  <2> SUFFICES ASSUME ~outlived
               PROVE  /\ running <=> BatchesOf(started) # {}
                      /\ Cardinality(BatchesOf(started)) <= 1
    BY <2>1 DEF OneBatchAtATime
  <2>2. BatchesOf(started) = {s \in Slots : Newest(s)}
    BY DEF BatchesOf, Newest, InFlight
  <2>3. running <=> BatchesOf(started) # {}
    BY <1>3, <2>2 DEF Single
  <2>4. \A s, q \in BatchesOf(started) : s = q
    BY <1>3, <2>2 DEF Single
  <2>5. Cardinality({}) = 0 /\ \A s : Cardinality({s}) = 1
    BY FS_EmptySet, FS_Singleton
  <2>6. Cardinality(BatchesOf(started)) <= 1
    <3>1. CASE BatchesOf(started) = {}
      BY <2>5, <3>1
    <3>2. CASE BatchesOf(started) # {}
      <4>1. PICK s \in BatchesOf(started) : TRUE
        BY <3>2
      <4>2. BatchesOf(started) = {s}
        BY <2>4, <4>1
      <4> QED
        BY <2>5, <4>2
    <3> QED
      BY <3>1, <3>2
  <2> QED
    BY <2>3, <2>6
<1>4. Base /\ Single => OneBatchAtATime
  BY <1>3
<1> QED
  BY BaseInvariance, <1>1, <1>2, <1>4, PTL DEF Spec

-----------------------------------------------------------------------------
(* Requests are kept *)

\* What is pending or in a batch, other than intervals, callers have asked for.
Requested(t, reason) == Asked(reason) => <<t, reason>> \in Requests
WakesRequested ==
  /\ \A t \in Targets : Requested(t, pending[t])
  /\ \A s \in Slots : InFlight(s) => \A t \in Targets : Requested(t, batches[s].wakes[t])

\* A request is pending, or in a batch that will hand it over.
InBatch(t, s) == InFlight(s) /\ t \in batches[s].left /\ Asked(batches[s].wakes[t])
OwedIsKept == \A t \in owed : Asked(pending[t]) \/ \E s \in Slots : InBatch(t, s)

Kept == WakesRequested /\ OwedIsKept

LEMMA NoWakeAsked == ~Asked(NoWake) /\ \A t \in Targets : NoPending[t] = NoWake
BY HeartbeatAssumption DEF HeartbeatAssumption, Asked, NoPending

\* Steps that leave the requests, and the wakes of the batches, as they are.
LEMMA KeptUnchanged ==
  ASSUME Base, Kept, UNCHANGED <<pending, owed>>,
         \A s \in Slots : batches'[s] # NoBatch <=> InFlight(s),
         \A s \in Slots : InFlight(s) => /\ batches'[s].wakes = batches[s].wakes
                                         /\ batches'[s].left = batches[s].left
  PROVE  Kept'
<1>1. WakesRequested'
  BY DEF Kept, WakesRequested, InFlight, Requested
<1>2. \A t \in Targets, s \in Slots : InBatch(t, s)' <=> InBatch(t, s)
  BY DEF InBatch, InFlight
<1>3. OwedIsKept'
  BY <1>2 DEF Kept, OwedIsKept, Base, TypeOK
<1> QED
  BY <1>1, <1>3 DEF Kept

LEMMA KeptBatches ==
  ASSUME Base, Kept, UNCHANGED <<pending, owed, batches>>
  PROVE  Kept'
BY KeptUnchanged DEF InFlight

LEMMA KeptNext ==
  ASSUME Base, Kept, [Next]_vars
  PROVE  Kept'
<1>0. owed \in SUBSET Targets /\ pending \in Wakes
  BY DEF Base, TypeOK, Wakes
<1>h. /\ \A t \in Targets : Requested(t, pending[t])
      /\ \A s \in Slots : InFlight(s) => \A t \in Targets : Requested(t, batches[s].wakes[t])
      /\ \A t \in owed : Asked(pending[t]) \/ \E s \in Slots : InBatch(t, s)
  BY DEF Kept, WakesRequested, OwedIsKept
<1>1. ASSUME NEW t \in Targets, NEW reason \in Reasons, NEW delay \in Nat,
             RequestHeartbeatNow(t, reason, delay),
             <<t, reason>> \in Requests \/ reason = "interval"
      PROVE  Kept'
  <2>1. /\ \A u \in Targets : u # t => pending'[u] = pending[u]
        /\ pending'[t] \in {pending[t], reason}
        /\ Asked(reason) \/ Asked(pending[t]) => Asked(pending'[t])
        /\ owed' = (IF reason = "interval" THEN owed ELSE owed \union {t})
        /\ batches' = batches
    BY <1>1, RequestEffect
  <2>2. Requested(t, reason)
    BY <1>1 DEF Requested, Asked
  <2>3. \A u \in Targets : Requested(u, pending'[u])
    BY <1>h, <2>1, <2>2
  <2>4. WakesRequested'
    BY <1>h, <2>1, <2>3 DEF WakesRequested, InFlight
  <2>5. \A u \in Targets : Asked(pending[u]) => Asked(pending'[u])
    BY <2>1
  <2>6. \A u \in Targets, s \in Slots : InBatch(u, s)' <=> InBatch(u, s)
    BY <2>1 DEF InBatch, InFlight
  <2>7. \A u \in owed' : u \in owed \/ (u = t /\ Asked(pending'[t]))
    BY <2>1 DEF Asked
  <2>8. OwedIsKept'
    BY <1>0, <1>h, <2>5, <2>6, <2>7 DEF OwedIsKept
  <2> QED
    BY <2>4, <2>8 DEF Kept
<1>2. CASE Tick
  BY <1>2, TickEffect, KeptBatches
<1>3. CASE FireUnhandled \/ FireWhileRunning
  BY <1>3, FireEffect, KeptBatches DEF history
<1>4. ASSUME NEW s \in Slots, StartBatch(s)
      PROVE  Kept'
  <2>1. /\ ~InFlight(s) /\ pending' = NoPending /\ owed' = owed
        /\ \A q \in Slots : q # s => batches'[q] = batches[q]
        /\ batches'[s] # NoBatch /\ batches'[s].wakes = pending
        /\ batches'[s].left = {t \in Targets : pending[t] # NoWake}
    BY <1>4, StartEffect DEF history
  <2>2. \A t \in Targets : Requested(t, pending'[t])
    BY <2>1, NoWakeAsked DEF Requested
  <2>3. ASSUME NEW q \in Slots, batches'[q] # NoBatch, NEW t \in Targets
        PROVE  Requested(t, batches'[q].wakes[t])
    <3>1. CASE q = s
      BY <1>h, <2>1, <3>1
    <3>2. CASE q # s
      BY <1>h, <2>1, <2>3, <3>2 DEF InFlight
    <3> QED
      BY <3>1, <3>2
  <2>4. WakesRequested'
    BY <2>2, <2>3 DEF WakesRequested, InFlight
  <2>5. \A t \in Targets : Asked(pending[t]) => InBatch(t, s)'
    BY <2>1, NoWakeAsked DEF InBatch, InFlight
  <2>6. \A t \in Targets, q \in Slots : InBatch(t, q) => InBatch(t, q)'
    BY <2>1 DEF InBatch, InFlight
  <2>7. OwedIsKept'
    BY <1>0, <1>h, <2>1, <2>5, <2>6 DEF OwedIsKept
  <2> QED
    BY <2>4, <2>7 DEF Kept
<1>5. ASSUME NEW s \in Slots, CallEffect(s)
      PROVE  Kept'
  <2>1. PICK T \in SUBSET Targets : CallStep(s, T) /\ CallRequests(s, T)
    BY <1>5 DEF CallEffect
  <2>2. /\ InFlight(s) /\ Restores(pending', s, T)
        /\ \A q \in Slots : q # s => batches'[q] = batches[q]
        /\ batches'[s] # NoBatch => batches'[s].wakes = batches[s].wakes
    BY <2>1 DEF CallStep, Continues
  <2>3. \A t \in Targets :
          /\ pending'[t] \in {pending[t], batches[s].wakes[t]}
          /\ Asked(pending[t]) => Asked(pending'[t])
          /\ t \in T /\ Asked(batches[s].wakes[t]) => Asked(pending'[t])
    BY <2>2 DEF Restores
  <2>4. \A t \in Targets : Requested(t, pending'[t])
    BY <1>h, <2>2, <2>3
  <2>5. ASSUME NEW q \in Slots, batches'[q] # NoBatch, NEW t \in Targets
        PROVE  Requested(t, batches'[q].wakes[t])
    <3>1. CASE q = s
      BY <1>h, <2>2, <2>5, <3>1
    <3>2. CASE q # s
      BY <1>h, <2>2, <2>5, <3>2 DEF InFlight
    <3> QED
      BY <3>1, <3>2
  <2>6. WakesRequested'
    BY <2>4, <2>5 DEF WakesRequested, InFlight
  <2>7. ASSUME NEW t \in Targets, t \in owed', NEW q \in Slots, InBatch(t, q)
        PROVE  Asked(pending'[t]) \/ InBatch(t, q)'
    <3>1. CASE q = s
      <4>1. \/ batches'[s] # NoBatch /\ t \in batches'[s].left
            \/ t \in T
        BY <2>1, <2>7, <3>1 DEF CallRequests, InBatch
      <4>2. Asked(batches[s].wakes[t])
        BY <2>7, <3>1 DEF InBatch
      <4> QED
        BY <2>2, <2>3, <3>1, <4>1, <4>2 DEF InBatch, InFlight
    <3>2. CASE q # s
      BY <2>2, <2>7, <3>2 DEF InBatch, InFlight
    <3> QED
      BY <3>1, <3>2
  <2>8. \A t \in owed' : t \in owed \/ (t \in T /\ Asked(batches[s].wakes[t]))
    BY <2>1 DEF CallRequests
  <2>9. OwedIsKept'
    <3> SUFFICES ASSUME NEW t \in owed'
                 PROVE  Asked(pending'[t]) \/ \E q \in Slots : InBatch(t, q)'
      BY DEF OwedIsKept
    <3>1. CASE t \in owed
      BY <1>0, <1>h, <2>3, <2>7, <3>1
    <3>2. CASE t \in T /\ Asked(batches[s].wakes[t])
      BY <2>3, <3>2
    <3> QED
      BY <2>8, <3>1, <3>2
  <2> QED
    BY <2>6, <2>9 DEF Kept
<1>6. ASSUME NEW A \in SUBSET Agents, StartHeartbeatRunner(A)
      PROVE  Kept'
  BY <1>6, KeptBatches DEF StartHeartbeatRunner
<1>7. ASSUME NEW r \in Runners, StopRunner(r)
      PROVE  Kept'
  BY <1>7, KeptBatches DEF StopRunner, history
<1>8. ASSUME NEW r \in Runners, NEW A \in SUBSET Agents, UpdateConfig(r, A)
      PROVE  Kept'
  <2>1. UNCHANGED <<pending, owed>>
    BY <1>8 DEF UpdateConfig
  <2> QED
    BY <1>8, <2>1, UpdateEffect, KeptUnchanged DEF Continues
<1>9. CASE Aside
  BY <1>9, AsideEffect, KeptBatches DEF wake, history
<1> QED
  BY <1>1, <1>2, <1>3, <1>4, <1>5, <1>6, <1>7, <1>8, <1>9, StepKinds

\* A request waits, with its own reason or a weightier one that a caller gave,
\* until a handler is called for it, through batches that end busy or with an
\* error, stops and restarts (queuePendingWakeReason and the loop over a batch
\* in heartbeat-wake.ts).
THEOREM RequestsAreKept == Spec => []RequestIsKept
<1>1. Init => Kept
  BY NoWakeAsked DEF Init, Kept, WakesRequested, OwedIsKept, Requested, InFlight
<1>2. Base /\ Kept /\ [Next]_vars => Kept'
  BY KeptNext
<1>3. Base /\ Kept => RequestIsKept
  BY DEF Base, TypeOK, Kept, WakesRequested, OwedIsKept, Requested, InBatch, InFlight, RequestIsKept
<1> QED
  BY BaseInvariance, <1>1, <1>2, <1>3, PTL DEF Spec

-----------------------------------------------------------------------------
(* The interval comes *)

\* It is pending, or a batch of the handler has it or hands it over.
AllInBatch(s) == All \in batches[s].left \union {batches[s].call}
IntervalOnItsWay ==
  \/ handler \in interval
  \/ pending[All] # NoWake
  \/ \E s \in Slots : InFlight(s) /\ batches[s].runner = handler /\ AllInBatch(s)

Chain == handler # NoRunner => agents[handler] = {} \/ missed \/ IntervalOnItsWay

\* A runner that schedules its next interval sets its timer, if it has agents,
\* and another's does not count.
LEMMA ScheduleNextComes ==
  ASSUME Base, handler # NoRunner, NEW r \in Runners, ScheduleNext(r), agents[handler] # {}
  PROVE  /\ handler = r => handler \in interval'
         /\ handler # r => missed' = missed /\ (handler \in interval => handler \in interval')
<1>1. handler \in Runners /\ handler \notin stopped /\ missed \in BOOLEAN
  BY DEF Base, Handlers, TypeOK
<1>2. /\ interval' = (IF r \in stopped THEN interval
                      ELSE IF agents[r] = {} THEN interval \ {r} ELSE interval \union {r})
      /\ missed' = (missed /\ handler # r)
  BY DEF ScheduleNext
<1>3. CASE handler = r
  BY <1>1, <1>2, <1>3
<1>4. CASE handler # r
  <2>1. missed' = missed
    BY <1>1, <1>2, <1>4
  <2>2. interval' \in {interval, interval \ {r}, interval \union {r}}
    BY <1>2
  <2> QED
    BY <1>4, <2>1, <2>2
<1> QED
  BY <1>3, <1>4

\* Steps that leave the wakes, the batches' part in them and the runner as they are.
LEMMA ChainUnchanged ==
  ASSUME Base, Chain, UNCHANGED <<handler, agents, missed>>,
         handler # NoRunner /\ handler \in interval => handler \in interval' \/ pending'[All] # NoWake,
         pending[All] # NoWake => pending'[All] # NoWake,
         \A s \in Slots : InFlight(s) =>
           /\ batches'[s] # NoBatch /\ batches'[s].runner = batches[s].runner
           /\ batches'[s].left = batches[s].left /\ batches'[s].call = batches[s].call
  PROVE  Chain'
<1> SUFFICES ASSUME handler # NoRunner, agents[handler] # {}, ~missed
             PROVE  IntervalOnItsWay'
  BY DEF Chain
<1>1. IntervalOnItsWay
  BY DEF Chain
<1>2. ASSUME NEW s \in Slots, InFlight(s), batches[s].runner = handler, AllInBatch(s)
      PROVE  batches'[s] # NoBatch /\ batches'[s].runner = handler /\ AllInBatch(s)'
  BY <1>2 DEF AllInBatch
<1> QED
  BY <1>1, <1>2 DEF IntervalOnItsWay, InFlight

LEMMA ChainNext ==
  ASSUME Base, Chain, [Next]_vars
  PROVE  Chain'
<1>0. /\ All \in Targets /\ All # NoWake /\ missed \in BOOLEAN
      /\ handler # NoRunner => handler \in Runners /\ handler = started /\ handler \notin stopped
  BY HeartbeatAssumption DEF HeartbeatAssumption, Targets, Base, Handlers, TypeOK
<1>1. ASSUME NEW t \in Targets, NEW reason \in Reasons, NEW delay \in Nat,
             RequestHeartbeatNow(t, reason, delay), UNCHANGED <<started, stopped, agents, due>>,
             interval' = interval \/ t = All
      PROVE  Chain'
  <2>1. /\ pending'[t] # NoWake /\ \A u \in Targets : u # t => pending'[u] = pending[u]
        /\ UNCHANGED <<handler, batches, missed>>
    BY <1>1, RequestEffect
  <2>2. pending[All] # NoWake => pending'[All] # NoWake
    BY <1>0, <2>1
  <2> QED
    BY <1>1, <2>1, <2>2, ChainUnchanged DEF InFlight
<1>2. CASE Tick
  BY <1>2, TickEffect, ChainUnchanged DEF runner, InFlight
<1>3. CASE FireUnhandled \/ FireWhileRunning
  BY <1>3, FireEffect, ChainUnchanged DEF runner, history, InFlight
<1>4. ASSUME NEW s \in Slots, StartBatch(s)
      PROVE  Chain'
  <2>1. /\ handler # NoRunner /\ handler = started /\ ~InFlight(s)
        /\ \A q \in Slots : q # s => batches'[q] = batches[q]
        /\ batches'[s] # NoBatch /\ batches'[s].runner = started
        /\ batches'[s].left = {t \in Targets : pending[t] # NoWake}
        /\ UNCHANGED <<handler, agents, interval, missed>>
    BY <1>4, StartEffect DEF runner, history
  <2> SUFFICES ASSUME agents[handler] # {}, ~missed
               PROVE  IntervalOnItsWay'
    BY <2>1 DEF Chain
  <2>2. IntervalOnItsWay
    BY <2>1 DEF Chain
  <2>3. CASE handler \in interval
    BY <2>1, <2>3 DEF IntervalOnItsWay
  <2>4. CASE pending[All] # NoWake
    <3>1. AllInBatch(s)'
      BY <1>0, <2>1, <2>4 DEF AllInBatch
    <3> QED
      BY <2>1, <3>1 DEF IntervalOnItsWay, InFlight
  <2>5. ASSUME NEW q \in Slots, InFlight(q), batches[q].runner = handler, AllInBatch(q)
        PROVE  IntervalOnItsWay'
    <3>1. batches'[q] = batches[q]
      BY <2>1, <2>5
    <3>2. AllInBatch(q)' /\ InFlight(q)' /\ batches'[q].runner = handler'
      BY <2>1, <2>5, <3>1 DEF AllInBatch, InFlight
    <3> QED
      BY <3>2 DEF IntervalOnItsWay
  <2> QED
    BY <2>2, <2>3, <2>4, <2>5 DEF IntervalOnItsWay
<1>5. ASSUME NEW s \in Slots, CallEffect(s)
      PROVE  Chain'
  <2>1. PICK T \in SUBSET Targets : CallStep(s, T) /\ CallInterval(s, T)
    BY <1>5 DEF CallEffect
  <2>2. /\ InFlight(s) /\ UNCHANGED <<handler, agents>>
        /\ Restores(pending', s, T)
        /\ \A q \in Slots : q # s => batches'[q] = batches[q]
        /\ batches'[s] # NoBatch => batches'[s].runner = batches[s].runner
    BY <2>1 DEF CallStep, Continues
  <2>3. batches[s].runner \in Runners
    BY <2>2, BatchLemma DEF Base
  <2>4. /\ pending[All] # NoWake => pending'[All] # NoWake
        /\ All \in T /\ batches[s].wakes[All] # NoWake => pending'[All] # NoWake
    BY <1>0, <2>2 DEF Restores
  <2> SUFFICES ASSUME handler # NoRunner, agents[handler] # {}, ~missed'
               PROVE  IntervalOnItsWay'
    BY <2>2 DEF Chain
  <2>5. ASSUME batches[s].runner = handler, ScheduleNext(batches[s].runner)
        PROVE  IntervalOnItsWay'
    BY <2>2, <2>3, <2>5, ScheduleNextComes DEF IntervalOnItsWay
  <2>6. ASSUME ~(batches[s].runner = handler /\ ScheduleNext(batches[s].runner))
        PROVE  ~missed /\ (handler \in interval => handler \in interval')
    <3>1. CASE ScheduleNext(batches[s].runner)
      BY <2>3, <2>6, <3>1, ScheduleNextComes
    <3>2. CASE interval' = interval /\ (missed => missed')
      BY <3>2
    <3> QED
      BY <2>1, <3>1, <3>2 DEF CallInterval
  <2>7. ASSUME ~(batches[s].runner = handler /\ ScheduleNext(batches[s].runner))
        PROVE  IntervalOnItsWay'
    <3>1. ~missed /\ (handler \in interval => handler \in interval') /\ IntervalOnItsWay
      BY <2>6, <2>7 DEF Chain
    <3>2. CASE handler \in interval \/ pending[All] # NoWake
      BY <2>2, <2>4, <3>1, <3>2 DEF IntervalOnItsWay
    <3>3. ASSUME NEW q \in Slots, q # s, InFlight(q), batches[q].runner = handler, AllInBatch(q)
          PROVE  IntervalOnItsWay'
      <4>1. batches'[q] = batches[q]
        BY <2>2, <3>3
      <4>2. AllInBatch(q)' /\ InFlight(q)' /\ batches'[q].runner = handler'
        BY <2>2, <3>3, <4>1 DEF AllInBatch, InFlight
      <4> QED
        BY <4>2 DEF IntervalOnItsWay
    <3>4. ASSUME batches[s].runner = handler, AllInBatch(s)
          PROVE  IntervalOnItsWay'
      <4>1. \/ batches'[s] # NoBatch /\ All \in batches'[s].left \union {batches'[s].call}
            \/ All \in T
        BY <2>1, <2>7, <3>4 DEF CallInterval, AllInBatch
      <4>2. CASE batches'[s] # NoBatch /\ All \in batches'[s].left \union {batches'[s].call}
        <5>1. AllInBatch(s)' /\ InFlight(s)' /\ batches'[s].runner = handler'
          BY <2>2, <3>4, <4>2 DEF AllInBatch, InFlight
        <5> QED
          BY <5>1 DEF IntervalOnItsWay
      <4>3. CASE All \in T
        <5>1. batches[s].wakes[All] # NoWake
          BY <1>0, <2>2, <3>4 DEF Base, BatchesFormed, AllInBatch
        <5> QED
          BY <2>4, <4>3, <5>1 DEF IntervalOnItsWay
      <4> QED
        BY <4>1, <4>2, <4>3
    <3> QED
      BY <3>1, <3>2, <3>3, <3>4 DEF IntervalOnItsWay
  <2> QED
    BY <2>5, <2>7
<1>6. ASSUME NEW A \in SUBSET Agents, StartHeartbeatRunner(A)
      PROVE  Chain'
  <2> DEFINE n == started + 1
  <2>1. /\ started < MaxRunners /\ handler' = n /\ agents' = [agents EXCEPT ![n] = A]
        /\ interval' = (IF A = {} THEN interval ELSE interval \union {n})
    BY <1>6 DEF StartHeartbeatRunner, SetHeartbeatWakeHandler
  <2>2. n \in Runners /\ agents \in [Runners -> SUBSET Agents]
    BY <2>1, HeartbeatAssumption DEF HeartbeatAssumption, Base, TypeOK, Runners
  <2>3. agents'[n] = A
    BY <2>1, <2>2
  <2> HIDE DEF n
  <2> QED
    BY <2>1, <2>3 DEF Chain, IntervalOnItsWay
<1>7. ASSUME NEW r \in Runners, StopRunner(r)
      PROVE  Chain'
  <2>1. /\ handler' = (IF handler = r THEN NoRunner ELSE handler) /\ interval' = interval \ {r}
        /\ UNCHANGED <<pending, batches, agents, missed>>
    BY <1>7 DEF StopRunner, history
  <2>2. CASE handler = r
    BY <2>1, <2>2 DEF Chain
  <2>3. CASE handler # r
    BY <2>1, <2>3, ChainUnchanged DEF InFlight
  <2> QED
    BY <2>2, <2>3
<1>8. ASSUME NEW r \in Runners, NEW A \in SUBSET Agents, UpdateConfig(r, A)
      PROVE  Chain'
  <2>1. /\ agents' = [agents EXCEPT ![r] = A]
        /\ interval' = (IF A = {} THEN interval \ {r} ELSE interval \union {r})
        /\ missed' = (missed /\ handler # r)
        /\ UNCHANGED <<handler, pending>>
    BY <1>8 DEF UpdateConfig
  <2>2. agents \in [Runners -> SUBSET Agents]
    BY DEF Base, TypeOK
  <2>3. CASE handler = r
    <3>1. agents'[r] = A
      BY <2>1, <2>2
    <3> QED
      BY <2>1, <2>3, <3>1 DEF Chain, IntervalOnItsWay
  <2>4. CASE handler # r
    <3>1. missed' = missed /\ (handler \in interval => handler \in interval')
      BY <1>0, <2>1, <2>4
    <3>2. handler # NoRunner => agents'[handler] = agents[handler]
      BY <1>0, <2>1, <2>2, <2>4
    <3> SUFFICES ASSUME handler # NoRunner, agents[handler] # {}, ~missed
                 PROVE  IntervalOnItsWay'
      BY <2>1, <3>1, <3>2 DEF Chain
    <3>3. IntervalOnItsWay
      BY DEF Chain
    <3>4. ASSUME NEW s \in Slots, InFlight(s), batches[s].runner = handler, AllInBatch(s)
          PROVE  InFlight(s)' /\ batches'[s].runner = handler' /\ AllInBatch(s)'
      BY <1>8, <2>1, <3>4, UpdateEffect DEF AllInBatch, InFlight, Continues
    <3> QED
      BY <2>1, <3>1, <3>3, <3>4 DEF IntervalOnItsWay
  <2> QED
    BY <2>3, <2>4
<1>9. CASE Aside
  BY <1>9, AsideEffect, ChainUnchanged DEF wake, history, InFlight
<1> QED
  BY <1>1, <1>2, <1>3, <1>4, <1>5, <1>6, <1>7, <1>8, <1>9, StepKinds

\* The chain from one interval to the next has no gap but the one of an interval
\* that came while heartbeats were disabled: the runner in charge has its timer
\* set, or its interval is pending or in a batch, whatever answers, errors,
\* restarts and changes of the configuration come in between (heartbeat-runner.ts,
\* heartbeat-wake.ts).
THEOREM IntervalsCome == Spec => []IntervalComes
<1>1. Init => Chain
  BY DEF Init, Chain
<1>2. Base /\ Chain /\ [Next]_vars => Chain'
  BY ChainNext
<1>3. ASSUME Base, Chain PROVE IntervalComes
  <2> SUFFICES ASSUME NEW r \in Runners, handler = r, agents[r] # {}, ~missed
               PROVE  \/ r \in interval
                      \/ pending[All] # NoWake
                      \/ \E s \in BatchesOf(r) : All \in batches[s].left \union {batches[s].call}
    BY DEF IntervalComes
  <2>1. handler # NoRunner
    BY HeartbeatAssumption DEF HeartbeatAssumption
  <2>2. IntervalOnItsWay
    BY <1>3, <2>1 DEF Chain
  <2> QED
    BY <2>2 DEF IntervalOnItsWay, BatchesOf, InFlight, AllInBatch
<1>4. Base /\ Chain => IntervalComes
  BY <1>3
<1> QED
  BY BaseInvariance, <1>1, <1>2, <1>4, PTL DEF Spec

=============================================================================
