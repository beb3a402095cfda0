--------------------------- MODULE HeartbeatWake ----------------------------
(***************************************************************************)
(* The heartbeat: requests for a wake-up are merged per target and handed  *)
(* in batches to the registered handler by one timer                       *)
(* (src/src/infra/heartbeat-wake.ts); the handler belongs to a heartbeat   *)
(* runner, which runs its agents and asks for the next interval            *)
(* (startHeartbeatRunner in src/src/infra/heartbeat-runner.ts).            *)
(*                                                                         *)
(* An in-process restart of the gateway stops one runner and starts        *)
(* another in the same process, while a batch of the old one may still be  *)
(* waiting for an agent.  A handler call that is awaited is a step of its  *)
(* own; everything up to the next await is one step.                       *)
(***************************************************************************)
EXTENDS Integers, FiniteSets

CONSTANTS
  Agents,
  Requests,    \* the requests of callers: pairs of a target and a reason
  Delays,      \* coalesceMs that callers give, in ticks
  Coalesce,    \* DEFAULT_COALESCE_MS, in ticks
  Retry,       \* DEFAULT_RETRY_MS, in ticks
  MaxRunners,  \* bound: runners that are ever started
  MaxUpdates,  \* bound: changes of the configuration
  MaxBatches,  \* bound: batches in flight
  NoRunner, NoWake, NoTimer, NoBatch

\* A wake without a target is for all agents.
All == "all"
Targets == Agents \union {All}
Runners == 1..MaxRunners
Slots == 1..MaxBatches
Reasons == {"interval", "wake", "manual"}
Timer == [left : Nat, delay : Nat, kind : {"normal", "retry"}]

\* A batch in flight: the handler it was started for, its wakes, those not
\* handed over yet, the one being handled with the agents still to run, and
\* whether these are the agents of the current configuration.
Batch == [runner : Runners, wakes : [Targets -> Reasons \union {NoWake}],
          left : SUBSET Targets, call : Targets \union {NoWake},
          todo : SUBSET Agents, fresh : BOOLEAN, delay : Nat]

ASSUME HeartbeatAssumption ==
  /\ All \notin Agents
  /\ Requests \subseteq Targets \X (Reasons \ {"interval"})
  /\ Delays \subseteq Nat
  /\ Coalesce \in Nat /\ Retry \in Nat
  /\ MaxRunners \in Nat /\ MaxUpdates \in Nat /\ MaxBatches \in Nat
  /\ NoRunner \notin Runners
  /\ NoWake \notin Reasons \union Targets
  /\ NoTimer \notin Timer /\ NoBatch \notin Batch

VARIABLES
  handler,    \* the runner whose handler is registered, or NoRunner
  pending,    \* pendingWakes: target -> reason, or NoWake
  timer,      \* timer, timerDueAt as ticks left, timerKind; or NoTimer
  scheduled,
  running,
  batches,    \* slot -> batch in flight, or NoBatch
  enabled,    \* heartbeatsEnabled
  started,    \* number of runners started
  stopped,    \* runners that were stopped
  agents,     \* runner -> agents it has a schedule for
  due,        \* runner -> agents whose nextDueMs has come
  interval,   \* runners whose interval timer is set
  updates,
  owed,       \* history: targets with a request that no handler was given yet
  missed,     \* history: the runner in charge was called while disabled and
              \* has not scheduled its next interval since
  outlived,   \* history: a batch of an earlier handler ended under this one
  cooldown    \* history: ticks before which a busy wake must not be retried

wake == <<handler, pending, timer, scheduled, running, batches>>
runner == <<started, stopped, agents, due, interval>>
history == <<owed, missed, outlived, cooldown>>
vars == <<wake, enabled, runner, updates, history>>

NoPending == [t \in Targets |-> NoWake]

TypeOK ==
  /\ handler \in Runners \union {NoRunner}
  /\ pending \in [Targets -> Reasons \union {NoWake}]
  /\ timer \in Timer \union {NoTimer}
  /\ scheduled \in BOOLEAN
  /\ running \in BOOLEAN
  /\ batches \in [Slots -> Batch \union {NoBatch}]
  /\ enabled \in BOOLEAN
  /\ started \in 0..MaxRunners
  /\ stopped \in SUBSET Runners
  /\ agents \in [Runners -> SUBSET Agents]
  /\ due \in [Runners -> SUBSET Agents]
  /\ interval \in SUBSET Runners
  /\ updates \in 0..MaxUpdates
  /\ owed \in SUBSET Targets
  /\ missed \in BOOLEAN
  /\ outlived \in BOOLEAN
  /\ cooldown \in Nat

Init ==
  /\ handler = NoRunner
  /\ pending = NoPending
  /\ timer = NoTimer
  /\ scheduled = FALSE /\ running = FALSE
  /\ batches = [s \in Slots |-> NoBatch]
  /\ enabled = TRUE
  /\ started = 0 /\ stopped = {}
  /\ agents = [r \in Runners |-> {}]
  /\ due = [r \in Runners |-> {}]
  /\ interval = {}
  /\ updates = 0
  /\ owed = {} /\ missed = FALSE /\ outlived = FALSE /\ cooldown = 0

-----------------------------------------------------------------------------
(* Requests and the timer *)

Priority(reason) ==
  CASE reason = "interval" -> 1 [] reason = "wake" -> 2 [] reason = "manual" -> 3

\* Mutant: the newest reason wins.
QueueNewestReason(wakes, t, reason) == [wakes EXCEPT ![t] = reason]

\* The later of two reasons wins unless its priority is lower.
QueuePendingWakeReason(wakes, t, reason) ==
  IF wakes[t] # NoWake /\ Priority(reason) < Priority(wakes[t]) THEN wakes
  ELSE [wakes EXCEPT ![t] = reason]

SetTimer(delay, kind) == [left |-> delay, delay |-> delay, kind |-> kind]

\* Mutant: a retry is preempted like any other timer.
ScheduleSooner(old, delay, kind) ==
  IF old # NoTimer /\ old.left <= delay THEN old ELSE SetTimer(delay, kind)

\* A retry is never preempted, another timer only by an earlier one.
Schedule(old, delay, kind) ==
  IF old # NoTimer /\ (old.kind = "retry" \/ old.left <= delay) THEN old
  ELSE SetTimer(delay, kind)

RequestHeartbeatNow(t, reason, delay) ==
  /\ pending' = QueuePendingWakeReason(pending, t, reason)
  /\ timer' = Schedule(timer, delay, "normal")
  /\ owed' = IF reason = "interval" THEN owed ELSE owed \union {t}
  /\ UNCHANGED <<handler, scheduled, running, batches, enabled, updates,
                 missed, outlived, cooldown>>

Request ==
  /\ \E q \in Requests, delay \in Delays : RequestHeartbeatNow(q[1], q[2], delay)
  /\ UNCHANGED runner

Tick ==
  /\ timer # NoTimer \/ cooldown > 0
  /\ timer' = IF timer # NoTimer /\ timer.left > 0
              THEN [timer EXCEPT !.left = @ - 1] ELSE timer
  /\ cooldown' = IF cooldown > 0 THEN cooldown - 1 ELSE 0
  /\ UNCHANGED <<handler, pending, scheduled, running, batches, enabled, runner,
                 updates, owed, missed, outlived>>

TimerDue == timer # NoTimer /\ timer.left = 0

\* Mutant: the pending wakes are taken before the handler is looked at.
FireUnhandledTakesWakes ==
  /\ TimerDue /\ handler = NoRunner
  /\ timer' = NoTimer
  /\ scheduled' = FALSE
  /\ pending' = NoPending
  /\ UNCHANGED <<handler, running, batches, enabled, runner, updates, history>>

FireUnhandled ==
  /\ TimerDue /\ handler = NoRunner
  /\ timer' = NoTimer
  /\ scheduled' = FALSE
  /\ UNCHANGED <<handler, pending, running, batches, enabled, runner, updates, history>>

FireWhileRunning ==
  /\ TimerDue /\ handler # NoRunner /\ running
  /\ timer' = SetTimer(timer.delay, timer.kind)
  /\ scheduled' = TRUE
  /\ UNCHANGED <<handler, pending, running, batches, enabled, runner, updates, history>>

\* A slot for the next batch, the first that is free.
FreeSlot(s) ==
  /\ batches[s] = NoBatch
  /\ \A q \in Slots : batches[q] = NoBatch => s <= q

\* The pending wakes become a batch.  (A timer is never set without one.)
TakeBatch(s) ==
  /\ TimerDue /\ handler # NoRunner /\ ~running
  /\ pending # NoPending
  /\ FreeSlot(s)
  /\ batches' = [batches EXCEPT ![s] =
       [runner |-> handler, wakes |-> pending,
        left |-> {t \in Targets : pending[t] # NoWake}, call |-> NoWake,
        todo |-> {}, fresh |-> TRUE, delay |-> timer.delay]]
  /\ pending' = NoPending
  /\ timer' = NoTimer
  /\ scheduled' = FALSE
  /\ UNCHANGED <<handler, enabled, runner, updates, history>>

\* Mutant: it is not marked as running.
StartBatchUnmarked(s) == TakeBatch(s) /\ UNCHANGED running

StartBatch(s) == TakeBatch(s) /\ running' = TRUE

-----------------------------------------------------------------------------
(* A batch *)

\* Mutant: only a runner with an agent that is due schedules the next interval.
ScheduleNextIfDue(r) ==
  /\ interval' = IF r \in stopped \/ agents[r] \intersect due[r] = {} THEN interval
                 ELSE interval \union {r}
  /\ missed' = (missed /\ handler # r)

\* scheduleNext of a runner.
ScheduleNext(r) ==
  /\ interval' = IF r \in stopped THEN interval
                 ELSE IF agents[r] = {} THEN interval \ {r} ELSE interval \union {r}
  /\ missed' = (missed /\ handler # r)

\* A call of the handler is over; it leaves the batch as b, these wakes and
\* this timer.  After the last wake comes the finally block.
SettleCall(s, b, wakes, newTimer) ==
  /\ pending' = wakes
  /\ IF b.left = {}
     THEN /\ batches' = [batches EXCEPT ![s] = NoBatch]
          /\ running' = FALSE
          /\ timer' = IF wakes # NoPending \/ scheduled
                      THEN Schedule(newTimer, b.delay, "normal") ELSE newTimer
          /\ outlived' = (outlived \/ b.runner # started)
     ELSE /\ batches' = [batches EXCEPT ![s] = [b EXCEPT !.call = NoWake, !.todo = {}]]
          /\ timer' = newTimer
          /\ UNCHANGED <<running, outlived>>

\* A batch b goes on to its wake for t.
GoOn(b, t) == [b EXCEPT !.left = @ \ {t}, !.call = t, !.fresh = TRUE]
Waiting(s) == {t \in batches[s].left : batches[s].call = NoWake}

\* The agents that a wake for t runs: its target, all, or those that are due.
AgentsToRun(b, t) ==
  CASE t # All -> {t} \intersect agents[b.runner]
    [] t = All /\ b.wakes[t] = "interval" -> agents[b.runner] \intersect due[b.runner]
    [] OTHER -> agents[b.runner]

\* The handler of a batch answers for a wake without running an agent.  It
\* schedules the next interval unless it was stopped or is disabled.
HandOverInVain(s, t) ==
  LET b == batches[s] IN
  /\ b # NoBatch /\ t \in Waiting(s)
  /\ \/ b.runner \in stopped \/ ~enabled
     \/ AgentsToRun(b, t) = {}
  /\ SettleCall(s, GoOn(b, t), pending, timer)
  /\ owed' = owed \ {t}
  /\ IF enabled
     THEN ScheduleNext(b.runner)
     ELSE /\ missed' = (missed \/ (t = All /\ b.runner = handler))
          /\ UNCHANGED interval
  /\ UNCHANGED <<handler, scheduled, enabled, started, stopped, agents, due,
                 updates, cooldown>>

HandOver(s, t) ==
  LET b == batches[s] IN
  /\ b # NoBatch /\ t \in Waiting(s)
  /\ b.runner \notin stopped /\ enabled
  /\ AgentsToRun(b, t) # {}
  /\ batches' = [batches EXCEPT ![s] = [GoOn(b, t) EXCEPT !.todo = AgentsToRun(b, t)]]
  /\ owed' = owed \ {t}
  /\ UNCHANGED <<handler, pending, timer, scheduled, running, enabled, runner,
                 updates, missed, outlived, cooldown>>

\* runHeartbeatOnce of an agent is over.  Its schedule advances, but not if
\* heartbeats are disabled; after the last agent of the wake the next
\* interval is scheduled.  A schedule that the configuration has replaced
\* meanwhile is advanced in vain.
AgentDone(s, a) ==
  LET b == batches[s]
      rest == [b EXCEPT !.todo = @ \ {a}] IN
  /\ b # NoBatch /\ b.call # NoWake /\ a \in b.todo
  /\ \/ due' = IF b.fresh THEN [due EXCEPT ![b.runner] = @ \ {a}] ELSE due
     \/ ~enabled /\ due' = due
  /\ IF rest.todo = {}
     THEN SettleCall(s, rest, pending, timer) /\ ScheduleNext(b.runner)
     ELSE /\ batches' = [batches EXCEPT ![s] = rest]
          /\ UNCHANGED <<pending, timer, running, interval, missed, outlived>>
  /\ UNCHANGED <<handler, scheduled, enabled, started, stopped, agents, updates,
                 owed, cooldown>>

\* Mutant: the next interval is trusted to come by itself.
RequeuedIfRequested(b) ==
  IF b.wakes[b.call] = "interval" THEN pending
  ELSE QueuePendingWakeReason(pending, b.call, b.wakes[b.call])

\* What a busy wake puts back.
Requeued(b) == QueuePendingWakeReason(pending, b.call, b.wakes[b.call])
StillOwed(b) == IF b.wakes[b.call] = "interval" THEN owed ELSE owed \union {b.call}

\* The main lane is busy: "requests-in-flight".  The wake layer tries again;
\* the runner schedules nothing, except for a wake with a target.
AgentBusy(s, a) ==
  LET b == batches[s] IN
  /\ b # NoBatch /\ b.call # NoWake /\ a \in b.todo
  /\ SettleCall(s, b, Requeued(b), Schedule(timer, Retry, "retry"))
  /\ owed' = StillOwed(b)
  /\ cooldown' = IF timer = NoTimer THEN Retry ELSE cooldown
  /\ IF b.call # All
     THEN /\ due' = IF b.fresh THEN [due EXCEPT ![b.runner] = @ \ {a}] ELSE due
          /\ ScheduleNext(b.runner)
     ELSE UNCHANGED <<due, interval, missed>>
  /\ UNCHANGED <<handler, scheduled, enabled, started, stopped, agents, updates>>

\* A handler that throws ends the batch, and all its wakes are put back.  The
\* runner's handler catches the errors of its agents; a handler need not.
HandlerThrows(s) ==
  LET b == batches[s]
      wakes == [t \in Targets |->
                 IF b.wakes[t] = NoWake THEN pending[t]
                 ELSE QueuePendingWakeReason(pending, t, b.wakes[t])[t]] IN
  /\ b # NoBatch /\ b.call # NoWake
  /\ SettleCall(s, [b EXCEPT !.left = {}], wakes, Schedule(timer, Retry, "retry"))
  /\ owed' = StillOwed(b)
  /\ cooldown' = IF timer = NoTimer THEN Retry ELSE cooldown
  /\ UNCHANGED <<handler, scheduled, enabled, runner, updates, missed>>

-----------------------------------------------------------------------------
(* The runner *)

\* Mutant: the wakes that wait for a handler get no timer.
SetHandlerWithoutTimer(r) ==
  /\ handler' = r
  /\ running' = FALSE /\ scheduled' = FALSE
  /\ timer' = NoTimer

\* setHeartbeatWakeHandler.
SetHeartbeatWakeHandler(r) ==
  /\ handler' = r
  /\ running' = FALSE /\ scheduled' = FALSE
  /\ timer' = IF pending = NoPending THEN NoTimer ELSE SetTimer(Coalesce, "normal")

\* startHeartbeatRunner; the agents of the configuration get a schedule.
StartHeartbeatRunner(A) ==
  LET r == started + 1 IN
  /\ started < MaxRunners
  /\ started' = r
  /\ SetHeartbeatWakeHandler(r)
  /\ agents' = [agents EXCEPT ![r] = A]
  /\ interval' = IF A = {} THEN interval ELSE interval \union {r}
  /\ missed' = FALSE /\ outlived' = FALSE /\ cooldown' = 0
  /\ UNCHANGED <<pending, batches, enabled, stopped, due, updates, owed>>

\* stop() of a runner; its disposer spares the handler of a newer one.
StopRunner(r) ==
  /\ r <= started /\ r \notin stopped
  /\ stopped' = stopped \union {r}
  /\ handler' = IF handler = r THEN NoRunner ELSE handler
  /\ interval' = interval \ {r}
  /\ UNCHANGED <<pending, timer, scheduled, running, batches, enabled, started,
                 agents, due, updates, history>>

\* updateConfig with other agents; an agent that stays keeps its schedule.
UpdateConfig(r, A) ==
  /\ r <= started /\ r \notin stopped
  /\ updates < MaxUpdates
  /\ updates' = updates + 1
  /\ agents' = [agents EXCEPT ![r] = A]
  /\ due' = [due EXCEPT ![r] = @ \intersect A]
  /\ interval' = IF A = {} THEN interval \ {r} ELSE interval \union {r}
  /\ missed' = (missed /\ handler # r)
  /\ batches' = [s \in Slots |->
                  IF batches[s] # NoBatch /\ batches[s].runner = r /\ batches[s].todo # {}
                  THEN [batches[s] EXCEPT !.fresh = FALSE] ELSE batches[s]]
  /\ UNCHANGED <<handler, pending, timer, scheduled, running, enabled, started,
                 stopped, owed, outlived, cooldown>>

\* The nextDueMs of an agent comes.
AgentFallsDue(r, a) ==
  /\ a \in agents[r] \ due[r]
  /\ due' = [due EXCEPT ![r] = @ \union {a}]
  /\ UNCHANGED <<wake, enabled, started, stopped, agents, interval, updates, history>>

\* The interval timer.  The agent it was set for may have been run since.
IntervalTimer(r) ==
  /\ r \in interval
  /\ interval' = interval \ {r}
  /\ RequestHeartbeatNow(All, "interval", 0)
  /\ UNCHANGED <<started, stopped, agents, due>>

SetHeartbeatsEnabled(on) ==
  /\ enabled # on
  /\ enabled' = on
  /\ UNCHANGED <<wake, runner, updates, history>>

-----------------------------------------------------------------------------
FireTimer == FireUnhandled \/ FireWhileRunning \/ \E s \in Slots : StartBatch(s)

Call(s) == \E t \in Targets : HandOver(s, t) \/ HandOverInVain(s, t)

Next ==
  \/ Request
  \/ Tick
  \/ FireTimer
  \/ \E s \in Slots :
       \/ Call(s)
       \/ \E a \in Agents : AgentDone(s, a) \/ AgentBusy(s, a)
       \/ HandlerThrows(s)
  \/ \E A \in SUBSET Agents : StartHeartbeatRunner(A)
  \/ \E r \in Runners :
       \/ StopRunner(r)
       \/ IntervalTimer(r)
       \/ \E A \in SUBSET Agents : UpdateConfig(r, A)
       \/ \E a \in Agents : AgentFallsDue(r, a)
  \/ \E on \in BOOLEAN : SetHeartbeatsEnabled(on)

\* The event loop goes on, so do the calls of the handler; runs of agents
\* end, and the main lane is not busy each time a wake for a target comes up.
Fairness ==
  /\ WF_vars(Tick)
  /\ WF_vars(FireTimer)
  /\ \A s \in Slots : WF_vars(Call(s))
  /\ \A s \in Slots, t \in Targets, a \in Agents :
       SF_vars(batches[s] # NoBatch /\ batches[s].call = t /\ AgentDone(s, a))
  /\ \A r \in Runners : WF_vars(IntervalTimer(r))

Spec == Init /\ [][Next]_vars /\ Fairness

-----------------------------------------------------------------------------
(* Properties *)

\* No wake-up is lost between requests, busy answers, a handler that goes and
\* another that comes: with a handler, pending wakes always have a timer.
PendingHasTimer == handler # NoRunner /\ pending # NoPending => timer # NoTimer

\* Two batches of one handler are never in flight at once, and running says
\* so; this fails only after a batch has outlived the handler it was for,
\* whose end clears running for the new one (heartbeat-wake.ts:187).
BatchesOf(r) == {s \in Slots : batches[s] # NoBatch /\ batches[s].runner = r}
OneBatchAtATime ==
  /\ TypeOK
  /\ ~outlived => /\ running <=> BatchesOf(started) # {}
                  /\ Cardinality(BatchesOf(started)) <= 1

\* A request is pending or in a batch until a handler has been called for it,
\* and with its own reason or a weightier one, never as an interval that
\* passes over agents that are not due.
RequestIsKept ==
  \A t \in owed :
    \/ <<t, pending[t]>> \in Requests
    \/ \E s \in Slots : batches[s] # NoBatch /\ t \in batches[s].left
                          /\ <<t, batches[s].wakes[t]>> \in Requests

\* After a busy answer the timer keeps the cooldown, whatever is requested
\* and whichever batch ends before it is over.
CooldownIsKept == timer # NoTimer => timer.left >= cooldown

\* The chain from one interval to the next has no gap: the runner in charge
\* has its timer set, or its interval is pending or in a batch, however
\* requests, busy answers, errors and restarts fall together.  Its only gap:
\* an interval that came while heartbeats were disabled (heartbeat-runner.ts:1125).
IntervalComes ==
  \A r \in Runners :
    handler = r /\ agents[r] # {} /\ ~missed =>
      \/ r \in interval
      \/ pending[All] # NoWake
      \/ \E s \in BatchesOf(r) : All \in batches[s].left \union {batches[s].call}

\* With a handler every request is handed over.
RequestsAreHandled ==
  \A t \in Targets : (t \in owed) ~> (t \notin owed \/ handler = NoRunner)

\* The chain from one interval to the next never breaks: an agent that is due
\* is run, through busy lanes, errors, changes of the configuration and
\* requests of others; unless the interval came while heartbeats were disabled.
DueAgentsRun ==
  \A r \in Runners, a \in Agents :
    (handler = r /\ a \in due[r])
      ~> (handler # r \/ a \notin due[r] \/ ~enabled \/ missed)
=============================================================================
