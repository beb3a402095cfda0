----------------------------- MODULE CronService -----------------------------
(***************************************************************************)
(* The cron service (src/src/cron/service): a store of jobs in memory and  *)
(* on disk, a timer that runs the jobs that are due, manual runs, edits,   *)
(* the catch-up of missed jobs when a service starts, and the replacement  *)
(* of a service by another one when the configuration is reloaded.         *)
(*                                                                         *)
(* A section under the lock (locked.ts) is one action: it loads, changes   *)
(* and persists the store.  Runs of jobs happen outside the lock.          *)
(* Time counts in units of more than a minute, within which timers fire at *)
(* any moment, as armTimer wakes at least once a minute; 0 is undefined.   *)
(***************************************************************************)
EXTENDS Integers, FiniteSets

CONSTANTS
  Jobs,         \* ids, never used twice
  Mixes,        \* the assignments of kinds to jobs that are looked at
  Kept,         \* one-shot jobs with deleteAfterRun: false
  Stores,       \* sets of jobs that may exist in the beginning
  AtTimes,      \* times of one-shot jobs
  Period,       \* everyMs, or the distance of slots of a cron expression
  Backoff,      \* errorBackoffMs
  Stagger,      \* missedJobStaggerMs
  StuckAfter,   \* STUCK_RUN_MS
  MaxRetries,   \* retry.maxAttempts
  MaxMissed,    \* maxMissedJobsPerRestart
  Outcomes,     \* how runs end that are looked at
  Concurrency,  \* maxConcurrentRuns of the timer
  MaxServices,  \* bound: instances of CronService in one process
  NoStore, NoCall,
  MaxTime,      \* bound of the clock
  MaxRequests,  \* bound: edits, reloads and manual runs
  MaxTroubles   \* bound: crashes and failed writes

Kinds == {"at", "every", "cron"}

Flows == {"tick", "start"}

\* Instances of CronService, in the order of their creation.
Services == 1..MaxServices
NoService == 0

NoRun == [state |-> "none", started |-> 0, ended |-> 0, outcome |-> "ok"]
Runs == [state : {"none", "due", "running", "done"}, started : 0..MaxTime,
         ended : 0..MaxTime, outcome : Outcomes \union {"ok"}]
Calls == [service : Services, job : Jobs, forced : BOOLEAN,
          state : {"queued", "ready", "running", "done"}, started : 0..MaxTime,
          ended : 0..MaxTime, outcome : Outcomes \union {"ok"}]

Records == [enabled : BOOLEAN, at : {0} \union AtTimes, next : Nat, running : 0..MaxTime,
            last : 0..MaxTime, status : {"none", "ok", "skipped", "error"},
            errors : 0..MaxRetries + 1]
IsStore(S) == \E J \in SUBSET Jobs : S \in [J -> Records]

ASSUME CronAssumption ==
  /\ Outcomes \subseteq {"ok", "skipped", "transient", "permanent"}
  /\ Stores \subseteq SUBSET Jobs /\ Kept \subseteq Jobs
  /\ Mixes \subseteq [Jobs -> Kinds]
  /\ AtTimes \subseteq Nat \ {0}
  /\ Period \in Nat \ {0} /\ Backoff \in Nat \ {0} /\ Stagger \in Nat \ {0}
  /\ Concurrency \in Nat \ {0} /\ StuckAfter \in Nat
  /\ MaxRetries \in Nat /\ MaxMissed \in Nat
  /\ MaxRequests \in Nat /\ MaxTroubles \in Nat
  /\ MaxTime \in Nat \ {0} /\ MaxServices \in Nat \ {0}
  /\ NoService \notin Services
  /\ ~IsStore(NoStore) /\ NoCall \notin Calls

VARIABLES
  now, kind,
  disk,      \* the store file: job -> its record
  mem,       \* state.store of each service
  used,      \* ids of all jobs there ever were
  current,   \* the service that the gateway calls
  phase,     \* how far start() of a service is
  skip,      \* startupInterruptedJobIds
  later,     \* deferredJobIds
  timer,     \* state.timer is pending
  stage,     \* of onTimer; state.running unless "idle"
  attached,  \* the jobs of the tick are still those of the store in memory
  work,      \* service, flow, job -> its run
  call,      \* the manual run in the cron lane
  requests, troubles,
  excused,   \* history: jobs whose marker was lifted during a run
  behind     \* history: the current service, if its timer need not fit its store

memory == <<mem, attached>>
starting == <<phase, skip, later>>
ticking == <<timer, stage>>
bounds == <<requests, troubles>>
service == <<memory, starting, ticking, work>>
vars == <<now, kind, disk, used, current, service, call, bounds, excused, behind>>

TypeOK ==
  /\ now \in 1..MaxTime /\ kind \in Mixes
  /\ IsStore(disk)
  /\ mem = [s \in Services |-> mem[s]] /\ \A s \in Services : mem[s] = NoStore \/ IsStore(mem[s])
  /\ used \in SUBSET Jobs
  /\ current \in Services \union {NoService}
  /\ phase \in [Services -> {"off", "clear", "plan", "catchup", "last", "up", "failed"}]
  /\ skip \in [Services -> SUBSET Jobs] /\ later \in [Services -> SUBSET Jobs]
  /\ timer \in [Services -> BOOLEAN]
  /\ stage \in [Services -> {"idle", "select", "work", "end"}]
  /\ attached \in [Services -> BOOLEAN]
  /\ work \in [Services -> [Flows -> [Jobs -> Runs]]]
  /\ call \in Calls \union {NoCall}
  /\ requests \in 0..MaxRequests /\ troubles \in 0..MaxTroubles
  /\ excused \in SUBSET Jobs /\ behind \in SUBSET Services

Larger(a, b) == IF a >= b THEN a ELSE b

-----------------------------------------------------------------------------
(* Schedules (jobs.ts, schedule.ts) *)

\* The anchor of "every" jobs is time 0.
NextSlot(t) == Period * Larger(1, (t + Period - 1) \div Period)
NextFire(t) == Period * (t \div Period + 1)
PreviousFire(t) == Period * ((t - 1) \div Period)

\* computeJobNextRunAtMs.
ComputeNext(j, r, t) ==
  IF ~r.enabled THEN 0
  ELSE CASE kind[j] = "every" ->
              IF r.last # 0 /\ r.last + Period > t THEN r.last + Period ELSE NextSlot(t)
         [] kind[j] = "at" ->
              IF r.status = "ok" /\ r.last # 0 /\ r.at <= r.last THEN 0 ELSE r.at
         [] kind[j] = "cron" -> NextFire(t)

\* Mutant: the marker of a run that was cut off stays.
NormalizedUnlessRunning(r) ==
  IF ~r.enabled THEN [r EXCEPT !.next = 0, !.running = 0] ELSE r

\* normalizeJobTickState.
Normalized(r) ==
  IF ~r.enabled THEN [r EXCEPT !.next = 0, !.running = 0]
  ELSE IF r.running # 0 /\ now - r.running > StuckAfter THEN [r EXCEPT !.running = 0]
  ELSE r

\* A slot is computed when there is none, or when the one there is has passed.
Repaired(j, r, stale) ==
  IF r.enabled /\ (r.next = 0 \/ stale) THEN [r EXCEPT !.next = ComputeNext(j, r, now)] ELSE r

\* recomputeNextRuns moves every slot that is due.
RecomputeNextRuns(S) ==
  [j \in DOMAIN S |-> LET r == Normalized(S[j]) IN Repaired(j, r, now >= r.next)]

\* recomputeNextRunsForMaintenance moves a slot only once it was executed.
Executed(r) == r.running = 0 /\ r.last >= r.next
Maintained(S, recomputeExpired) ==
  [j \in DOMAIN S |->
     LET r == Normalized(S[j]) IN
     Repaired(j, r, recomputeExpired /\ now >= r.next /\ Executed(r))]

IsDue(r) == r.enabled /\ r.running = 0 /\ r.next # 0 /\ now >= r.next

\* isRunnableJob as the start of a service asks it.
IsMissed(j, r) ==
  /\ r.enabled /\ r.running = 0
  /\ IF kind[j] = "at" /\ r.status # "none"
     THEN r.status = "error" /\ r.next > r.last /\ now >= r.next
     ELSE \/ r.next # 0 /\ now >= r.next
          \/ /\ kind[j] = "cron" /\ r.last # 0
             /\ ~(r.next > now /\ r.status = "error" /\ now < r.last + Backoff)
             /\ PreviousFire(now) > r.last

\* applyJobResult.  The two seconds that a "cron" job waits at least are less
\* than a unit.
WithResult(j, r, run, preserveSchedule) ==
  LET failed == run.outcome \in {"transient", "permanent"}
      errors == IF ~failed THEN 0
                ELSE IF r.errors > MaxRetries THEN r.errors ELSE r.errors + 1
      s == [r EXCEPT !.running = 0, !.last = run.started, !.errors = errors,
                     !.status = IF failed THEN "error" ELSE run.outcome]
      natural == ComputeNext(j, IF preserveSchedule /\ kind[j] = "every"
                                THEN [s EXCEPT !.last = r.last] ELSE s, run.ended) IN
  IF kind[j] = "at"
  THEN IF run.outcome = "transient" /\ errors <= MaxRetries
       THEN [s EXCEPT !.next = run.ended + Backoff]
       ELSE [s EXCEPT !.enabled = FALSE, !.next = 0]
  ELSE [s EXCEPT !.next = IF failed /\ r.enabled THEN Larger(natural, run.ended + Backoff)
                          ELSE natural]

Deletes(j, run) == kind[j] = "at" /\ j \notin Kept /\ run.outcome = "ok"

\* applyOutcomeToStoredJob for all runs of D that are done.
WithResults(S, D) ==
  [j \in {j \in DOMAIN S : D[j].state # "done" \/ ~Deletes(j, D[j])} |->
     IF D[j].state = "done" THEN WithResult(j, S[j], D[j], FALSE) ELSE S[j]]

Marked(S, J) == [j \in DOMAIN S |-> IF j \in J THEN [S[j] EXCEPT !.running = now] ELSE S[j]]

-----------------------------------------------------------------------------
(* Loading and saving *)

Loaded(s) == IF mem[s] = NoStore THEN disk ELSE mem[s]
LoadedAndRecomputed(s) == IF mem[s] = NoStore THEN RecomputeNextRuns(disk) ELSE mem[s]

Request == requests < MaxRequests /\ requests' = requests + 1
Trouble == troubles < MaxTroubles /\ troubles' = troubles + 1

\* persist.  When the file cannot be written, what was to be saved stays in
\* memory and the section throws.
Persist(s, S) ==
  mem' = [mem EXCEPT ![s] = S] /\ disk' = S /\ UNCHANGED troubles
PersistFails(s, S) ==
  mem' = [mem EXCEPT ![s] = S] /\ S # disk /\ Trouble /\ UNCHANGED disk

\* armTimer.
HasWake(S) == \E j \in DOMAIN S : S[j].enabled /\ S[j].next # 0

\* Mutant: jobs that are due already are left out.
ArmTimerForFuture(s, S) ==
  timer' = [timer EXCEPT ![s] = \E j \in DOMAIN S : S[j].enabled /\ S[j].next > now]

ArmTimer(s, S) == timer' = [timer EXCEPT ![s] = HasWake(S)]

Created(j, at) ==
  LET r == [enabled |-> TRUE, at |-> at, next |-> 0, running |-> 0, last |-> 0,
            status |-> "none", errors |-> 0] IN
  [r EXCEPT !.next = ComputeNext(j, r, now)]

Init ==
  /\ now = 1 /\ kind \in Mixes
  /\ used \in Stores
  /\ \E at \in AtTimes : disk = [j \in used |-> Created(j, IF kind[j] = "at" THEN at ELSE 0)]
  /\ mem = [s \in Services |-> NoStore]
  /\ current = NoService
  /\ phase = [s \in Services |-> "off"]
  /\ skip = [s \in Services |-> {}] /\ later = [s \in Services |-> {}]
  /\ timer = [s \in Services |-> FALSE]
  /\ stage = [s \in Services |-> "idle"]
  /\ attached = [s \in Services |-> FALSE]
  /\ work = [s \in Services |-> [f \in Flows |-> [j \in Jobs |-> NoRun]]]
  /\ call = NoCall
  /\ requests = 0 /\ troubles = 0 /\ excused = {} /\ behind = {}

-----------------------------------------------------------------------------
(* start() (ops.ts, runMissedJobs in timer.ts) *)

Enter(s, p) == phase' = [phase EXCEPT ![s] = p]

\* The gateway starts, and its cron service with it.
Boot(s) ==
  /\ current = NoService /\ s = 1
  /\ current' = s
  /\ Enter(s, "clear")
  /\ UNCHANGED <<now, kind, disk, used, memory, skip, later, ticking, work, call, bounds>>

\* restart-cron of a reload: the old service is stopped and a new one started.
Reload(s) ==
  /\ current # NoService /\ s = current + 1
  /\ Request
  /\ timer' = [timer EXCEPT ![current] = FALSE]
  /\ current' = s
  /\ Enter(s, "clear")
  /\ UNCHANGED <<now, kind, disk, used, memory, skip, later, stage, work, call, troubles>>

Clear(s) ==
  LET S == Loaded(s)
      interrupted == {j \in DOMAIN S : S[j].running # 0}
      cleared == [j \in DOMAIN S |-> [S[j] EXCEPT !.running = 0]] IN
  /\ phase[s] = "clear"
  /\ skip' = [skip EXCEPT ![s] = interrupted]
  /\ \/ Persist(s, cleared) /\ Enter(s, "plan")
     \/ PersistFails(s, cleared) /\ Enter(s, "failed")
  /\ UNCHANGED <<now, kind, used, current, attached, later, ticking, work, call, requests>>

NoRuns == [j \in Jobs |-> NoRun]
Due(J) == [j \in Jobs |-> IF j \in J THEN [NoRun EXCEPT !.state = "due"] ELSE NoRun]

\* planStartupCatchup: the earliest of the missed jobs are run at once.
Plan(s) ==
  LET S == mem[s]
      missed == {j \in DOMAIN S : IsMissed(j, S[j]) /\ j \notin skip[s]} IN
  /\ phase[s] = "plan"
  /\ \/ /\ missed = {}
        /\ Enter(s, "last")
        /\ UNCHANGED <<disk, mem, troubles, later, work>>
     \/ \E soon \in SUBSET missed :
          /\ missed # {}
          /\ Cardinality(soon) = IF Cardinality(missed) < MaxMissed
                                 THEN Cardinality(missed) ELSE MaxMissed
          /\ \A j \in soon, k \in missed \ soon : S[j].next <= S[k].next
          /\ \/ /\ Persist(s, Marked(S, soon))
                /\ Enter(s, "catchup")
                /\ later' = [later EXCEPT ![s] = missed \ soon]
                /\ work' = [work EXCEPT ![s].start = Due(soon)]
             \/ /\ PersistFails(s, Marked(S, soon))
                /\ Enter(s, "failed")
                /\ UNCHANGED <<later, work>>
  /\ UNCHANGED <<now, kind, used, current, attached, skip, ticking, call, requests>>

Finished(s, f) == \A j \in Jobs : work[s][f][j].state \in {"none", "done"}

\* applyStartupCatchupOutcomes.  (Deferred jobs get slots one Stagger apart; here
\* they get the first of them.)
ApplyCatchup(s) ==
  LET S == WithResults(disk, work[s].start)
      deferred == [j \in DOMAIN S |->
                     IF j \in later[s] /\ S[j].enabled THEN [S[j] EXCEPT !.next = now + Stagger]
                     ELSE S[j]]
      T == Maintained(deferred, FALSE) IN
  /\ phase[s] = "catchup" /\ Finished(s, "start")
  /\ work' = [work EXCEPT ![s].start = NoRuns]
  /\ attached' = [attached EXCEPT ![s] = FALSE]
  /\ \/ Persist(s, T) /\ Enter(s, "last")
     \/ PersistFails(s, T) /\ Enter(s, "failed")
  /\ UNCHANGED <<now, kind, used, current, skip, later, ticking, call, requests>>

\* The end of start().
FinishStart(s) ==
  LET S == RecomputeNextRuns(disk) IN
  /\ phase[s] = "last"
  /\ attached' = [attached EXCEPT ![s] = FALSE]
  /\ \/ Persist(s, S) /\ Enter(s, "up") /\ ArmTimer(s, S)
     \/ PersistFails(s, S) /\ Enter(s, "failed") /\ UNCHANGED timer
  /\ UNCHANGED <<now, kind, used, current, skip, later, stage, work, call, requests>>

-----------------------------------------------------------------------------
(* onTimer *)

Reach(s, g) == stage' = [stage EXCEPT ![s] = g]

\* Mutant: a timer that fires during a tick is not set again.
OnTimerWithoutRecheck(s) ==
  /\ timer[s]
  /\ IF stage[s] = "idle" THEN Reach(s, "select") /\ UNCHANGED timer
     ELSE timer' = [timer EXCEPT ![s] = FALSE] /\ UNCHANGED stage
  /\ UNCHANGED <<now, kind, disk, used, current, memory, starting, work, call, bounds>>

\* armRunningRecheckTimer sets the timer again in both cases.
OnTimer(s) ==
  /\ timer[s]
  /\ Reach(s, IF stage[s] = "idle" THEN "select" ELSE stage[s])
  /\ UNCHANGED <<now, kind, disk, used, current, memory, starting, timer, work, call, bounds>>

SelectDue(s) ==
  LET due == {j \in DOMAIN disk : IsDue(disk[j])}
      S == IF due = {} THEN Maintained(disk, TRUE) ELSE Marked(disk, due) IN
  /\ stage[s] = "select"
  /\ \/ /\ Persist(s, S)
        /\ Reach(s, IF due = {} THEN "end" ELSE "work")
        /\ work' = [work EXCEPT ![s].tick = Due(due)]
     \/ PersistFails(s, S) /\ Reach(s, "end") /\ UNCHANGED work
  /\ attached' = [attached EXCEPT ![s] = TRUE]
  /\ UNCHANGED <<now, kind, used, current, starting, timer, call, requests>>

\* A worker takes the next job.  The tick marks it again, on the object that it
\* got when it selected the job.
Take(s, f, j) ==
  /\ work[s][f][j].state = "due"
  /\ Cardinality({k \in Jobs : work[s][f][k].state = "running"})
       < (IF f = "tick" THEN Concurrency ELSE 1)
  /\ work' = [work EXCEPT ![s][f][j] = [@ EXCEPT !.state = "running", !.started = now]]
  /\ mem' = IF f = "tick" /\ attached[s] /\ j \in DOMAIN mem[s]
            THEN [mem EXCEPT ![s][j].running = now] ELSE mem
  /\ UNCHANGED <<now, kind, disk, used, current, attached, starting, ticking, call, bounds>>

\* executeJobCoreWithTimeout settles.
Settle(s, f, j, outcome) ==
  /\ work[s][f][j].state = "running"
  /\ work' = [work EXCEPT ![s][f][j] =
                [@ EXCEPT !.state = "done", !.ended = now, !.outcome = outcome]]
  /\ UNCHANGED <<now, kind, disk, used, current, memory, starting, ticking, call, bounds>>

\* Mutant: slots that fell due during the tick are moved.
ApplyAndRecompute(s) ==
  LET S == RecomputeNextRuns(WithResults(disk, work[s].tick)) IN
  /\ stage[s] = "work" /\ Finished(s, "tick")
  /\ work' = [work EXCEPT ![s].tick = NoRuns]
  /\ attached' = [attached EXCEPT ![s] = FALSE]
  /\ Reach(s, "end")
  /\ Persist(s, S)
  /\ UNCHANGED <<now, kind, used, current, starting, timer, call, requests>>

\* The results of the tick, on the store as it is on disk now.
ApplyTick(s) ==
  LET S == Maintained(WithResults(disk, work[s].tick), FALSE) IN
  /\ stage[s] = "work" /\ Finished(s, "tick")
  /\ work' = [work EXCEPT ![s].tick = NoRuns]
  /\ attached' = [attached EXCEPT ![s] = FALSE]
  /\ Reach(s, "end")
  /\ Persist(s, S) \/ PersistFails(s, S)
  /\ UNCHANGED <<now, kind, used, current, starting, timer, call, requests>>

\* The finally block, even of a service that was stopped in the meantime.
EndTick(s) ==
  /\ stage[s] = "end"
  /\ Reach(s, "idle")
  /\ ArmTimer(s, mem[s])
  /\ UNCHANGED <<now, kind, disk, used, current, memory, starting, work, call, bounds>>

-----------------------------------------------------------------------------
(* Operations of the gateway *)

\* A section of the current service that ends in armTimer, unless it throws.
Section(S) ==
  /\ \/ Persist(current, S) /\ ArmTimer(current, S)
     \/ PersistFails(current, S) /\ UNCHANGED timer
  /\ UNCHANGED <<now, kind, current, attached, starting, stage, work, call>>

Add(j, at) ==
  LET S == LoadedAndRecomputed(current)
      T == [k \in DOMAIN S \union {j} |-> IF k = j THEN Created(j, at) ELSE S[k]] IN
  /\ current # NoService
  /\ j \notin used /\ used' = used \union {j}
  /\ at = 0 <=> kind[j] # "at"
  /\ Request
  /\ Section(RecomputeNextRuns(T))

\* A patch that sets enabled or the schedule, and one that does neither.
Patched(j, r, patch, at) ==
  LET s == [r EXCEPT !.enabled = IF patch = "enable" THEN TRUE
                                 ELSE IF patch = "disable" THEN FALSE ELSE @,
                     !.at = IF patch = "schedule" THEN at ELSE @] IN
  IF patch # "other"
  THEN IF s.enabled THEN [s EXCEPT !.next = ComputeNext(j, s, now)]
       ELSE [s EXCEPT !.next = 0, !.running = 0]
  ELSE IF s.enabled /\ s.next = 0 THEN [s EXCEPT !.next = ComputeNext(j, s, now)] ELSE s

Update(j, patch, at) ==
  LET S == Loaded(current) IN
  /\ current # NoService /\ j \in DOMAIN S
  /\ at = 0 <=> kind[j] # "at"
  /\ Request /\ UNCHANGED used
  /\ Section([S EXCEPT ![j] = Patched(j, @, patch, at)])

Remove(j) ==
  LET S == LoadedAndRecomputed(current) IN
  /\ current # NoService /\ j \in DOMAIN S
  /\ Request /\ UNCHANGED used
  /\ Section([k \in DOMAIN S \ {j} |-> S[k]])

\* list, listPage and status.
Read ==
  /\ current # NoService
  /\ LET S == Maintained(Loaded(current), FALSE) IN
     /\ Persist(current, S) \/ PersistFails(current, S)
     /\ S # Loaded(current) \/ mem[current] = NoStore
  /\ UNCHANGED <<now, kind, used, current, attached, starting, ticking, work, call, requests>>

\* inspectManualRunPreflight.
Preflight(S, j, forced) == j \in DOMAIN S /\ S[j].running = 0 /\ (forced \/ IsDue(S[j]))

\* enqueueRun; the cron lane takes one manual run after the other.
EnqueueRun(j, forced) ==
  LET S == Maintained(Loaded(current), FALSE) IN
  /\ current # NoService /\ call = NoCall
  /\ Request
  /\ mem' = [mem EXCEPT ![current] = S]
  /\ call' = IF Preflight(S, j, forced)
             THEN [service |-> current, job |-> j, forced |-> forced, state |-> "queued",
                   started |-> 0, ended |-> 0, outcome |-> "ok"]
             ELSE NoCall
  /\ UNCHANGED <<now, kind, disk, used, current, attached, starting, ticking, work, troubles>>

\* prepareManualRun: the job is inspected once more ...
Prepare ==
  LET s == call.service
      S == Maintained(Loaded(s), FALSE) IN
  /\ call # NoCall /\ call.state = "queued"
  /\ mem' = [mem EXCEPT ![s] = S]
  /\ call' = IF Preflight(S, call.job, call.forced)
             THEN [call EXCEPT !.state = "ready", !.started = now] ELSE NoCall
  /\ UNCHANGED <<now, kind, disk, used, current, attached, starting, ticking, work, bounds>>

\* Mutant: the job is not looked at again.
ReserveBlindly ==
  LET s == call.service
      j == call.job IN
  /\ call # NoCall /\ call.state = "ready"
  /\ j \in DOMAIN mem[s]
  /\ Persist(s, [mem[s] EXCEPT ![j].running = call.started])
  /\ call' = [call EXCEPT !.state = "running"]
  /\ UNCHANGED <<now, kind, used, current, attached, starting, ticking, work, requests>>

\* ... and reserved in another section.
Reserve ==
  LET s == call.service
      j == call.job IN
  /\ call # NoCall /\ call.state = "ready"
  /\ \/ /\ j \in DOMAIN mem[s] /\ mem[s][j].running = 0
        /\ LET S == [mem[s] EXCEPT ![j].running = call.started] IN
           \/ Persist(s, S) /\ call' = [call EXCEPT !.state = "running"]
           \/ PersistFails(s, S) /\ call' = NoCall
     \/ /\ ~(j \in DOMAIN mem[s] /\ mem[s][j].running = 0)
        /\ call' = NoCall
        /\ UNCHANGED <<disk, mem, troubles>>
  /\ UNCHANGED <<now, kind, used, current, attached, starting, ticking, work, requests>>

SettleManual(outcome) ==
  /\ call # NoCall /\ call.state = "running"
  /\ call' = [call EXCEPT !.state = "done", !.ended = now, !.outcome = outcome]
  /\ UNCHANGED <<now, kind, disk, used, current, service, bounds>>

\* finishPreparedManualRun: the result is applied in memory, and the job put
\* into the store as it is on disk.
FinishManual ==
  LET s == call.service
      j == call.job
      r == WithResult(j, mem[s][j], call, call.forced)
      merged == IF Deletes(j, call) THEN [k \in DOMAIN disk \ {j} |-> disk[k]]
                ELSE [k \in DOMAIN disk |-> IF k = j THEN [r EXCEPT !.at = disk[j].at] ELSE disk[k]]
      S == Maintained(merged, TRUE) IN
  /\ call # NoCall /\ call.state = "done"
  /\ call' = NoCall
  /\ \/ j \notin DOMAIN mem[s] /\ UNCHANGED <<disk, memory, timer, troubles>>
     \/ /\ j \in DOMAIN mem[s]
        /\ attached' = [attached EXCEPT ![s] = FALSE]
        /\ \/ Persist(s, S) /\ ArmTimer(s, S)
           \/ PersistFails(s, S) /\ UNCHANGED timer
  /\ UNCHANGED <<now, kind, used, current, starting, stage, work, requests>>

-----------------------------------------------------------------------------
(* Crashes and time *)

\* The process ends; what is not on disk is gone.
Crash ==
  /\ current # NoService /\ Trouble
  /\ current' = NoService
  /\ mem' = [s \in Services |-> NoStore]
  /\ phase' = [s \in Services |-> "off"]
  /\ skip' = [s \in Services |-> {}] /\ later' = [s \in Services |-> {}]
  /\ timer' = [s \in Services |-> FALSE]
  /\ stage' = [s \in Services |-> "idle"]
  /\ attached' = [s \in Services |-> FALSE]
  /\ work' = [s \in Services |-> [f \in Flows |-> NoRuns]]
  /\ call' = NoCall
  /\ UNCHANGED <<now, kind, disk, used, requests>>

Clock ==
  /\ now < MaxTime
  /\ now' = now + 1
  /\ UNCHANGED <<kind, disk, used, current, service, call, bounds>>

-----------------------------------------------------------------------------
(* Specification *)

\* Runs of j that are in progress: of ticks, of catch-ups, and the manual one.
InProgress(j) == {p \in Services \X Flows : work[p[1]][p[2]][j].state = "running"}
ManualInProgress(j) == call # NoCall /\ call.job = j /\ call.state = "running"

\* A run of j is planned or in progress, or its result is still to be applied.
Busy(j) ==
  \/ \E s \in Services, f \in Flows : work[s][f][j].state # "none"
  \/ call # NoCall /\ call.job = j /\ call.state \in {"running", "done"}

\* What may lift the marker of a run: its job is disabled, the run goes on for
\* longer than STUCK_RUN_MS, a service starts, or an old service is still at work.
Copies == {disk} \union {mem[s] : s \in {s \in Services : mem[s] # NoStore}}
AtWork(s) == timer[s] \/ stage[s] # "idle" \/ phase[s] \notin {"off", "up", "failed"}
             \/ (call # NoCall /\ call.service = s)
Risky(j) ==
  Busy(j) /\ \/ \E S \in Copies : j \in DOMAIN S /\ (~S[j].enabled \/ S[j].running \in 1..(now - StuckAfter - 1))
             \/ \E s \in Services : phase[s] = "clear" \/ (s # current /\ AtWork(s))

StartStep(s) == Clear(s) \/ Plan(s) \/ ApplyCatchup(s) \/ FinishStart(s)
                \/ \E j \in Jobs : Take(s, "start", j) \/ \E o \in Outcomes : Settle(s, "start", j, o)
TickStep(s) == OnTimer(s) \/ SelectDue(s) \/ ApplyTick(s) \/ EndTick(s)
               \/ \E j \in Jobs : Take(s, "tick", j) \/ \E o \in Outcomes : Settle(s, "tick", j, o)
ManualStep == Prepare \/ Reserve \/ FinishManual \/ \E o \in Outcomes : SettleManual(o)

Operation ==
  \/ Read
  \/ \E j \in Jobs :
       \/ \E at \in AtTimes \union {0} :
            \/ Add(j, at)
            \/ \E patch \in {"enable", "disable", "schedule", "other"} : Update(j, patch, at)
       \/ Remove(j)
       \/ \E forced \in BOOLEAN : EnqueueRun(j, forced)

Step ==
  \/ \E s \in Services : Boot(s) \/ Reload(s) \/ StartStep(s) \/ TickStep(s)
  \/ ManualStep
  \/ Operation
  \/ Crash
  \/ Clock

\* A write of s fails, so that its section does not come to armTimer, or the file
\* is written by another service; start and the next tick to end set the timer.
Misses(s) == \/ troubles' # troubles /\ mem'[s] # mem[s]
             \/ disk' # disk /\ disk' # mem'[s]
Rearms(s) == \/ stage[s] = "end" /\ stage'[s] = "idle"
             \/ phase[s] = "last" /\ phase'[s] = "up"

Next ==
  /\ Step
  /\ excused' = {j \in Jobs : (j \in excused /\ current' # NoService) \/ Risky(j)'}
  /\ behind' = {s \in {current'} \ {NoService} : (s \in behind /\ ~Rearms(s)) \/ Misses(s)}

\* Timers fire, the lock is granted, and runs of jobs end (they have a timeout).
Fairness == \A s \in Services : WF_service(TickStep(s))

Spec == Init /\ [][Next]_vars /\ Fairness

-----------------------------------------------------------------------------
(* Properties *)

\* No job runs twice at a time, whatever timer, catch-up, manual run and edits
\* do between two sections, unless its marker was lifted in one of four ways.
OneRunAtATime ==
  /\ TypeOK
  /\ \A j \in Jobs \ excused :
       /\ Cardinality(InProgress(j)) <= 1
       /\ ManualInProgress(j) => InProgress(j) = {}

\* A slot that is due is not moved before its job ran, but by an edit or an
\* addition, the deferral at a start, or the end of a start.  (A move that a
\* failed write left in memory counts where it was made.)
DueEverywhere(j) == \A S \in Copies : j \in DOMAIN S => S[j].enabled /\ S[j].next = disk[j].next
DueSlotsAreKept ==
  [][\A j \in DOMAIN disk \intersect DOMAIN disk' :
       DueEverywhere(j) /\ disk[j].next \in 1..now /\ disk'[j].next > disk[j].next
         => \/ disk'[j].last >= disk[j].next \/ Busy(j)
            \/ requests' # requests
            \/ \E s \in Services : j \in later[s] \/ (phase[s] = "last" /\ phase'[s] = "up")]_vars

\* While some enabled job of the current service has a next run, its timer is set,
\* even when a tick hangs: whatever edits, manual runs and maintenance leave in
\* the store, unless a write has failed or another service has written the file
\* since the timer was set.  (At its end a tick sets the timer.)
SchedulerGoesOn ==
  \A s \in {current} \ ({NoService} \union behind) :
    phase[s] = "up" /\ stage[s] # "end" /\ HasWake(mem[s]) => timer[s]

\* A job that is due, in the file as in memory, does not stay so.
Waiting(j) ==
  /\ current # NoService /\ phase[current] = "up"
  /\ \A S \in {disk, mem[current]} : j \in DOMAIN S /\ IsDue(S[j])
DueJobsRun == \A j \in Jobs : Waiting(j) ~> ~Waiting(j)

\* The marker of a run that was cut off is cleared.
Stuck(j) ==
  /\ current # NoService /\ phase[current] = "up" /\ ~Busy(j)
  /\ \A S \in {disk, mem[current]} :
       /\ j \in DOMAIN S /\ S[j].enabled /\ S[j].next # 0
       /\ S[j].running \in 1..(now - StuckAfter - 1)
StuckJobsAreFreed == \A j \in Jobs : Stuck(j) ~> ~Stuck(j)
=============================================================================
