-------------------------- MODULE SubagentRegistry --------------------------
(***************************************************************************)
(* The registry of subagent runs (src/src/agents/subagent-registry.ts and  *)
(* the modules it is split into).                                          *)
(*                                                                         *)
(* A run of a child session is registered when it is spawned.  Its end is  *)
(* reported by lifecycle events and by the answer of agent.wait, each of   *)
(* which may be late or missing; then the result is frozen and announced   *)
(* to the requester, after the runs that the child has spawned itself.  An *)
(* announcement that fails is retried, deferred or given up.  A run may be *)
(* steered (interrupted and replaced), killed or archived meanwhile, and   *)
(* the registry is restored from disk after a crash.  Each step between    *)
(* two awaits is an action.                                                *)
(***************************************************************************)
EXTENDS Integers, FiniteSets

CONSTANTS
  RunIds,
  SessionOf,   \* run -> its child session
  Requester,   \* child session -> the session that asked for it
  Expecting,   \* runs with expectsCompletionMessage
  Deleting,    \* runs with cleanup "delete"
  Spawned,     \* runs that are registered by a spawn; others replace a run
  MaxRetries,  \* MAX_ANNOUNCE_RETRY_COUNT
  MaxCaptures, \* bound: completeSubagentRun calls of a run at a time
  MaxTroubles, \* bound: failures, steers, kills, archivings and crashes
  NoRun

Sessions == {SessionOf[x] : x \in RunIds}

Entry == [ended : BOOLEAN, reason : {"none", "complete", "error", "killed"},
          handled : BOOLEAN, completed : BOOLEAN,
          suppress : {"none", "steer-restart", "killed"},
          retries : 0..MaxRetries, cooling : BOOLEAN, wake : BOOLEAN]

\* What the process remembers of a run outside its entry.
\*   resumed   - resumedRuns
\*   waiting   - an agent.wait call of waitForSubagentCompletion
\*   grace     - pendingLifecycleErrorByRunId
\*   freezing  - calls of completeSubagentRun that are capturing the result
\*   flow      - how far startSubagentAnnounceCleanupFlow is
\*   timers    - resumeSubagentRun timers; "clear" also drops resumed
\*   steering  - a steer call is between its mark and its result
Volatile == [resumed : BOOLEAN, waiting : BOOLEAN, grace : BOOLEAN,
             freezing : 0..MaxCaptures,
             flow : {"none", "announcing", "completing", "giving up"},
             timers : SUBSET {"plain", "clear"}, steering : BOOLEAN]

ASSUME RegistryAssumption ==
  /\ SessionOf \in [RunIds -> Sessions]
  /\ Sessions \subseteq DOMAIN Requester
  /\ Expecting \subseteq RunIds /\ Deleting \subseteq RunIds /\ Spawned \subseteq RunIds
  /\ MaxRetries \in Nat \ {0} /\ MaxTroubles \in Nat /\ MaxCaptures \in Nat \ {0}
  /\ NoRun \notin Entry

VARIABLES
  runs,       \* subagentRuns: run -> entry, or NoRun
  memory,     \* run -> what the process remembers of it
  disk,       \* runs.json
  child,      \* run -> the agent run itself
  used,       \* run ids that were given out
  sessions,   \* child sessions with an entry in the session store
  expired,    \* runs that ended longer ago than the announce expiry
  sweeping,   \* a sweep has removed entries that are still on disk
  troubles,
  announced,  \* history: run -> number of times it was announced
  replaced,   \* history: runs that a steer or a wake has replaced
  cut,        \* history: runs whose announcement or steer a crash has cut
  killed      \* history: runs that were killed

registry == <<runs, memory, disk>>
world == <<child, used, sessions, expired, sweeping, troubles>>
history == <<announced, replaced, cut, killed>>
vars == <<registry, world, history>>

TypeOK ==
  /\ runs \in [RunIds -> Entry \union {NoRun}]
  /\ memory \in [RunIds -> Volatile]
  /\ disk \in [RunIds -> Entry \union {NoRun}]
  /\ child \in [RunIds -> {"none", "running", "over", "dead"}]
  /\ used \in SUBSET RunIds
  /\ sessions \in SUBSET Sessions
  /\ expired \in SUBSET RunIds
  /\ sweeping \in BOOLEAN
  /\ troubles \in 0..MaxTroubles
  /\ announced \in [RunIds -> Nat]
  /\ replaced \in SUBSET RunIds
  /\ cut \in SUBSET RunIds
  /\ killed \in SUBSET RunIds

NewEntry == [ended |-> FALSE, reason |-> "none", handled |-> FALSE,
             completed |-> FALSE, suppress |-> "none", retries |-> 0,
             cooling |-> FALSE, wake |-> FALSE]
Nothing == [resumed |-> FALSE, waiting |-> FALSE, grace |-> FALSE, freezing |-> 0,
            flow |-> "none", timers |-> {}, steering |-> FALSE]

Init ==
  /\ runs = [x \in RunIds |-> NoRun]
  /\ memory = [x \in RunIds |-> Nothing]
  /\ disk = [x \in RunIds |-> NoRun]
  /\ child = [x \in RunIds |-> "none"]
  /\ used = {} /\ sessions = {} /\ expired = {}
  /\ sweeping = FALSE /\ troubles = 0
  /\ announced = [x \in RunIds |-> 0]
  /\ replaced = {} /\ cut = {} /\ killed = {}

Known(x) == runs[x] # NoRun

Trouble == troubles < MaxTroubles /\ troubles' = troubles + 1
TroubleIf(condition) == IF condition THEN Trouble ELSE UNCHANGED troubles

\* persistSubagentRuns.
Persist == disk' = runs'
PersistIfChanged == disk' = IF runs' = runs THEN disk ELSE runs'

-----------------------------------------------------------------------------
(* Descendants *)

\* Reads merge the file with the map: an entry deleted from the map counts
\* until the file is written.
Snapshot(x) == IF Known(x) THEN runs[x] ELSE disk[x]

\* The sessions that forEachDescendantRun reaches from s: the least set that
\* has s and, with a requester, the sessions of its runs.
Closed(T) ==
  \A y \in RunIds :
    Snapshot(y) # NoRun /\ Requester[SessionOf[y]] \in T => SessionOf[y] \in T
Reached(s) == {t \in Sessions : \A T \in SUBSET Sessions : s \in T /\ Closed(T) => t \in T}

\* Mutant: a run that has ended no longer counts, announced or not.
ActiveDescendants(x) ==
  {y \in RunIds : /\ Snapshot(y) # NoRun
                  /\ Requester[SessionOf[y]] \in Reached(SessionOf[x])
                  /\ ~Snapshot(y).ended}

\* Those that countPendingDescendantRuns counts for the session of x.
PendingDescendants(x) ==
  {y \in RunIds : /\ Snapshot(y) # NoRun
                  /\ Requester[SessionOf[y]] \in Reached(SessionOf[x])
                  /\ ~(Snapshot(y).ended /\ Snapshot(y).completed)}

-----------------------------------------------------------------------------
(* Announcing *)

\* Mutant: an announcement that is under way does not keep another back.
MayBeginIfOpen(e) == ~e.completed

\* beginSubagentCleanup succeeds.
MayBegin(e) == ~e.completed /\ ~e.handled

\* What resumeSubagentRun makes of an entry and of the memory of its run.
Resumed(x, e, v) ==
  LET same == [e |-> e, v |-> v]
      completes == [e |-> [e EXCEPT !.completed = TRUE], v |-> v]
      marks == [e |-> e, v |-> [v EXCEPT !.resumed = TRUE]] IN
  IF v.resumed \/ e = NoRun THEN same
  ELSE IF SessionOf[x] \notin sessions
  THEN [e |-> NoRun, v |-> [v EXCEPT !.resumed = FALSE]]
  ELSE IF e.completed THEN same
  ELSE IF e.retries >= MaxRetries THEN completes
  ELSE IF x \notin Expecting /\ e.ended /\ x \in expired THEN completes
  ELSE IF x \in Expecting /\ e.cooling
  THEN [marks EXCEPT !.v.timers = @ \union {"clear"}]
  ELSE IF ~e.ended THEN [marks EXCEPT !.v.waiting = TRUE]
  ELSE IF e.suppress = "steer-restart" THEN marks
  ELSE IF ~MayBegin(e) THEN same
  ELSE [e |-> [e EXCEPT !.handled = TRUE],
        v |-> [v EXCEPT !.resumed = TRUE, !.flow = "announcing"]]

\* retryDeferredCompletedAnnounces reaches this run.
Deferred(e) == e # NoRun /\ e.ended /\ ~e.completed /\ ~e.handled
               /\ e.suppress # "steer-restart"
Retried(x, e, v) ==
  IF x \notin Expecting /\ x \in expired
  THEN [e |-> [e EXCEPT !.completed = TRUE], v |-> v]
  ELSE Resumed(x, e, [v EXCEPT !.resumed = FALSE])

\* The entry of x and its memory become e and v, and the others are retried.
SettleAndRetryOthers(x, e, v) ==
  LET other(y) == IF Deferred(runs[y]) THEN Retried(y, runs[y], memory[y])
                  ELSE [e |-> runs[y], v |-> memory[y]] IN
  /\ runs' = [y \in RunIds |-> IF y = x THEN e ELSE other(y).e]
  /\ memory' = [y \in RunIds |-> IF y = x THEN v ELSE other(y).v]
  /\ Persist

Become(x, e, v) ==
  /\ runs' = [runs EXCEPT ![x] = e]
  /\ memory' = [memory EXCEPT ![x] = v]

Resume(x, e, v) ==
  /\ Become(x, Resumed(x, e, v).e, Resumed(x, e, v).v)
  /\ PersistIfChanged

\* The session of a run that deletes it is gone when its flow is over.
SessionAfter(x) == IF x \in Deleting THEN sessions \ {SessionOf[x]} ELSE sessions

\* The flow reports success: the requester was told, or nothing is to be told.
\* finalizeSubagentCleanup then waits for hooks and attachments.
AnnounceSucceeds(x, told) ==
  /\ memory[x].flow = "announcing"
  /\ PendingDescendants(x) = {}
  /\ announced' = IF told THEN [announced EXCEPT ![x] = @ + 1] ELSE announced
  /\ sessions' = SessionAfter(x)
  /\ IF Known(x)
     THEN Become(x, [runs[x] EXCEPT !.wake = FALSE], [memory[x] EXCEPT !.flow = "completing"])
     ELSE Become(x, NoRun, [memory[x] EXCEPT !.flow = "none"])
  /\ UNCHANGED <<disk, child, used, expired, sweeping, troubles, replaced, cut, killed>>

\* completeCleanupBookkeeping of an announced run.
CompleteCleanup(x) ==
  /\ memory[x].flow = "completing"
  /\ SettleAndRetryOthers(x,
       IF x \in Deleting \/ ~Known(x) THEN NoRun
       ELSE [runs[x] EXCEPT !.completed = TRUE],
       [memory[x] EXCEPT !.flow = "none", !.grace = IF x \in Deleting THEN FALSE ELSE @])
  /\ UNCHANGED <<world, history>>

\* Mutant: giving up forgets to mark the cleanup as completed.
GiveUpSilently(x) ==
  /\ memory[x].flow = "giving up"
  /\ SettleAndRetryOthers(x, runs[x], [memory[x] EXCEPT !.flow = "none"])
  /\ UNCHANGED <<world, history>>

GiveUp(x) ==
  /\ memory[x].flow = "giving up"
  /\ SettleAndRetryOthers(x,
       IF Known(x) THEN [runs[x] EXCEPT !.completed = TRUE] ELSE NoRun,
       [memory[x] EXCEPT !.flow = "none"])
  /\ UNCHANGED <<world, history>>

\* The flow reports failure, at once if a descendant is pending:
\* resolveDeferredCleanupDecision and what finalizeSubagentCleanup does.  A
\* run that expects its message waits for its descendants until it expires.
AnnounceFails(x) ==
  LET e == runs[x]
      v == memory[x]
      waits == x \in Expecting /\ PendingDescendants(x) # {}
      retries == IF waits THEN e.retries ELSE e.retries + 1
      givesUp == \/ x \in expired
                 \/ ~waits /\ retries >= MaxRetries IN
  /\ v.flow = "announcing"
  /\ sessions' \in IF PendingDescendants(x) = {} THEN {sessions, SessionAfter(x)}
                   ELSE {sessions}
  /\ CASE e = NoRun ->
            Become(x, e, [v EXCEPT !.flow = "none"]) /\ UNCHANGED disk
       [] e # NoRun /\ givesUp ->
            /\ Become(x, [e EXCEPT !.retries = retries,
                                   !.cooling = IF waits THEN @ ELSE TRUE, !.wake = FALSE],
                      [v EXCEPT !.flow = "giving up"])
            /\ UNCHANGED disk
       [] OTHER ->
            /\ Become(x, [e EXCEPT !.handled = FALSE, !.retries = retries,
                                   !.cooling = TRUE, !.wake = @ \/ waits],
                      [v EXCEPT !.flow = "none", !.resumed = FALSE,
                                !.timers = IF x \in Expecting THEN @ \union {"plain"} ELSE @])
            /\ Persist
  /\ TroubleIf(PendingDescendants(x) = {})
  /\ UNCHANGED <<child, used, expired, sweeping, history>>

\* A timer of resumeSubagentRun; the backoff is over when it fires.
RetryTimer(x, kind) ==
  LET v == [memory[x] EXCEPT !.timers = @ \ {kind},
                             !.resumed = IF kind = "clear" THEN FALSE ELSE @] IN
  /\ kind \in memory[x].timers
  /\ Known(x) => ~runs[x].cooling
  /\ Resume(x, runs[x], v)
  /\ UNCHANGED <<world, history>>

\* The time of earliestRetryAt has come.
BackoffOver(x) ==
  /\ Known(x) /\ runs[x].cooling
  /\ runs' = [runs EXCEPT ![x].cooling = FALSE]
  /\ disk' = IF disk[x] = NoRun THEN disk ELSE [disk EXCEPT ![x].cooling = FALSE]
  /\ UNCHANGED <<memory, world, history>>

\* The announce expiry of a run that ended and was not settled has come.
Expires(x) ==
  /\ Known(x) /\ runs[x].ended /\ ~runs[x].completed /\ x \notin expired
  /\ expired' = expired \union {x}
  /\ UNCHANGED <<registry, child, used, sessions, sweeping, troubles, history>>

-----------------------------------------------------------------------------
(* The end of a run *)

\* completeSubagentRun up to its await.  A completion that comes after a kill
\* lifts the kill marker.
Completing(e, reason) ==
  LET lift == reason = "complete" /\ e.suppress = "killed" IN
  [e EXCEPT !.ended = TRUE, !.reason = reason,
            !.suppress = IF lift THEN "none" ELSE @,
            !.handled = @ /\ ~lift, !.completed = @ /\ ~lift]

BeginCompletion(x, reason, v) ==
  /\ v.freezing < MaxCaptures
  /\ Become(x, Completing(runs[x], reason), [v EXCEPT !.grace = FALSE, !.freezing = @ + 1])

\* Mutant: a run that is being steered is announced like any other.
SuppressedNever(e) == FALSE
\* suppressAnnounceForSteerRestart.
Suppressed(e) == e.suppress = "steer-restart"

\* The result is captured: completeSubagentRun after its await.
EndCompletion(x) ==
  LET v == [memory[x] EXCEPT !.freezing = @ - 1]
      starts == Known(x) /\ ~Suppressed(runs[x]) /\ MayBegin(runs[x]) IN
  /\ memory[x].freezing > 0
  /\ IF starts
     THEN Become(x, [runs[x] EXCEPT !.handled = TRUE], [v EXCEPT !.flow = "announcing"])
     ELSE Become(x, runs[x], v)
  /\ Persist
  /\ UNCHANGED <<world, history>>

\* Lifecycle events: an error that may be transient, a start that cancels it,
\* the end.
LifecycleError(x) ==
  /\ child[x] = "running"
  /\ \E c \in {"running", "over"} : child' = [child EXCEPT ![x] = c]
  /\ memory' = IF Known(x) THEN [memory EXCEPT ![x].grace = TRUE] ELSE memory
  /\ Trouble
  /\ UNCHANGED <<runs, disk, used, sessions, expired, sweeping, history>>

LifecycleStart(x) ==
  /\ child[x] = "running" /\ memory[x].grace /\ Known(x)
  /\ memory' = [memory EXCEPT ![x].grace = FALSE]
  /\ disk' = runs
  /\ UNCHANGED <<runs, world, history>>

LifecycleEnd(x) ==
  /\ child[x] = "running"
  /\ child' = [child EXCEPT ![x] = "over"]
  /\ IF Known(x) THEN BeginCompletion(x, "complete", memory[x])
     ELSE UNCHANGED <<runs, memory>>
  /\ UNCHANGED <<disk, used, sessions, expired, sweeping, troubles, history>>

\* The grace period of an error is over.
GraceOver(x) ==
  /\ memory[x].grace
  /\ IF Known(x) /\ runs[x].reason # "complete"
     THEN BeginCompletion(x, "error", memory[x])
     ELSE Become(x, runs[x], [memory[x] EXCEPT !.grace = FALSE])
  /\ UNCHANGED <<disk, world, history>>

\* agent.wait answers ok or error when the run is over, timeout at any time,
\* and the call may fail.
WaitAnswers(x, reason) ==
  /\ memory[x].waiting
  /\ reason = "error" => child[x] = "over"
  /\ IF Known(x)
     THEN BeginCompletion(x, reason, [memory[x] EXCEPT !.waiting = FALSE])
     ELSE Become(x, runs[x], [memory[x] EXCEPT !.waiting = FALSE])
  /\ disk' = IF Known(x) /\ disk[x] # NoRun
             THEN [runs EXCEPT ![x].ended = TRUE] ELSE disk
  /\ TroubleIf(child[x] = "running")
  /\ UNCHANGED <<child, used, sessions, expired, sweeping, history>>

WaitFails(x) ==
  /\ memory[x].waiting
  /\ memory' = [memory EXCEPT ![x].waiting = FALSE]
  /\ Trouble
  /\ UNCHANGED <<runs, disk, child, used, sessions, expired, sweeping, history>>

-----------------------------------------------------------------------------
(* Operations *)

\* Runs get new ids; what they register is on disk at once.
Enter(x, others, mem) ==
  /\ runs' = [others EXCEPT ![x] = NewEntry]
  /\ memory' = [mem EXCEPT ![x] = [Nothing EXCEPT !.waiting = TRUE]]
  /\ Persist
  /\ used' = used \union {x}
  /\ child' = [child EXCEPT ![x] = "running"]

\* registerSubagentRun: the requester is the main session or a running child.
RegisterSubagentRun(x) ==
  /\ x \in Spawned \ used
  /\ \/ Requester[SessionOf[x]] \notin Sessions
     \/ \E y \in used : SessionOf[y] = Requester[SessionOf[x]] /\ child[y] = "running"
  /\ Enter(x, runs, memory)
  /\ sessions' = sessions \union {SessionOf[x]}
  /\ UNCHANGED <<expired, sweeping, troubles, history>>

\* replaceSubagentRunAfterSteer.
ReplaceSubagentRun(x, y, v) ==
  /\ y \in RunIds \ (used \union Spawned) /\ SessionOf[y] = SessionOf[x]
  /\ Enter(y, [runs EXCEPT ![x] = NoRun],
           [memory EXCEPT ![x] = [v EXCEPT !.grace = FALSE, !.resumed = FALSE]])
  /\ replaced' = replaced \union {x}

\* markSubagentRunForSteerRestart.
MarkForSteer(x) ==
  /\ Known(x) /\ ~runs[x].ended /\ ~memory[x].steering
  /\ Become(x, [runs[x] EXCEPT !.suppress = "steer-restart"],
            [memory[x] EXCEPT !.steering = TRUE])
  /\ Persist
  /\ Trouble
  /\ UNCHANGED <<child, used, sessions, expired, sweeping, history>>

\* Mutant: a run that ended meanwhile is not resumed.
ClearSteerOnly(x) ==
  LET v == [memory[x] EXCEPT !.steering = FALSE] IN
  /\ memory[x].steering
  /\ IF Known(x) /\ runs[x].suppress = "steer-restart"
     THEN Become(x, [runs[x] EXCEPT !.suppress = "none"], [v EXCEPT !.resumed = FALSE])
     ELSE Become(x, runs[x], v)
  /\ Persist
  /\ UNCHANGED <<world, history>>

\* The restart cannot be dispatched: clearSubagentRunSteerRestart.
SteerFails(x) ==
  LET v == [memory[x] EXCEPT !.steering = FALSE]
      e == [runs[x] EXCEPT !.suppress = "none"]
      next == IF e.ended /\ ~e.completed THEN Resumed(x, e, [v EXCEPT !.resumed = FALSE])
              ELSE [e |-> e, v |-> [v EXCEPT !.resumed = FALSE]] IN
  /\ memory[x].steering
  /\ IF Known(x) /\ runs[x].suppress = "steer-restart"
     THEN Become(x, next.e, next.v) /\ Persist
     ELSE Become(x, runs[x], v) /\ UNCHANGED disk
  /\ UNCHANGED <<world, history>>

SteerSucceeds(x, y) ==
  /\ memory[x].steering
  /\ ReplaceSubagentRun(x, y, [memory[x] EXCEPT !.steering = FALSE])
  /\ UNCHANGED <<sessions, expired, sweeping, troubles, announced, cut, killed>>

\* An announcement that was deferred for descendants wakes the child with
\* their results: a new run takes over.
WakeAfterDescendants(x, y) ==
  /\ memory[x].flow = "announcing"
  /\ Known(x) /\ runs[x].wake /\ x \in Spawned
  /\ PendingDescendants(x) = {} /\ SessionOf[x] \in sessions
  /\ ReplaceSubagentRun(x, y, [memory[x] EXCEPT !.flow = "none"])
  /\ UNCHANGED <<sessions, expired, sweeping, troubles, announced, cut, killed>>

\* markSubagentRunTerminated, for a run and all others of its session.
Kill(x) ==
  LET hit(y) == SessionOf[y] = SessionOf[x] /\ Known(y) /\ ~runs[y].ended IN
  /\ hit(x)
  /\ runs' = [y \in RunIds |->
               IF hit(y) THEN [runs[y] EXCEPT !.ended = TRUE, !.reason = "killed",
                                 !.handled = TRUE, !.completed = TRUE, !.suppress = "killed"]
               ELSE runs[y]]
  /\ memory' = [y \in RunIds |->
                 IF SessionOf[y] = SessionOf[x] THEN [memory[y] EXCEPT !.grace = FALSE]
                 ELSE memory[y]]
  /\ Persist
  /\ killed' = killed \union {y \in RunIds : hit(y)}
  /\ Trouble
  /\ UNCHANGED <<child, used, sessions, expired, sweeping, announced, replaced, cut>>

\* sweepSubagentRuns archives a run; the file is written when it is through.
Sweep(x) ==
  /\ Known(x)
  /\ Become(x, NoRun, [memory[x] EXCEPT !.grace = FALSE])
  /\ sessions' = sessions \ {SessionOf[x]}
  /\ sweeping' = TRUE
  /\ Trouble
  /\ UNCHANGED <<disk, child, used, expired, history>>

SweepDone ==
  /\ sweeping
  /\ sweeping' = FALSE
  /\ disk' = runs
  /\ UNCHANGED <<runs, memory, child, used, sessions, expired, troubles, history>>

\* The process dies, with the runs in it, and a new one restores the registry:
\* restoreSubagentRunsOnce.
CrashAndRestore ==
  LET back(x) == Resumed(x, disk[x], Nothing) IN
  /\ Trouble
  /\ child' = [x \in RunIds |-> IF child[x] = "running" THEN "dead" ELSE child[x]]
  /\ runs' = [x \in RunIds |-> back(x).e]
  /\ memory' = [x \in RunIds |-> back(x).v]
  /\ disk' = IF runs' = disk THEN disk ELSE runs'
  /\ sweeping' = FALSE
  /\ cut' = cut \union {x \in RunIds : /\ disk[x] # NoRun /\ ~disk[x].completed
                                       /\ disk[x].handled \/ Suppressed(disk[x])}
  /\ UNCHANGED <<used, sessions, expired, announced, replaced, killed>>

-----------------------------------------------------------------------------
EndOfFlow(x) ==
  \/ \E told \in BOOLEAN : AnnounceSucceeds(x, told)
  \/ AnnounceFails(x)
  \/ \E y \in RunIds : WakeAfterDescendants(x, y)

EndOfSteer(x) == SteerFails(x) \/ \E y \in RunIds : SteerSucceeds(x, y)

Next ==
  \/ \E x \in RunIds :
       \/ RegisterSubagentRun(x)
       \/ LifecycleError(x) \/ LifecycleStart(x) \/ LifecycleEnd(x)
       \/ GraceOver(x)
       \/ \E reason \in {"complete", "error"} : WaitAnswers(x, reason)
       \/ WaitFails(x)
       \/ EndCompletion(x)
       \/ EndOfFlow(x)
       \/ CompleteCleanup(x) \/ GiveUp(x)
       \/ \E kind \in {"plain", "clear"} : RetryTimer(x, kind)
       \/ BackoffOver(x) \/ Expires(x)
       \/ MarkForSteer(x) \/ EndOfSteer(x)
       \/ Kill(x) \/ Sweep(x)
  \/ SweepDone
  \/ CrashAndRestore

\* What this process has begun for a run it brings to an end.
Proceed(x) ==
  \/ EndCompletion(x)
  \/ EndOfFlow(x) \/ CompleteCleanup(x) \/ GiveUp(x)
  \/ BackoffOver(x) \/ \E kind \in {"plain", "clear"} : RetryTimer(x, kind)
  \/ EndOfSteer(x)

\* Calls return, timers fire and time passes; nobody need spawn, steer or kill.
Fairness == \A x \in RunIds : WF_vars(Proceed(x)) /\ WF_vars(Expires(x))

Spec == Init /\ [][Next]_vars /\ Fairness

-----------------------------------------------------------------------------
(* Properties *)

\* The requester is told of a run at most once: by whichever of the listener,
\* agent.wait, the grace timer, a retry, a restore after a crash or the end of
\* another run comes first, however they overlap.
AnnouncedAtMostOnce == \A x \in RunIds : announced[x] <= 1

\* A run that a steer or a wake has replaced was not and will not be announced,
\* unless it was killed while it was steered: an end that is reported after
\* the kill lifts all its marks.
ReplacedIsSilent == \A x \in replaced \ killed : announced[x] = 0

\* An entry whose cleanup is handled and open has an announcement under way in
\* this process, unless a crash has cut it.
HandledHasFlow ==
  /\ TypeOK
  /\ \A x \in RunIds \ cut :
       Known(x) /\ runs[x].handled /\ ~runs[x].completed => memory[x].flow # "none"

\* Announcements come bottom up: when a run is announced, every run that its
\* session has spawned was announced, given up, killed or archived.
DescendantsFirst ==
  [][\A x, y \in RunIds :
       announced'[x] > announced[x] /\ Requester[SessionOf[y]] = SessionOf[x] /\ Known(y)
         => runs[y].completed]_vars

\* A run that has ended and whose requester expects a message is settled:
\* announced, given up, replaced, killed or archived.  What a crash has cut
\* is skipped by the restored registry (subagent-registry.persistence.test.ts:239);
\* an end that was not on disk is forgotten.
EndedRunSettles ==
  \A x \in Expecting :
    (Known(x) /\ runs[x].ended)
      ~> (~(Known(x) /\ runs[x].ended) \/ runs[x].completed \/ x \in cut)
=============================================================================
