--------------------------- MODULE FollowupQueue ----------------------------
(***************************************************************************)
(* The followup queue of one session (src/src/auto-reply/reply/queue/).    *)
(*                                                                         *)
(* A message that arrives while the session's agent is busy is enqueued;   *)
(* a drain, an asynchronous loop, waits for quiet and hands the messages   *)
(* to followup runs, one by one or collected into one prompt.  The queue   *)
(* of the session is an object that a map holds; a drain keeps its object  *)
(* across its awaits, while the map's entry may be deleted and created     *)
(* anew by others.  A drain is started when a run of the agent ends and,   *)
(* through a cached callback, when a message is enqueued.                  *)
(***************************************************************************)
EXTENDS Integers, Sequences, FiniteSets

CONSTANTS
  Deliveries,   \* arrivals of messages at this session
  MessageOf,    \* delivery -> message: a redelivery has the same message id
  Target,       \* message -> where its reply goes; "cross" when not routable
  Settings,     \* queue settings that a message may come with
  Objects,      \* queue objects (slots, used again when nothing refers to them)
  None,         \* no queue object
  MaxFailures,  \* bound: followup runs that throw
  Races         \* which of the calls below may come at an awkward moment

Messages == {MessageOf[d] : d \in Deliveries}

\* "stale check": what isEmbeddedPiRunActive told a message no longer holds
\* when the message is enqueued, some awaits later.
\* "clear in flight": clearSessionQueues is called during a drain.
RaceNames == {"stale check", "clear in flight"}

ASSUME FollowupAssumption ==
  /\ IsFiniteSet(Deliveries) /\ DOMAIN MessageOf = Deliveries
  /\ DOMAIN Target = Messages
  /\ Settings \subseteq [mode : {"collect", "followup"}, cap : Nat \ {0},
                         dropPolicy : {"summarize", "old", "new"}]
  /\ None \notin Objects /\ Objects # {} /\ Settings # {}
  /\ MaxFailures \in Nat
  /\ Races \subseteq RaceNames

VARIABLES
  phase,     \* delivery -> where its handling is
  current,   \* FOLLOWUP_QUEUES.get(key), or None
  queues,    \* object -> its state
  drains,    \* object -> the drain that works on it
  callback,  \* FOLLOWUP_RUN_CALLBACKS has the key
  recent,    \* messages in RECENT_QUEUE_MESSAGE_IDS (within its TTL)
  failures,
  accepted,  \* history: the messages enqueued, in order
  handed,    \* history: message -> followup runs that succeeded with its prompt
  removed    \* history: messages taken out by the drop policy or by a clear

vars == <<phase, current, queues, drains, callback, recent, failures,
          accepted, handed, removed>>
history == <<accepted, handed, removed>>

\* The handling of a delivery: it found the agent active and is about to be
\* enqueued, or it runs the agent itself, which is active for a while.
Phases == {"none", "enqueueing", "running", "active", "ending", "done"}

Queue == [items : Seq(Messages), draining : BOOLEAN, settings : Settings,
          droppedCount : Nat, hasLastRun : BOOLEAN]
Drain == [at : {"stopped", "debounce", "run"}, kind : {"item", "collect", "summary"},
          batch : Seq(Messages), summary : BOOLEAN, force : BOOLEAN]

Fresh(s) == [items |-> <<>>, draining |-> FALSE, settings |-> s,
             droppedCount |-> 0, hasLastRun |-> FALSE]
Stopped == [at |-> "stopped", kind |-> "item", batch |-> <<>>,
            summary |-> FALSE, force |-> FALSE]

TypeOK ==
  /\ phase \in [Deliveries -> Phases]
  /\ current \in Objects \union {None}
  /\ queues \in [Objects -> Queue]
  /\ drains \in [Objects -> Drain]
  /\ callback \in BOOLEAN
  /\ recent \in SUBSET Messages
  /\ failures \in 0..MaxFailures
  /\ accepted \in Seq(Messages)
  /\ handed \in [Messages -> Nat]
  /\ removed \in SUBSET Messages

Init ==
  /\ phase = [d \in Deliveries |-> "none"]
  /\ current = None
  /\ queues = [o \in Objects |-> Fresh(CHOOSE s \in Settings : TRUE)]
  /\ drains = [o \in Objects |-> Stopped]
  /\ callback = FALSE
  /\ recent = {}
  /\ failures = 0
  /\ accepted = <<>>
  /\ handed = [m \in Messages |-> 0]
  /\ removed = {}

Members(s) == {s[i] : i \in DOMAIN s}
From(s, n) == SubSeq(s, n + 1, Len(s))

Pending(q) == q.items # <<>> \/ q.droppedCount > 0

\* hasCrossChannelItems
Mixed(items) ==
  LET targets == {Target[m] : m \in Members(items)}
  IN "cross" \in targets \/ Cardinality(targets) > 1

\* previewQueueSummaryPrompt gives a prompt.
HasSummary(q) == q.settings.dropPolicy = "summarize" /\ q.droppedCount > 0

-----------------------------------------------------------------------------
(* Starting and ending a drain *)

\* scheduleFollowupDrain up to its first await, with the queue object `key` in
\* the map.  A drain of an empty queue ends at once and deletes the entry.
ScheduleDrain(key, objects, coroutines) ==
  IF IF key = None THEN TRUE ELSE objects[key].draining
    THEN /\ current' = key /\ queues' = objects /\ drains' = coroutines
         /\ UNCHANGED callback
    ELSE /\ callback' = TRUE
         /\ IF Pending(objects[key])
              THEN /\ current' = key
                   /\ queues' = [objects EXCEPT ![key].draining = TRUE]
                   /\ drains' = [coroutines EXCEPT ![key] = [Stopped EXCEPT !.at = "debounce"]]
              ELSE current' = None /\ queues' = objects /\ drains' = coroutines

\* Mutant: a drain that ends does not look for messages that are left.
EndDrainForGood(o, q) ==
  /\ queues' = [queues EXCEPT ![o] = [q EXCEPT !.draining = FALSE]]
  /\ drains' = [drains EXCEPT ![o] = Stopped]
  /\ current' = IF Pending(q) THEN current ELSE None
  /\ UNCHANGED callback

\* The finally block of the drain of o: it deletes the map's entry, whichever
\* object that is, or starts a drain of it.
EndDrain(o, q) ==
  LET objects == [queues EXCEPT ![o] = [q EXCEPT !.draining = FALSE]]
      coroutines == [drains EXCEPT ![o] = Stopped]
  IN IF Pending(q)
       THEN ScheduleDrain(current, objects, coroutines)
       ELSE /\ current' = None /\ queues' = objects /\ drains' = coroutines
            /\ UNCHANGED callback

\* The condition of the loop, with q the object's state after an iteration.
NextIteration(o, q) ==
  IF Pending(q)
    THEN /\ queues' = [queues EXCEPT ![o] = q]
         /\ drains' = [drains EXCEPT ![o] = [Stopped EXCEPT !.at = "debounce",
                                                            !.force = drains[o].force]]
         /\ UNCHANGED <<current, callback>>
    ELSE EndDrain(o, q)

-----------------------------------------------------------------------------
(* Arrivals *)

AgentActive ==
  \/ \E d \in Deliveries : phase[d] = "active"
  \/ \E o \in Objects : drains[o].at = "run"

\* A message finds the agent of its session active.  With "stale check" the
\* agent may end before the message is enqueued.
FindsAgentActive(d) ==
  /\ phase[d] = "none"
  /\ AgentActive
  /\ phase' = [phase EXCEPT ![d] = "enqueueing"]
  /\ UNCHANGED <<current, queues, drains, callback, recent, failures, history>>

\* It finds no active run (a followup run is not active at its very beginning
\* and end) and starts one of its own.
RunsAgent(d) ==
  /\ phase[d] = "none"
  /\ \A e \in Deliveries : phase[e] # "active"
  /\ phase' = [phase EXCEPT ![d] = "running"]
  /\ UNCHANGED <<current, queues, drains, callback, recent, failures, history>>

RunBecomesActive(d) ==
  /\ phase[d] = "running"
  /\ phase' = [phase EXCEPT ![d] = "active"]
  /\ UNCHANGED <<current, queues, drains, callback, recent, failures, history>>

\* It is not active any more, or failed before it was; its reply is under way.
RunEnds(d) ==
  /\ phase[d] \in {"running", "active"}
  /\ phase' = [phase EXCEPT ![d] = "ending"]
  /\ UNCHANGED <<current, queues, drains, callback, recent, failures, history>>

FinalizeWithFollowup(d) ==
  /\ phase[d] = "ending"
  /\ phase' = [phase EXCEPT ![d] = "done"]
  /\ ScheduleDrain(current, queues, drains)
  /\ UNCHANGED <<recent, failures, history>>

\* getFollowupQueue: the object of the key, a new one if the map has none,
\* with the settings that came with the message.
GetQueue(key, s) ==
  IF current = key THEN [queues[key] EXCEPT !.settings = s] ELSE Fresh(s)

\* A slot nothing refers to: not the map and not a drain.
FreeSlot(o) == o # current /\ drains[o].at = "stopped"
Slot == IF current # None THEN current ELSE CHOOSE o \in Objects : FreeSlot(o)

\* The message is known by its id: it is in the queue or was not long ago.
\* Mutant: only the queue is searched.
SeenInQueue(q, m) == m \in Members(q.items)
Seen(q, m) == m \in recent \/ m \in Members(q.items)

\* Mutant: the message is put in front.
PushItemInFront(q, m) == [q EXCEPT !.items = <<m>> \o @, !.hasLastRun = TRUE]

\* applyQueueDropPolicy and the push of m
PushItem(q, m) ==
  LET excess == IF Len(q.items) < q.settings.cap THEN 0
                                                 ELSE Len(q.items) - q.settings.cap + 1
  IN [q EXCEPT !.items = Append(From(@, excess), m),
               !.droppedCount = IF q.settings.dropPolicy = "summarize"
                                  THEN @ + excess ELSE @,
               !.hasLastRun = TRUE]

Rejected(q) == q.settings.dropPolicy = "new" /\ Len(q.items) >= q.settings.cap

\* enqueueFollowupRun
EnqueueFollowupRun(d, s) ==
  LET m == MessageOf[d]
      o == Slot
      q == GetQueue(o, s)
      filled == PushItem(q, m)
  IN /\ phase[d] = "enqueueing"
     /\ "stale check" \in Races \/ AgentActive
     /\ phase' = [phase EXCEPT ![d] = "done"]
     /\ IF Seen(q, m)
          THEN /\ current' = o
               /\ queues' = [queues EXCEPT ![o] = q]
               /\ UNCHANGED <<drains, callback, recent, history>>
        ELSE IF Rejected(q)
          THEN /\ current' = o
               /\ queues' = [queues EXCEPT ![o] = [q EXCEPT !.hasLastRun = TRUE]]
               /\ UNCHANGED <<drains, callback, recent, history>>
        ELSE /\ recent' = recent \union {m}
             /\ accepted' = Append(accepted, m)
             /\ removed' = removed \union (Members(q.items) \ Members(filled.items))
             /\ UNCHANGED handed
             /\ IF callback
                  THEN ScheduleDrain(o, [queues EXCEPT ![o] = filled], drains)
                  ELSE /\ current' = o
                       /\ queues' = [queues EXCEPT ![o] = filled]
                       /\ UNCHANGED <<drains, callback>>
     /\ UNCHANGED failures

-----------------------------------------------------------------------------
(* The drain of an object *)

\* Mutant: the drain takes the entry out of the map with the items.
StartRunAndDelete(o, kind, batch, force) ==
  /\ drains' = [drains EXCEPT ![o] = [at |-> "run", kind |-> kind, batch |-> batch,
                                      summary |-> HasSummary(queues[o]), force |-> force]]
  /\ current' = None
  /\ UNCHANGED <<queues, callback>>

\* A followup run is started and awaited.
StartRun(o, kind, batch, force) ==
  /\ drains' = [drains EXCEPT ![o] = [at |-> "run", kind |-> kind, batch |-> batch,
                                      summary |-> HasSummary(queues[o]), force |-> force]]
  /\ UNCHANGED <<current, queues, callback>>

CollectStep(o) ==
  LET q == queues[o]
      mixed == Mixed(q.items)
  IN IF drains[o].force \/ mixed
       THEN IF q.items = <<>> THEN EndDrain(o, q)
                              ELSE StartRun(o, "item", <<Head(q.items)>>, TRUE)
       ELSE IF q.items = <<>> /\ ~q.hasLastRun
              THEN EndDrain(o, q)
              ELSE StartRun(o, "collect", q.items, FALSE)

FollowupStep(o) ==
  LET q == queues[o]
  IN IF q.items = <<>> \/ (HasSummary(q) /\ ~q.hasLastRun)
       THEN EndDrain(o, q)
       ELSE StartRun(o, IF HasSummary(q) THEN "summary" ELSE "item",
                     <<Head(q.items)>>, drains[o].force)

\* The debounce is over; the mode of now decides.
DrainStep(o) ==
  /\ drains[o].at = "debounce"
  /\ IF queues[o].settings.mode = "collect" THEN CollectStep(o) ELSE FollowupStep(o)
  /\ UNCHANGED <<phase, recent, failures, history>>

\* The run of o's drain succeeds: as many items as were handed over are taken
\* off the queue of now, and the summary is forgotten if it was part of it.
RunSucceeds(o) ==
  LET r == drains[o]
      q == [queues[o] EXCEPT !.items = From(@, Len(r.batch)),
                             !.droppedCount = IF r.summary /\ r.kind # "item" THEN 0 ELSE @]
  IN /\ r.at = "run"
     /\ NextIteration(o, q)
     /\ handed' = [m \in Messages |->
                    IF r.kind # "summary" /\ m \in Members(r.batch)
                      THEN handed[m] + 1 ELSE handed[m]]
     /\ UNCHANGED <<phase, recent, failures, accepted, removed>>

\* Mutant: the items were taken off before the run.
RunFailsAfterShift(o) ==
  /\ drains[o].at = "run"
  /\ failures < MaxFailures
  /\ failures' = failures + 1
  /\ EndDrain(o, [queues[o] EXCEPT !.items = From(@, Len(drains[o].batch))])
  /\ UNCHANGED <<phase, recent, history>>

\* The run throws: the drain ends, and starts again if something is left.
RunFails(o) ==
  /\ drains[o].at = "run"
  /\ failures < MaxFailures
  /\ failures' = failures + 1
  /\ EndDrain(o, queues[o])
  /\ UNCHANGED <<phase, recent, history>>

-----------------------------------------------------------------------------

\* clearSessionQueues: the session is reset or its work is stopped.  A slot
\* must be left for the next queue of the session.
ClearSessionQueues ==
  /\ current # None \/ callback
  /\ \E o \in Objects : drains[o].at = "stopped"
  /\ "clear in flight" \in Races \/ \A o \in Objects : drains[o].at = "stopped"
  /\ callback' = FALSE
  /\ current' = None
  /\ IF current = None
       THEN UNCHANGED <<queues, removed>>
       ELSE /\ queues' = [queues EXCEPT ![current] =
                           [@ EXCEPT !.items = <<>>, !.droppedCount = 0, !.hasLastRun = FALSE]]
            /\ removed' = removed \union Members(queues[current].items)
  /\ UNCHANGED <<phase, drains, recent, failures, accepted, handed>>

Next ==
  \/ \E d \in Deliveries :
       \/ FindsAgentActive(d) \/ RunsAgent(d) \/ RunBecomesActive(d) \/ RunEnds(d)
       \/ FinalizeWithFollowup(d)
       \/ \E s \in Settings : EnqueueFollowupRun(d, s)
  \/ \E o \in Objects : DrainStep(o) \/ RunSucceeds(o) \/ RunFails(o)
  \/ ClearSessionQueues

Spec == Init /\ [][Next]_vars

\* Timers fire, and a run of the agent has a timeout: it settles.
Fairness ==
  /\ \A o \in Objects : WF_vars(DrainStep(o)) /\ WF_vars(RunSucceeds(o) \/ RunFails(o))
  /\ \A d \in Deliveries :
       WF_vars(RunBecomesActive(d) \/ RunEnds(d)) /\ WF_vars(FinalizeWithFollowup(d))

FairSpec == Spec /\ Fairness

-----------------------------------------------------------------------------
(* Properties *)

\* The prompt of a message is part of at most one followup run that succeeds,
\* whatever is redelivered, retried, dropped or cleared.
FollowupAtMostOnce == \A m \in Messages : handed[m] <= 1

\* reply-flow.test.ts:1382, "does not double-drain": two drains never work for
\* the session at the same time.
NoDoubleDrain ==
  /\ TypeOK
  /\ \A o, p \in Objects : drains[o].at # "stopped" /\ drains[p].at # "stopped" => o = p

Waiting == IF current = None THEN <<>> ELSE queues[current].items

\* A message that was enqueued has reached a followup run, has been taken out
\* by the drop policy or a clear, or is in the queue that the session has now.
NothingLost ==
  \A m \in Members(accepted) : handed[m] > 0 \/ m \in removed \/ m \in Members(Waiting)

\* Without overflow and without the awkward calls of Races, the queue is a
\* first-in first-out service.
Service == INSTANCE FollowupService WITH waiting <- Waiting,
             done <- {m \in Messages : handed[m] > 0}
ImplementsService == Service!Spec

\* Every enqueued message reaches a followup run or is taken out on purpose.
AcceptedAreHanded ==
  \A m \in Messages : m \in Members(accepted) ~> (handed[m] > 0 \/ m \in removed)

=============================================================================
