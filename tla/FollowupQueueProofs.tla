------------------------ MODULE FollowupQueueProofs -------------------------
(***************************************************************************)
(* Proofs about FollowupQueue, for any number of arrivals, any targets and *)
(* settings, and any number of queue objects.                              *)
(***************************************************************************)
EXTENDS FollowupQueue, FiniteSetTheorems, SequenceTheorems, TLAPS

-----------------------------------------------------------------------------
(* Sequences *)

\* What is left of a queue from which n items have been taken.
LEMMA FromLemma ==
  ASSUME NEW S, NEW s \in Seq(S), NEW n \in Nat
  PROVE  /\ From(s, n) \in Seq(S)
         /\ Len(From(s, n)) = IF n <= Len(s) THEN Len(s) - n ELSE 0
         /\ \A i \in 1..Len(From(s, n)) : n + i \in 1..Len(s) /\ From(s, n)[i] = s[n + i]
<1>1. Len(s) \in Nat
  BY LenProperties
<1>2. CASE n < Len(s)
  <2>1. n + 1 \in 1..Len(s) + 1 /\ Len(s) \in n..Len(s)
    BY <1>1, <1>2
  <2>2. From(s, n) \in Seq(S) /\ Len(From(s, n)) = Len(s) - n
    BY <1>1, <1>2, SubSeqProperties DEF From
  <2>3. \A i \in 1..Len(s) - n : From(s, n)[i] = s[n + i]
    BY <1>1, <1>2, SubSeqProperties DEF From
  <2> QED
    BY <1>1, <1>2, <2>2, <2>3
<1>3. CASE n >= Len(s)
  <2>1. From(s, n) = << >>
    BY <1>1, <1>3, SubSeqProperties DEF From
  <2> QED
    BY <1>1, <1>3, <2>1
<1> QED
  BY <1>1, <1>2, <1>3

\* Taking nothing, and taking everything.
LEMMA FromEnds ==
  ASSUME NEW S, NEW s \in Seq(S)
  PROVE  From(s, 0) = s /\ From(s, Len(s)) = << >>
<1>1. Len(s) \in Nat
  BY LenProperties
<1>2. From(s, 0) = s
  <2>1. From(s, 0) \in Seq(S) /\ Len(From(s, 0)) = Len(s)
    BY <1>1, FromLemma
  <2>2. \A i \in 1..Len(s) : From(s, 0)[i] = s[i]
    BY <1>1, <2>1, FromLemma
  <2> QED
    BY <2>1, <2>2, SeqEqual
<1>3. From(s, Len(s)) = << >>
  <2>1. From(s, Len(s)) \in Seq(S) /\ Len(From(s, Len(s))) = 0
    BY <1>1, FromLemma
  <2> QED
    BY <2>1, EmptySeq
<1> QED
  BY <1>2, <1>3

\* The members of a queue.
LEMMA MembersOfSeq ==
  ASSUME NEW S, NEW s \in Seq(S)
  PROVE  Members(s) = {s[i] : i \in 1..Len(s)} /\ Members(s) \subseteq S
<1>1. DOMAIN s = 1..Len(s)
  BY LenProperties
<1> QED
  BY <1>1, ElementOfSeq DEF Members

\* The empty queue, and a queue of one.
LEMMA MembersOfEnds ==
  ASSUME NEW S, NEW m \in S
  PROVE  Members(<< >>) = {} /\ Members(<<m>>) = {m} /\ <<m>> \in Seq(S) /\ Len(<<m>>) = 1
BY DEF Members

\* One more item at the end.
LEMMA AppendLemma ==
  ASSUME NEW S, NEW s \in Seq(S), NEW m \in S
  PROVE  /\ Append(s, m) \in Seq(S) /\ Len(Append(s, m)) = Len(s) + 1
         /\ \A i \in 1..Len(s) : Append(s, m)[i] = s[i]
         /\ Append(s, m)[Len(s) + 1] = m
         /\ Members(Append(s, m)) = Members(s) \union {m}
<1>1. /\ Append(s, m) \in Seq(S) /\ Len(Append(s, m)) = Len(s) + 1
      /\ \A i \in 1..Len(s) : Append(s, m)[i] = s[i]
      /\ Append(s, m)[Len(s) + 1] = m
  BY AppendProperties
<1>2. Len(s) \in Nat
  BY LenProperties
<1>3. Members(Append(s, m)) = Members(s) \union {m}
  <2>1. Members(s) = {s[i] : i \in 1..Len(s)}
    BY MembersOfSeq
  <2>2. Members(Append(s, m)) = {Append(s, m)[i] : i \in 1..Len(s) + 1}
    BY <1>1, MembersOfSeq
  <2>3. \A i \in 1..Len(s) + 1 : i \in 1..Len(s) \/ i = Len(s) + 1
    BY <1>2
  <2>4. 1..Len(s) \subseteq 1..Len(s) + 1 /\ Len(s) + 1 \in 1..Len(s) + 1
    BY <1>2
  <2> QED
    BY <1>1, <2>1, <2>2, <2>3, <2>4
<1> QED
  BY <1>1, <1>3

-----------------------------------------------------------------------------
(* Types *)

\* The flag of a queue object says whether a drain works on it.
Flags == \A o \in Objects : queues[o].draining <=> drains[o].at # "stopped"

\* The session can always be given another queue object.
SlotLeft == current = None => \E o \in Objects : drains[o].at = "stopped"

Shape == TypeOK /\ Flags /\ SlotLeft

\* An object that goes to the map or to a drain.
LEMMA QueueParts ==
  ASSUME NEW q \in Queue
  PROVE  /\ q.items \in Seq(Messages) /\ q.draining \in BOOLEAN /\ q.settings \in Settings
         /\ q.droppedCount \in Nat /\ q.hasLastRun \in BOOLEAN
         /\ \A b \in BOOLEAN : /\ [q EXCEPT !.draining = b] \in Queue
                               /\ [q EXCEPT !.draining = b].draining = b
                               /\ [q EXCEPT !.draining = b].items = q.items
                               /\ [q EXCEPT !.draining = b].droppedCount = q.droppedCount
BY DEF Queue

\* A new queue object.
LEMMA FreshType ==
  ASSUME NEW s \in Settings
  PROVE  /\ Fresh(s) \in Queue /\ Fresh(s).items = << >> /\ ~Fresh(s).draining
         /\ Fresh(s).droppedCount = 0
BY EmptySeq DEF Fresh, Queue

\* A drain that does not work, and one that waits for quiet.
LEMMA StoppedType ==
  /\ Stopped \in Drain /\ Stopped.at = "stopped"
  /\ \A b \in BOOLEAN : /\ [Stopped EXCEPT !.at = "debounce", !.force = b] \in Drain
                        /\ [Stopped EXCEPT !.at = "debounce", !.force = b].at = "debounce"
  /\ [Stopped EXCEPT !.at = "debounce"] \in Drain
  /\ [Stopped EXCEPT !.at = "debounce"].at = "debounce"
BY EmptySeq DEF Stopped, Drain

\* The same of objects and drains that are about to be the session's.
Agree(objects, coroutines) ==
  \A o \in Objects : objects[o].draining <=> coroutines[o].at # "stopped"
LeavesSlot(key, coroutines) ==
  key = None => \E o \in Objects : coroutines[o].at = "stopped"

\* What scheduleFollowupDrain does to the objects it is given: it may mark the
\* one of the key and start its drain, or take an empty one from the map.
LEMMA ScheduleLemma ==
  ASSUME NEW key \in Objects \union {None}, NEW objects \in [Objects -> Queue],
         NEW coroutines \in [Objects -> Drain], callback \in BOOLEAN,
         Agree(objects, coroutines), LeavesSlot(key, coroutines),
         ScheduleDrain(key, objects, coroutines)
  PROVE  /\ current' \in {key, None} /\ queues' \in [Objects -> Queue]
         /\ drains' \in [Objects -> Drain] /\ callback' \in BOOLEAN
         /\ Flags' /\ SlotLeft'
         /\ \A o \in Objects : /\ queues'[o].items = objects[o].items
                               /\ queues'[o].droppedCount = objects[o].droppedCount
         /\ \A o \in Objects : \/ drains'[o] = coroutines[o]
                               \/ o = key /\ current' = key /\ drains'[o].at = "debounce"
         /\ current' # key => ~Pending(objects[key]) /\ coroutines[key].at = "stopped"
<1> DEFINE d0 == [Stopped EXCEPT !.at = "debounce"]
<1>0. d0 \in Drain /\ d0.at = "debounce"
  BY StoppedType
<1> HIDE DEF d0
<1>1. CASE key = None
  BY <1>1 DEF ScheduleDrain, Agree, LeavesSlot, Flags, SlotLeft
<1>2. CASE key # None /\ objects[key].draining
  <2>1. key # None /\ current' = key /\ queues' = objects /\ drains' = coroutines /\ callback' = callback
    BY <1>2 DEF ScheduleDrain
  <2> QED
    BY <2>1 DEF Agree, LeavesSlot, Flags, SlotLeft
<1>3. CASE key # None /\ ~objects[key].draining /\ Pending(objects[key])
  <2>1. /\ callback' = TRUE /\ current' = key
        /\ queues' = [objects EXCEPT ![key] = [objects[key] EXCEPT !.draining = TRUE]]
        /\ drains' = [coroutines EXCEPT ![key] = d0]
    BY <1>3 DEF ScheduleDrain, d0
  <2>2. key \in Objects
    BY <1>3
  <2>3. /\ [objects[key] EXCEPT !.draining = TRUE] \in Queue
        /\ [objects[key] EXCEPT !.draining = TRUE].draining = TRUE
        /\ [objects[key] EXCEPT !.draining = TRUE].items = objects[key].items
        /\ [objects[key] EXCEPT !.draining = TRUE].droppedCount = objects[key].droppedCount
    BY <2>2, QueueParts
  <2> DEFINE q == [objects[key] EXCEPT !.draining = TRUE]
  <2> HIDE DEF q
  <2>4. /\ queues' = [objects EXCEPT ![key] = q] /\ q \in Queue /\ q.draining = TRUE
        /\ q.items = objects[key].items /\ q.droppedCount = objects[key].droppedCount
    BY <2>1, <2>3 DEF q
  <2> QED
    BY <1>0, <1>3, <2>1, <2>2, <2>4 DEF Agree, LeavesSlot, Flags, SlotLeft
<1>4. CASE key # None /\ ~objects[key].draining /\ ~Pending(objects[key])
  <2>1. callback' = TRUE /\ current' = None /\ queues' = objects /\ drains' = coroutines
    BY <1>4 DEF ScheduleDrain
  <2>2. key \in Objects /\ coroutines[key].at = "stopped"
    BY <1>4 DEF Agree
  <2> QED
    BY <1>4, <2>1, <2>2 DEF Agree, LeavesSlot, Flags, SlotLeft
<1> QED
  BY <1>1, <1>2, <1>3, <1>4

\* What the end of a drain leaves, with q the last state of its object.
LEMMA EndLemma ==
  ASSUME Shape, NEW o \in Objects, NEW q \in Queue, EndDrain(o, q)
  PROVE  /\ current' \in {current, None} /\ queues' \in [Objects -> Queue]
         /\ drains' \in [Objects -> Drain] /\ callback' \in BOOLEAN
         /\ Flags' /\ SlotLeft'
         /\ \A p \in Objects :
              /\ queues'[p].items = IF p = o THEN q.items ELSE queues[p].items
              /\ queues'[p].droppedCount = IF p = o THEN q.droppedCount ELSE queues[p].droppedCount
         /\ \A p \in Objects : \/ p # o /\ drains'[p] = drains[p]
                               \/ p = o /\ drains'[p] = Stopped
                               \/ p = current /\ current' = current /\ drains'[p].at = "debounce"
         /\ current' # current /\ current = o => ~Pending(q)
         /\ current' # current => \/ ~Pending(q)
                                  \/ ~Pending(IF current = o THEN q ELSE queues[current])
<1> DEFINE objects == [queues EXCEPT ![o] = [q EXCEPT !.draining = FALSE]]
           coroutines == [drains EXCEPT ![o] = Stopped]
<1>1. /\ queues \in [Objects -> Queue] /\ drains \in [Objects -> Drain] /\ callback \in BOOLEAN
      /\ current \in Objects \union {None}
  BY DEF Shape, TypeOK
<1>2. /\ [q EXCEPT !.draining = FALSE] \in Queue /\ [q EXCEPT !.draining = FALSE].draining = FALSE
      /\ [q EXCEPT !.draining = FALSE].items = q.items
      /\ [q EXCEPT !.draining = FALSE].droppedCount = q.droppedCount
  BY QueueParts
<1>3. objects \in [Objects -> Queue] /\ coroutines \in [Objects -> Drain]
  BY <1>1, <1>2, StoppedType
<1>4. Agree(objects, coroutines)
  BY <1>1, <1>2, StoppedType DEF Shape, Flags, Agree
<1>5. coroutines[o].at = "stopped"
  BY <1>1, StoppedType
<1>6. \A p \in Objects :
        /\ objects[p].items = IF p = o THEN q.items ELSE queues[p].items
        /\ objects[p].droppedCount = IF p = o THEN q.droppedCount ELSE queues[p].droppedCount
        /\ coroutines[p] = IF p = o THEN Stopped ELSE drains[p]
  BY <1>1, <1>2
<1>7. CASE Pending(q)
  <2>1. ScheduleDrain(current, objects, coroutines)
    BY <1>7 DEF EndDrain
  <2>2. current \in Objects => Pending(objects[current]) =
                                  Pending(IF current = o THEN q ELSE queues[current])
    BY <1>6 DEF Pending
  <2> HIDE DEF objects, coroutines
  <2>3. /\ current' \in {current, None} /\ queues' \in [Objects -> Queue]
        /\ drains' \in [Objects -> Drain] /\ callback' \in BOOLEAN
        /\ Flags' /\ SlotLeft'
        /\ \A p \in Objects : /\ queues'[p].items = objects[p].items
                              /\ queues'[p].droppedCount = objects[p].droppedCount
        /\ \A p \in Objects : \/ drains'[p] = coroutines[p]
                              \/ p = current /\ current' = current /\ drains'[p].at = "debounce"
        /\ current' # current => ~Pending(objects[current])
    <3>1. LeavesSlot(current, coroutines)
      BY <1>5 DEF LeavesSlot
    <3>2. /\ current \in Objects \union {None} /\ callback \in BOOLEAN
          /\ objects \in [Objects -> Queue] /\ coroutines \in [Objects -> Drain]
      BY <1>1, <1>3
    <3>3. current' # current => ~Pending(objects[current]) /\ coroutines[current].at = "stopped"
      BY <1>4, <2>1, <3>1, <3>2, ScheduleLemma
    <3> QED
      BY <1>4, <2>1, <3>1, <3>2, <3>3, ScheduleLemma
  <2> QED
    BY <1>1, <1>6, <1>7, <2>2, <2>3
<1>8. CASE ~Pending(q)
  <2>1. current' = None /\ queues' = objects /\ drains' = coroutines /\ callback' = callback
    BY <1>8 DEF EndDrain
  <2> HIDE DEF objects, coroutines
  <2>2. Flags' /\ SlotLeft'
    BY <1>4, <1>5, <2>1 DEF Agree, Flags, SlotLeft
  <2> QED
    BY <1>1, <1>3, <1>6, <1>8, <2>1, <2>2
<1> QED
  BY <1>7, <1>8

\* The object a message is put into: that of the map, or a free one.
LEMMA SlotLemma ==
  ASSUME Shape
  PROVE  /\ Slot \in Objects /\ (current # None => Slot = current)
         /\ current = None => drains[Slot].at = "stopped"
<1>1. CASE current # None
  BY <1>1 DEF Slot, Shape, TypeOK
<1>2. CASE current = None
  <2>1. \E o \in Objects : FreeSlot(o)
    BY <1>2, FollowupAssumption DEF Shape, SlotLeft, FreeSlot, FollowupAssumption
  <2>2. Slot \in Objects /\ FreeSlot(Slot)
    BY <1>2, <2>1 DEF Slot
  <2> QED
    BY <1>2, <2>2 DEF FreeSlot
<1> QED
  BY <1>1, <1>2

\* Its state when a message with settings s comes.
LEMMA GetQueueLemma ==
  ASSUME Shape, NEW s \in Settings
  PROVE  /\ GetQueue(Slot, s) \in Queue
         /\ GetQueue(Slot, s).items = Waiting
         /\ GetQueue(Slot, s).draining <=> drains[Slot].at # "stopped"
         /\ GetQueue(Slot, s).droppedCount = IF current = None THEN 0 ELSE queues[current].droppedCount
         /\ GetQueue(Slot, s).settings = s
<1>1. CASE current = None
  <2>1. GetQueue(Slot, s) = Fresh(s)
    BY <1>1, SlotLemma, FollowupAssumption DEF GetQueue, FollowupAssumption
  <2>2. Fresh(s).settings = s
    BY DEF Fresh
  <2> QED
    BY <1>1, <2>1, <2>2, FreshType, SlotLemma DEF Waiting
<1>2. CASE current # None
  <2>1. Slot = current /\ current \in Objects /\ queues[current] \in Queue
    BY <1>2, SlotLemma DEF Shape, TypeOK
  <2>2. GetQueue(Slot, s) = [queues[current] EXCEPT !.settings = s]
    BY <2>1 DEF GetQueue
  <2>3. \A q \in Queue : /\ [q EXCEPT !.settings = s] \in Queue
                         /\ [q EXCEPT !.settings = s].items = q.items
                         /\ [q EXCEPT !.settings = s].draining = q.draining
                         /\ [q EXCEPT !.settings = s].droppedCount = q.droppedCount
                         /\ [q EXCEPT !.settings = s].settings = s
    BY DEF Queue
  <2> QED
    BY <1>2, <2>1, <2>2, <2>3 DEF Waiting, Shape, Flags
<1> QED
  BY <1>1, <1>2

\* A message is put behind what the drop policy leaves.
LEMMA PushLemma ==
  ASSUME NEW q \in Queue, NEW m \in Messages
  PROVE  /\ PushItem(q, m) \in Queue
         /\ PushItem(q, m).draining = q.draining
         /\ \E n \in Nat :
              /\ PushItem(q, m).items = Append(From(q.items, n), m)
              /\ Len(q.items) < q.settings.cap =>
                   n = 0 /\ PushItem(q, m).droppedCount = q.droppedCount
<1> DEFINE excess == IF Len(q.items) < q.settings.cap THEN 0
                                                      ELSE Len(q.items) - q.settings.cap + 1
           dropped == IF q.settings.dropPolicy = "summarize" THEN q.droppedCount + excess
                                                             ELSE q.droppedCount
           items == Append(From(q.items, excess), m)
<1>1. /\ q.items \in Seq(Messages) /\ q.draining \in BOOLEAN /\ q.settings \in Settings
      /\ q.droppedCount \in Nat
  BY QueueParts
<1>2. Len(q.items) \in Nat /\ q.settings.cap \in Nat
  BY <1>1, LenProperties, FollowupAssumption DEF FollowupAssumption
<1>3. excess \in Nat
  BY <1>2
<1>4. dropped \in Nat
  BY <1>1, <1>3
<1>5. items \in Seq(Messages)
  <2> HIDE DEF excess
  <2>1. From(q.items, excess) \in Seq(Messages)
    BY <1>1, <1>3, FromLemma
  <2> QED
    BY <2>1, AppendProperties
<1>6. PushItem(q, m) = [q EXCEPT !.items = items, !.droppedCount = dropped, !.hasLastRun = TRUE]
  BY <1>1 DEF PushItem, Queue
<1>7. Len(q.items) < q.settings.cap => excess = 0 /\ dropped = q.droppedCount
  BY <1>1
<1>8. items = Append(From(q.items, excess), m)
  OBVIOUS
<1> HIDE DEF excess, dropped, items
<1>9. /\ PushItem(q, m) \in Queue /\ PushItem(q, m).draining = q.draining
      /\ PushItem(q, m).items = items /\ PushItem(q, m).droppedCount = dropped
  BY <1>4, <1>5, <1>6 DEF Queue
<1> QED
  BY <1>3, <1>7, <1>8, <1>9

\* A followup run that is started takes the place of the wait for quiet.
LEMMA StartRunLemma ==
  ASSUME Shape, NEW o \in Objects, drains[o].at = "debounce",
         NEW kind \in {"item", "collect", "summary"}, NEW batch \in Seq(Messages),
         NEW force \in BOOLEAN, StartRun(o, kind, batch, force)
  PROVE  /\ UNCHANGED <<current, queues, callback>>
         /\ drains' \in [Objects -> Drain] /\ Flags' /\ SlotLeft'
         /\ \A p \in Objects : p # o => drains'[p] = drains[p]
         /\ drains'[o].at = "run" /\ drains'[o].kind = kind /\ drains'[o].batch = batch
         /\ drains'[o].summary = HasSummary(queues[o])
<1> DEFINE r == [at |-> "run", kind |-> kind, batch |-> batch,
                 summary |-> HasSummary(queues[o]), force |-> force]
<1>1. r \in Drain /\ r.at = "run" /\ r.kind = kind /\ r.batch = batch
      /\ r.summary = HasSummary(queues[o])
  BY DEF Drain, HasSummary
<1>2. drains' = [drains EXCEPT ![o] = r] /\ UNCHANGED <<current, queues, callback>>
  BY DEF StartRun
<1> HIDE DEF r
<1>3. drains \in [Objects -> Drain]
  BY DEF Shape, TypeOK
<1>4. drains' \in [Objects -> Drain] /\ drains'[o] = r
      /\ \A p \in Objects : p # o => drains'[p] = drains[p]
  BY <1>1, <1>2, <1>3
<1>5. Flags'
  BY <1>1, <1>2, <1>4 DEF Shape, Flags
<1>6. SlotLeft'
  BY <1>1, <1>2, <1>4 DEF Shape, SlotLeft
<1> QED
  BY <1>1, <1>2, <1>4, <1>5, <1>6 DEF Shape

\* What a drain may do when its wait is over.
LEMMA DrainStepLemma ==
  ASSUME Shape, NEW o \in Objects, DrainStep(o)
  PROVE  /\ UNCHANGED <<phase, recent, failures, history>> /\ drains[o].at = "debounce"
         /\ \/ EndDrain(o, queues[o]) /\ (queues[o].items = << >> \/ HasSummary(queues[o]))
            \/ \E kind \in {"item", "collect", "summary"}, batch \in Seq(Messages), force \in BOOLEAN :
                 /\ StartRun(o, kind, batch, force)
                 /\ Len(batch) <= Len(queues[o].items)
                 /\ \A i \in 1..Len(batch) : batch[i] = queues[o].items[i]
                 /\ kind = "summary" => HasSummary(queues[o])
<1> DEFINE items == queues[o].items
<1>1. items \in Seq(Messages) /\ drains[o].force \in BOOLEAN
  BY QueueParts DEF Shape, TypeOK, Drain
<1>2. /\ UNCHANGED <<phase, recent, failures, history>> /\ drains[o].at = "debounce"
      /\ CollectStep(o) \/ FollowupStep(o)
  BY DEF DrainStep
<1>3. items # << >> => /\ <<Head(items)>> \in Seq(Messages) /\ Len(<<Head(items)>>) = 1
                       /\ <<Head(items)>>[1] = items[1] /\ 1 <= Len(items)
  BY <1>1, HeadTailProperties, MembersOfEnds, LenProperties
<1>4. Len(items) \in Nat
  BY <1>1, LenProperties
<1>5. CASE CollectStep(o)
  <2>1. CASE EndDrain(o, queues[o]) /\ items = << >>
    BY <1>2, <2>1
  <2>2. CASE StartRun(o, "item", <<Head(items)>>, TRUE) /\ items # << >>
    <3>1. \A i \in 1..Len(<<Head(items)>>) : <<Head(items)>>[i] = items[i]
      BY <1>3, <2>2
    <3> QED
      BY <1>2, <1>3, <2>2, <3>1
  <2>3. CASE StartRun(o, "collect", items, FALSE)
    <3> DEFINE force == FALSE
    <3>1. force \in BOOLEAN
      OBVIOUS
    <3>2. StartRun(o, "collect", items, force)
      BY <2>3
    <3>3. Len(items) <= Len(queues[o].items) /\ \A i \in 1..Len(items) : items[i] = queues[o].items[i]
      BY <1>4
    <3> HIDE DEF force
    <3> QED
      BY <1>1, <1>2, <3>1, <3>2, <3>3
  <2> QED
    BY <1>5, <2>1, <2>2, <2>3 DEF CollectStep
<1>6. CASE FollowupStep(o)
  <2>1. CASE EndDrain(o, queues[o]) /\ (items = << >> \/ HasSummary(queues[o]))
    BY <1>2, <2>1
  <2>2. CASE items # << >> /\ StartRun(o, IF HasSummary(queues[o]) THEN "summary" ELSE "item",
                                       <<Head(items)>>, drains[o].force)
    <3>1. \A i \in 1..Len(<<Head(items)>>) : <<Head(items)>>[i] = items[i]
      BY <1>3, <2>2
    <3>2. CASE HasSummary(queues[o])
      BY <1>1, <1>2, <1>3, <2>2, <3>1, <3>2
    <3>3. CASE ~HasSummary(queues[o])
      BY <1>1, <1>2, <1>3, <2>2, <3>1, <3>3
    <3> QED
      BY <3>2, <3>3
  <2> QED
    BY <1>6, <2>1, <2>2 DEF FollowupStep
<1> QED
  BY <1>2, <1>5, <1>6

\* The queue object after a run that has succeeded.
Shortened(o) ==
  LET r == drains[o]
  IN [queues[o] EXCEPT !.items = From(@, Len(r.batch)),
                       !.droppedCount = IF r.summary /\ r.kind # "item" THEN 0 ELSE @]

\* It keeps everything but the items, and perhaps the count of dropped ones.
LEMMA ShortenedLemma ==
  ASSUME Shape, NEW o \in Objects
  PROVE  /\ Shortened(o) \in Queue
         /\ Shortened(o).items = From(queues[o].items, Len(drains[o].batch))
         /\ Shortened(o).draining = queues[o].draining
         /\ queues[o].droppedCount = 0 => Shortened(o).droppedCount = 0
<1> DEFINE items == From(queues[o].items, Len(drains[o].batch))
           dropped == IF drains[o].summary /\ drains[o].kind # "item" THEN 0
                                                                      ELSE queues[o].droppedCount
<1>1. queues[o] \in Queue /\ drains[o].batch \in Seq(Messages)
  BY DEF Shape, TypeOK, Drain
<1>2. queues[o].items \in Seq(Messages) /\ queues[o].droppedCount \in Nat
  BY <1>1, QueueParts
<1>3. items \in Seq(Messages)
  BY <1>1, <1>2, FromLemma, LenProperties
<1>4. dropped \in Nat /\ (queues[o].droppedCount = 0 => dropped = 0)
  BY <1>2
<1>5. Shortened(o) = [queues[o] EXCEPT !.items = items, !.droppedCount = dropped]
  BY <1>1 DEF Shortened, Queue
<1> HIDE DEF items, dropped
<1>6. /\ Shortened(o) \in Queue /\ Shortened(o).items = items
      /\ Shortened(o).droppedCount = dropped /\ Shortened(o).draining = queues[o].draining
  BY <1>1, <1>3, <1>4, <1>5 DEF Queue
<1> QED
  BY <1>4, <1>6 DEF items

\* An iteration of the loop is over.
LEMMA NextIterationLemma ==
  ASSUME Shape, NEW o \in Objects, drains[o].at = "run", NEW q \in Queue,
         q.draining = queues[o].draining, NextIteration(o, q)
  PROVE  /\ current' \in {current, None} /\ queues' \in [Objects -> Queue]
         /\ drains' \in [Objects -> Drain] /\ callback' \in BOOLEAN
         /\ Flags' /\ SlotLeft'
         /\ \A p \in Objects :
              /\ queues'[p].items = IF p = o THEN q.items ELSE queues[p].items
              /\ queues'[p].droppedCount = IF p = o THEN q.droppedCount ELSE queues[p].droppedCount
         /\ \A p \in Objects : \/ p # o /\ drains'[p] = drains[p]
                               \/ p = o /\ drains'[p].at \in {"debounce", "stopped"}
                               \/ p = current /\ current' = current /\ drains'[p].at = "debounce"
         /\ current' # current /\ current = o => ~Pending(q)
         /\ drains'[o].at # "stopped" => current' = current
<1>0. /\ queues \in [Objects -> Queue] /\ drains \in [Objects -> Drain] /\ callback \in BOOLEAN
      /\ drains[o].force \in BOOLEAN
  BY DEF Shape, TypeOK, Drain
<1>1. CASE Pending(q)
  <2> DEFINE d == [Stopped EXCEPT !.at = "debounce", !.force = drains[o].force]
  <2>1. d \in Drain /\ d.at = "debounce"
    BY <1>0, StoppedType
  <2>2. /\ queues' = [queues EXCEPT ![o] = q] /\ drains' = [drains EXCEPT ![o] = d]
        /\ UNCHANGED <<current, callback>>
    BY <1>1 DEF NextIteration
  <2> HIDE DEF d
  <2>3. Flags'
    BY <1>0, <2>1, <2>2 DEF Shape, Flags
  <2>4. SlotLeft'
    BY <1>0, <2>1, <2>2 DEF Shape, SlotLeft
  <2> QED
    BY <1>0, <2>1, <2>2, <2>3, <2>4
<1>2. CASE ~Pending(q)
  <2>1. EndDrain(o, q)
    BY <1>2 DEF NextIteration
  <2>2. current' = None /\ drains'[o] = Stopped
    BY <1>0, <1>2, <2>1 DEF EndDrain
  <2> QED
    <3>1. /\ current' \in {current, None} /\ queues' \in [Objects -> Queue]
          /\ drains' \in [Objects -> Drain] /\ callback' \in BOOLEAN /\ Flags' /\ SlotLeft'
          /\ \A p \in Objects :
               /\ queues'[p].items = IF p = o THEN q.items ELSE queues[p].items
               /\ queues'[p].droppedCount = IF p = o THEN q.droppedCount
                                                     ELSE queues[p].droppedCount
          /\ \A p \in Objects : \/ p # o /\ drains'[p] = drains[p]
                                \/ p = o /\ drains'[p] = Stopped
                                \/ p = current /\ current' = current /\ drains'[p].at = "debounce"
      BY <2>1, EndLemma
    <3> QED
      BY <1>2, <2>2, <3>1, StoppedType
<1> QED
  BY <1>1, <1>2

\* No run starts, and the queues lose at most items at their front.
Quiet ==
  /\ \A o \in Objects : \E n \in Nat : queues'[o].items = From(queues[o].items, n)
  /\ \A o \in Objects : drains'[o].at = "run" => drains'[o] = drains[o]
  /\ UNCHANGED <<handed, recent>>

\* The items of every object stay.
LEMMA QuietItems ==
  ASSUME Shape, \A o \in Objects : queues'[o].items = queues[o].items,
         \A o \in Objects : drains'[o].at = "run" => drains'[o] = drains[o],
         UNCHANGED <<handed, recent>>
  PROVE  Quiet
<1>1. ASSUME NEW o \in Objects
      PROVE  queues'[o].items = From(queues[o].items, 0) /\ 0 \in Nat
  <2>1. queues[o].items \in Seq(Messages)
    BY QueueParts DEF Shape, TypeOK
  <2> QED
    BY <2>1, FromEnds
<1> QED
  BY <1>1 DEF Quiet

\* The run that an arrival starts itself, and what it finds.
Calm(d) == FindsAgentActive(d) \/ RunsAgent(d) \/ RunBecomesActive(d) \/ RunEnds(d)

\* It touches no queue.
LEMMA CalmLemma ==
  ASSUME Shape, NEW d \in Deliveries, Calm(d)
  PROVE  Shape' /\ Quiet /\ UNCHANGED <<current, queues, drains, callback, history>>
<1>1. /\ UNCHANGED <<current, queues, drains, callback, recent, failures, accepted, handed, removed>>
      /\ \E p \in Phases : phase' = [phase EXCEPT ![d] = p]
  BY DEF Calm, FindsAgentActive, RunsAgent, RunBecomesActive, RunEnds, Phases, history
<1>2. phase' \in [Deliveries -> Phases]
  BY <1>1 DEF Shape, TypeOK
<1>3. Shape'
  BY <1>1, <1>2 DEF Shape, TypeOK, Flags, SlotLeft
<1> QED
  BY <1>1, <1>3, QuietItems DEF history

\* A finalizer may start a drain, and does nothing else.
LEMMA FinalizeLemma ==
  ASSUME Shape, NEW d \in Deliveries, FinalizeWithFollowup(d)
  PROVE  /\ Shape' /\ Quiet /\ UNCHANGED history
         /\ ScheduleDrain(current, queues, drains)
<1>1. /\ phase' = [phase EXCEPT ![d] = "done"] /\ UNCHANGED <<recent, failures, accepted, handed, removed>>
      /\ ScheduleDrain(current, queues, drains)
  BY DEF FinalizeWithFollowup, history
<1>2. phase' \in [Deliveries -> Phases]
  BY <1>1 DEF Shape, TypeOK, Phases
<1>3. /\ current' \in {current, None} /\ queues' \in [Objects -> Queue]
      /\ drains' \in [Objects -> Drain] /\ callback' \in BOOLEAN /\ Flags' /\ SlotLeft'
      /\ \A o \in Objects : queues'[o].items = queues[o].items
      /\ \A o \in Objects : drains'[o] = drains[o] \/ drains'[o].at = "debounce"
  <2>1. /\ current \in Objects \union {None} /\ queues \in [Objects -> Queue]
        /\ drains \in [Objects -> Drain] /\ callback \in BOOLEAN
    BY DEF Shape, TypeOK
  <2>2. Agree(queues, drains) /\ LeavesSlot(current, drains)
    BY DEF Shape, Flags, SlotLeft, Agree, LeavesSlot
  <2>3. ScheduleDrain(current, queues, drains)
    BY <1>1
  <2>4. /\ current' \in {current, None} /\ queues' \in [Objects -> Queue]
        /\ drains' \in [Objects -> Drain] /\ callback' \in BOOLEAN /\ Flags' /\ SlotLeft'
        /\ \A o \in Objects : /\ queues'[o].items = queues[o].items
                              /\ queues'[o].droppedCount = queues[o].droppedCount
        /\ \A o \in Objects : \/ drains'[o] = drains[o]
                              \/ o = current /\ current' = current /\ drains'[o].at = "debounce"
    BY <2>1, <2>2, <2>3, ScheduleLemma
  <2> QED
    BY <2>4
<1>4. Shape'
  BY <1>1, <1>2, <1>3 DEF Shape, TypeOK
<1>5. Quiet
  BY <1>1, <1>3, QuietItems
<1> QED
  BY <1>1, <1>4, <1>5 DEF history

\* A drain that ends with the object as it is.
LEMMA EndStepLemma ==
  ASSUME Shape, NEW o \in Objects, EndDrain(o, queues[o]),
         failures' \in 0..MaxFailures, UNCHANGED <<phase, recent, history>>
  PROVE  Shape' /\ Quiet
<1>1. queues[o] \in Queue
  BY DEF Shape, TypeOK
<1>2. /\ current' \in {current, None} /\ queues' \in [Objects -> Queue]
      /\ drains' \in [Objects -> Drain] /\ callback' \in BOOLEAN /\ Flags' /\ SlotLeft'
      /\ \A p \in Objects : queues'[p].items = queues[p].items
      /\ \A p \in Objects : drains'[p] = drains[p] \/ drains'[p].at \in {"debounce", "stopped"}
  <2>1. /\ current' \in {current, None} /\ queues' \in [Objects -> Queue]
        /\ drains' \in [Objects -> Drain] /\ callback' \in BOOLEAN /\ Flags' /\ SlotLeft'
        /\ \A p \in Objects :
             /\ queues'[p].items = IF p = o THEN queues[o].items ELSE queues[p].items
             /\ queues'[p].droppedCount = IF p = o THEN queues[o].droppedCount
                                                   ELSE queues[p].droppedCount
        /\ \A p \in Objects : \/ p # o /\ drains'[p] = drains[p]
                              \/ p = o /\ drains'[p] = Stopped
                              \/ p = current /\ current' = current /\ drains'[p].at = "debounce"
    BY <1>1, EndLemma
  <2> QED
    BY <2>1, StoppedType
<1>3. Shape'
  BY <1>2 DEF Shape, TypeOK, history
<1>4. Quiet
  BY <1>2, QuietItems DEF history
<1> QED
  BY <1>3, <1>4

\* A followup run that starts.
Starts(o) ==
  /\ \A p \in Objects : p # o => drains'[p] = drains[p]
  /\ drains'[o].at = "run"
  /\ Len(drains'[o].batch) <= Len(queues[o].items)
  /\ \A i \in 1..Len(drains'[o].batch) : drains'[o].batch[i] = queues[o].items[i]
  /\ drains'[o].kind = "summary" => HasSummary(queues[o])
  /\ drains[o].at = "debounce" /\ UNCHANGED <<current, queues, recent, history>>

\* The step after the wait ends the drain or starts a run.
LEMMA DrainStepEffect ==
  ASSUME Shape, NEW o \in Objects, DrainStep(o)
  PROVE  /\ Shape' /\ UNCHANGED <<recent, history>> /\ drains[o].at = "debounce"
         /\ \/ Quiet /\ EndDrain(o, queues[o]) /\ (queues[o].items = << >> \/ HasSummary(queues[o]))
            \/ Starts(o)
<1>1. UNCHANGED <<phase, recent, failures, history>> /\ drains[o].at = "debounce"
  BY DrainStepLemma
<1>2. CASE EndDrain(o, queues[o]) /\ (queues[o].items = << >> \/ HasSummary(queues[o]))
  <2>1. Shape' /\ Quiet
    BY <1>1, <1>2, EndStepLemma DEF Shape, TypeOK
  <2> QED
    BY <1>1, <1>2, <2>1
<1>3. ASSUME NEW kind \in {"item", "collect", "summary"}, NEW batch \in Seq(Messages),
             NEW force \in BOOLEAN, StartRun(o, kind, batch, force),
             Len(batch) <= Len(queues[o].items),
             \A i \in 1..Len(batch) : batch[i] = queues[o].items[i],
             kind = "summary" => HasSummary(queues[o])
      PROVE  Shape' /\ Starts(o)
  <2>1. /\ UNCHANGED <<current, queues, callback>>
        /\ drains' \in [Objects -> Drain] /\ Flags' /\ SlotLeft'
        /\ \A p \in Objects : p # o => drains'[p] = drains[p]
        /\ drains'[o].at = "run" /\ drains'[o].kind = kind /\ drains'[o].batch = batch
    BY <1>1, <1>3, StartRunLemma
  <2>2. Shape'
    BY <1>1, <2>1 DEF Shape, TypeOK, history
  <2>3. Starts(o)
    BY <1>1, <1>3, <2>1 DEF Starts
  <2> QED
    BY <2>2, <2>3
<1> QED
  BY <1>1, <1>2, <1>3, DrainStepLemma

\* A run that throws leaves the items where they are.
LEMMA RunFailsEffect ==
  ASSUME Shape, NEW o \in Objects, RunFails(o)
  PROVE  Shape' /\ Quiet /\ EndDrain(o, queues[o]) /\ UNCHANGED history /\ drains[o].at = "run"
<1>1. /\ drains[o].at = "run" /\ failures < MaxFailures /\ failures' = failures + 1
      /\ EndDrain(o, queues[o]) /\ UNCHANGED <<phase, recent, history>>
  BY DEF RunFails
<1>2. failures' \in 0..MaxFailures
  BY <1>1, FollowupAssumption DEF Shape, TypeOK, FollowupAssumption
<1> QED
  BY <1>1, <1>2, EndStepLemma

\* The items of a run that has succeeded are taken off, and no run starts.
LEMMA RunSucceedsEffect ==
  ASSUME Shape, NEW o \in Objects, RunSucceeds(o)
  PROVE  /\ Shape' /\ UNCHANGED <<recent, accepted, removed>> /\ drains[o].at = "run"
         /\ NextIteration(o, Shortened(o))
         /\ handed' = [m \in Messages |->
                        IF drains[o].kind # "summary" /\ m \in Members(drains[o].batch)
                          THEN handed[m] + 1 ELSE handed[m]]
         /\ \A p \in Objects :
              queues'[p].items = IF p = o THEN From(queues[o].items, Len(drains[o].batch))
                                          ELSE queues[p].items
         /\ \A p \in Objects : drains'[p].at = "run" => p # o /\ drains'[p] = drains[p]
         /\ current' \in {current, None}
<1>1. /\ drains[o].at = "run" /\ NextIteration(o, Shortened(o))
      /\ handed' = [m \in Messages |->
                     IF drains[o].kind # "summary" /\ m \in Members(drains[o].batch)
                       THEN handed[m] + 1 ELSE handed[m]]
      /\ UNCHANGED <<phase, recent, failures, accepted, removed>>
  BY DEF RunSucceeds, Shortened
<1>2. /\ Shortened(o) \in Queue
      /\ Shortened(o).items = From(queues[o].items, Len(drains[o].batch))
      /\ Shortened(o).draining = queues[o].draining
  BY ShortenedLemma
<1>3. /\ current' \in {current, None} /\ queues' \in [Objects -> Queue]
      /\ drains' \in [Objects -> Drain] /\ callback' \in BOOLEAN /\ Flags' /\ SlotLeft'
      /\ \A p \in Objects : queues'[p].items = IF p = o THEN Shortened(o).items ELSE queues[p].items
      /\ \A p \in Objects : \/ p # o /\ drains'[p] = drains[p]
                            \/ drains'[p].at \in {"debounce", "stopped"}
  BY <1>1, <1>2, NextIterationLemma
<1>4. handed' \in [Messages -> Nat]
  BY <1>1 DEF Shape, TypeOK
<1>5. Shape'
  BY <1>1, <1>3, <1>4 DEF Shape, TypeOK
<1>6. \A p \in Objects : drains'[p].at = "run" => p # o /\ drains'[p] = drains[p]
  BY <1>3
<1> QED
  BY <1>1, <1>2, <1>3, <1>5, <1>6

\* The object of the map is emptied and forgotten.
LEMMA ClearEffect ==
  ASSUME Shape, ClearSessionQueues
  PROVE  /\ Shape' /\ Quiet /\ current' = None /\ UNCHANGED <<drains, accepted>>
         /\ "clear in flight" \notin Races => \A o \in Objects : drains[o].at = "stopped"
         /\ removed' = removed \union Members(Waiting)
         /\ \A o \in Objects : queues'[o].droppedCount = queues[o].droppedCount
                               \/ queues'[o].droppedCount = 0
<1>1. /\ \E o \in Objects : drains[o].at = "stopped"
      /\ "clear in flight" \in Races \/ \A o \in Objects : drains[o].at = "stopped"
      /\ callback' = FALSE /\ current' = None
      /\ UNCHANGED <<phase, drains, recent, failures, accepted, handed>>
  BY DEF ClearSessionQueues
<1>2. /\ queues \in [Objects -> Queue] /\ removed \in SUBSET Messages
      /\ current \in Objects \union {None}
  BY DEF Shape, TypeOK
<1>3. CASE current = None
  <2>1. queues' = queues /\ removed' = removed
    BY <1>3 DEF ClearSessionQueues
  <2>2. Members(Waiting) = {}
    BY <1>3 DEF Waiting, Members
  <2>3. Shape'
    BY <1>1, <2>1 DEF Shape, TypeOK, Flags, SlotLeft
  <2>4. Quiet
    BY <1>1, <2>1, QuietItems
  <2> QED
    BY <1>1, <2>1, <2>2, <2>3, <2>4
<1>4. CASE current # None
  <2> DEFINE q == [queues[current] EXCEPT !.items = << >>, !.droppedCount = 0, !.hasLastRun = FALSE]
  <2>1. current \in Objects /\ queues[current] \in Queue /\ queues[current].items \in Seq(Messages)
    BY <1>2, <1>4, QueueParts
  <2>2. q \in Queue /\ q.items = << >> /\ q.droppedCount = 0 /\ q.draining = queues[current].draining
    BY <2>1, EmptySeq DEF Queue
  <2>3. queues' = [queues EXCEPT ![current] = q]
    BY <1>4 DEF ClearSessionQueues
  <2>4. removed' = removed \union Members(Waiting)
    BY <1>4 DEF ClearSessionQueues, Waiting
  <2> HIDE DEF q
  <2>5. queues' \in [Objects -> Queue]
        /\ \A p \in Objects : queues'[p] = IF p = current THEN q ELSE queues[p]
    BY <1>2, <2>1, <2>2, <2>3
  <2>6. Members(Waiting) \subseteq Messages
    BY <1>4, <2>1, MembersOfSeq DEF Waiting
  <2>7. TypeOK'
    BY <1>1, <2>4, <2>5, <2>6 DEF Shape, TypeOK
  <2>8. Flags' /\ SlotLeft'
    BY <1>1, <2>2, <2>5 DEF Shape, Flags, SlotLeft
  <2>9. \A p \in Objects : \E n \in Nat : queues'[p].items = From(queues[p].items, n)
    <3>1. queues[current].items \in Seq(Messages) /\ Len(queues[current].items) \in Nat
      BY <2>1, LenProperties
    <3>2. queues'[current].items = From(queues[current].items, Len(queues[current].items))
      BY <2>1, <2>2, <2>5, <3>1, FromEnds
    <3>3. ASSUME NEW p \in Objects, p # current
          PROVE  queues'[p].items = From(queues[p].items, 0) /\ 0 \in Nat
      <4>1. queues'[p] = queues[p] /\ queues[p].items \in Seq(Messages)
        BY <1>2, <2>5, <3>3, QueueParts
      <4> QED
        BY <4>1, FromEnds
    <3> QED
      BY <3>1, <3>2, <3>3
  <2>10. Quiet
    BY <1>1, <2>9 DEF Quiet
  <2> QED
    BY <1>1, <2>2, <2>4, <2>5, <2>7, <2>8, <2>10 DEF Shape
<1> QED
  BY <1>3, <1>4

\* An arrival is put behind the messages that wait, of which the drop policy
\* may take some, none while there is room.
Accepts(m, s) ==
  /\ m \in Messages /\ m \notin recent /\ m \notin Members(Waiting)
  /\ recent' = recent \union {m} /\ accepted' = Append(accepted, m) /\ handed' = handed
  /\ removed \subseteq removed'
  /\ current' = Slot
  /\ \A p \in Objects : p # Slot => queues'[p].items = queues[p].items
  /\ \E n \in Nat : /\ queues'[Slot].items = Append(From(Waiting, n), m)
                    /\ Len(Waiting) < s.cap => n = 0
  /\ s.dropPolicy = "new" => Len(Waiting) < s.cap
  /\ \A p \in Objects : p # Slot => queues'[p].droppedCount = queues[p].droppedCount
  /\ Len(Waiting) < s.cap =>
       queues'[Slot].droppedCount = IF current = None THEN 0 ELSE queues[current].droppedCount
  /\ \A p \in Objects : \/ drains'[p] = drains[p]
                        \/ p = Slot /\ drains'[p].at = "debounce"

\* Anything else leaves the items of the session as they are.
Refuses ==
  /\ Quiet /\ current' = Slot /\ Waiting' = Waiting /\ UNCHANGED <<drains, accepted, removed>>
  /\ \A p \in Objects : queues'[p].droppedCount = queues[p].droppedCount
                        \/ queues'[p].droppedCount = 0

\* The slot is used again with q, which may or may not have lost its items.
LEMMA RefuseLemma ==
  ASSUME Shape, NEW q \in Queue, q.items = Waiting,
         q.draining <=> drains[Slot].at # "stopped",
         q.droppedCount = IF current = None THEN 0 ELSE queues[current].droppedCount,
         NEW d \in Deliveries, phase' = [phase EXCEPT ![d] = "done"],
         current' = Slot, queues' = [queues EXCEPT ![Slot] = q],
         UNCHANGED <<drains, callback, recent, failures, history>>
  PROVE  Shape' /\ Refuses
<1>1. /\ Slot \in Objects /\ (current # None => Slot = current)
      /\ current = None => drains[Slot].at = "stopped"
  BY SlotLemma
<1>2. /\ queues \in [Objects -> Queue] /\ phase' \in [Deliveries -> Phases]
      /\ current \in Objects \union {None}
  BY DEF Shape, TypeOK, Phases
<1>3. queues' \in [Objects -> Queue]
      /\ \A p \in Objects : queues'[p] = IF p = Slot THEN q ELSE queues[p]
  BY <1>1, <1>2
<1>4. TypeOK'
  BY <1>1, <1>2, <1>3 DEF Shape, TypeOK, history
<1>5. Flags'
  BY <1>1, <1>3 DEF Shape, Flags
<1>6. current' \in Objects /\ current' # None
  BY <1>1, FollowupAssumption DEF FollowupAssumption
<1>7. SlotLeft'
  BY <1>6 DEF SlotLeft
<1>8. Waiting' = Waiting
  BY <1>1, <1>3, <1>6 DEF Waiting
<1>9. \A p \in Objects : \E n \in Nat : queues'[p].items = From(queues[p].items, n)
  <2>1. ASSUME NEW p \in Objects
        PROVE  queues[p].items \in Seq(Messages) /\ Len(queues[p].items) \in Nat
               /\ From(queues[p].items, 0) = queues[p].items
               /\ From(queues[p].items, Len(queues[p].items)) = << >>
    <3>1. queues[p].items \in Seq(Messages)
      BY <1>2, QueueParts
    <3> QED
      BY <3>1, FromEnds, LenProperties
  <2>2. ASSUME NEW p \in Objects
        PROVE  queues'[p].items = queues[p].items \/ queues'[p].items = << >>
    BY <1>1, <1>2, <1>3 DEF Waiting
  <2>3. ASSUME NEW p \in Objects, queues'[p].items = queues[p].items
        PROVE  \E n \in Nat : queues'[p].items = From(queues[p].items, n)
    <3>1. 0 \in Nat /\ queues'[p].items = From(queues[p].items, 0)
      BY <2>1, <2>3
    <3> QED
      BY <3>1
  <2>4. ASSUME NEW p \in Objects, queues'[p].items = << >>
        PROVE  \E n \in Nat : queues'[p].items = From(queues[p].items, n)
    BY <2>1, <2>4
  <2> QED
    BY <2>2, <2>3, <2>4
<1>10. \A p \in Objects : queues'[p].droppedCount = queues[p].droppedCount
                          \/ queues'[p].droppedCount = 0
  BY <1>1, <1>3
<1>11. Quiet
  BY <1>9 DEF Quiet, history
<1> QED
  BY <1>4, <1>5, <1>7, <1>8, <1>10, <1>11 DEF Shape, Refuses, history

\* A message is put into the queue, or the queue is as before.
LEMMA EnqueueEffect ==
  ASSUME Shape, NEW d \in Deliveries, NEW s \in Settings, EnqueueFollowupRun(d, s)
  PROVE  Shape' /\ (Refuses \/ Accepts(MessageOf[d], s))
<1> DEFINE m == MessageOf[d]
           q == GetQueue(Slot, s)
           filled == PushItem(q, m)
           objects == [queues EXCEPT ![Slot] = filled]
<1>1. /\ q \in Queue /\ q.items = Waiting /\ (q.draining <=> drains[Slot].at # "stopped")
      /\ q.droppedCount = IF current = None THEN 0 ELSE queues[current].droppedCount
      /\ q.settings = s
  BY GetQueueLemma
<1>2. m \in Messages
  BY DEF Messages
<1>3. phase' = [phase EXCEPT ![d] = "done"] /\ failures' = failures
  BY DEF EnqueueFollowupRun
<1>4. CASE Seen(q, m)
  <2>1. /\ current' = Slot /\ queues' = [queues EXCEPT ![Slot] = q]
        /\ UNCHANGED <<drains, callback, recent, failures, history>>
    BY <1>4 DEF EnqueueFollowupRun
  <2> HIDE DEF q
  <2> QED
    BY <1>1, <1>3, <2>1, RefuseLemma
<1>5. CASE ~Seen(q, m) /\ Rejected(q)
  <2> DEFINE r == [q EXCEPT !.hasLastRun = TRUE]
  <2>1. /\ current' = Slot /\ queues' = [queues EXCEPT ![Slot] = r]
        /\ UNCHANGED <<drains, callback, recent, failures, history>>
    BY <1>5 DEF EnqueueFollowupRun
  <2> HIDE DEF q
  <2>2. /\ r \in Queue /\ r.items = q.items /\ r.draining = q.draining
        /\ r.droppedCount = q.droppedCount
    BY <1>1 DEF Queue
  <2> HIDE DEF r
  <2> QED
    BY <1>1, <1>3, <2>1, <2>2, RefuseLemma
<1>6. CASE ~Seen(q, m) /\ ~Rejected(q)
  <2>1. /\ recent' = recent \union {m} /\ accepted' = Append(accepted, m) /\ handed' = handed
        /\ removed' = removed \union (Members(q.items) \ Members(filled.items))
        /\ IF callback THEN ScheduleDrain(Slot, objects, drains)
                       ELSE current' = Slot /\ queues' = objects /\ UNCHANGED <<drains, callback>>
    BY <1>6 DEF EnqueueFollowupRun
  <2>2. m \notin recent /\ m \notin Members(Waiting)
    BY <1>1, <1>6 DEF Seen
  <2>3. s.dropPolicy = "new" => Len(Waiting) < s.cap
    <3>1. Waiting \in Seq(Messages) /\ s.cap \in Nat
      BY <1>1, QueueParts, FollowupAssumption DEF FollowupAssumption
    <3>2. Len(Waiting) \in Nat
      BY <3>1, LenProperties
    <3>3. s.dropPolicy = "new" => ~(Len(Waiting) >= s.cap)
      BY <1>1, <1>6 DEF Rejected
    <3> QED
      BY <3>1, <3>2, <3>3
  <2> HIDE DEF q
  <2>4. /\ filled \in Queue /\ filled.draining = q.draining
        /\ \E n \in Nat :
             /\ filled.items = Append(From(Waiting, n), m)
             /\ Len(Waiting) < s.cap => n = 0 /\ filled.droppedCount = q.droppedCount
    BY <1>1, <1>2, PushLemma
  <2> HIDE DEF m, filled
  <2>5. PICK n \in Nat : /\ filled.items = Append(From(Waiting, n), m)
                         /\ Len(Waiting) < s.cap => n = 0 /\ filled.droppedCount = q.droppedCount
    BY <2>4
  <2>6. /\ Slot \in Objects /\ (current = None => drains[Slot].at = "stopped")
    BY SlotLemma
  <2>7. Waiting \in Seq(Messages) /\ From(Waiting, n) \in Seq(Messages)
    <3>1. Waiting \in Seq(Messages)
      BY <1>1, QueueParts
    <3> QED
      BY <3>1, FromLemma
  <2>8. filled.items # << >> /\ Members(filled.items) \subseteq Messages
        /\ Members(Waiting) \subseteq Messages
    <3>1. Len(filled.items) = Len(From(Waiting, n)) + 1 /\ filled.items \in Seq(Messages)
      BY <1>2, <2>5, <2>7, AppendLemma
    <3>2. Len(From(Waiting, n)) \in Nat
      BY <2>7, LenProperties
    <3> QED
      BY <2>7, <3>1, <3>2, MembersOfSeq
  <2>9. /\ queues \in [Objects -> Queue] /\ drains \in [Objects -> Drain]
        /\ callback \in BOOLEAN /\ accepted \in Seq(Messages) /\ removed \in SUBSET Messages
        /\ recent \in SUBSET Messages /\ phase' \in [Deliveries -> Phases]
    BY <1>3 DEF Shape, TypeOK, Phases
  <2>10. objects \in [Objects -> Queue]
         /\ \A p \in Objects : objects[p] = IF p = Slot THEN filled ELSE queues[p]
    BY <2>4, <2>6, <2>9
  <2>11. Agree(objects, drains)
    BY <1>1, <2>4, <2>10 DEF Shape, Flags, Agree
  <2>12. Slot # None
    BY <2>6, FollowupAssumption DEF FollowupAssumption
  <2> HIDE DEF objects
  <2>13. /\ current' = Slot /\ queues' \in [Objects -> Queue] /\ drains' \in [Objects -> Drain]
         /\ callback' \in BOOLEAN /\ Flags' /\ SlotLeft'
         /\ \A p \in Objects : /\ queues'[p].items = objects[p].items
                               /\ queues'[p].droppedCount = objects[p].droppedCount
         /\ \A p \in Objects : \/ drains'[p] = drains[p]
                               \/ p = Slot /\ drains'[p].at = "debounce"
    <3>1. CASE callback
      <4>1. ScheduleDrain(Slot, objects, drains)
        BY <2>1, <3>1
      <4>2. Pending(objects[Slot])
        BY <2>6, <2>8, <2>10 DEF Pending
      <4> DEFINE key == Slot
      <4>3. key \in Objects \union {None} /\ key # None /\ ScheduleDrain(key, objects, drains)
            /\ Pending(objects[key])
        BY <2>6, <2>12, <4>1, <4>2
      <4>4. key = Slot
        OBVIOUS
      <4> HIDE DEF key
      <4>5. /\ current' \in {key, None} /\ queues' \in [Objects -> Queue]
            /\ drains' \in [Objects -> Drain] /\ callback' \in BOOLEAN /\ Flags' /\ SlotLeft'
            /\ \A o \in Objects : /\ queues'[o].items = objects[o].items
                                  /\ queues'[o].droppedCount = objects[o].droppedCount
            /\ \A o \in Objects : \/ drains'[o] = drains[o]
                                  \/ o = key /\ current' = key /\ drains'[o].at = "debounce"
            /\ current' # key => ~Pending(objects[key])
        <5>1. LeavesSlot(key, drains)
          BY <4>3 DEF LeavesSlot
        <5>2. /\ queues \in [Objects -> Queue] /\ drains \in [Objects -> Drain]
              /\ callback \in BOOLEAN /\ objects \in [Objects -> Queue]
          BY <2>9, <2>10
        <5> QED
          BY <2>11, <4>3, <5>1, <5>2, ScheduleLemma
      <4> QED
        BY <4>3, <4>4, <4>5
    <3>2. CASE ~callback
      <4>1. current' = Slot /\ queues' = objects /\ UNCHANGED <<drains, callback>>
        BY <2>1, <3>2
      <4>2. Flags' /\ SlotLeft'
        BY <2>11, <2>12, <4>1 DEF Agree, Flags, SlotLeft
      <4> QED
        BY <2>9, <2>10, <4>1, <4>2
    <3> QED
      BY <3>1, <3>2
  <2>14. TypeOK'
    <3>1. accepted' \in Seq(Messages)
      BY <1>2, <2>1, <2>9, AppendProperties DEF m
    <3>2. removed' \in SUBSET Messages /\ recent' \in SUBSET Messages
      BY <1>1, <1>2, <2>1, <2>8, <2>9 DEF m
    <3> QED
      BY <1>3, <2>1, <2>6, <2>9, <2>13, <3>1, <3>2 DEF Shape, TypeOK
  <2>15. Accepts(m, s)
    <3>1. queues'[Slot].items = Append(From(Waiting, n), m) /\ (Len(Waiting) < s.cap => n = 0)
      BY <2>5, <2>6, <2>10, <2>13
    <3>2. Len(Waiting) < s.cap =>
            queues'[Slot].droppedCount = IF current = None THEN 0 ELSE queues[current].droppedCount
      BY <1>1, <2>5, <2>6, <2>10, <2>13
    <3>3. \A p \in Objects : p # Slot => /\ queues'[p].items = queues[p].items
                                         /\ queues'[p].droppedCount = queues[p].droppedCount
      BY <2>10, <2>13
    <3>4. removed \subseteq removed' /\ m \in Messages
      BY <1>2, <2>1 DEF m
    <3> QED
      BY <2>1, <2>2, <2>3, <2>13, <3>1, <3>2, <3>3, <3>4 DEF Accepts
  <2> QED
    BY <2>13, <2>14, <2>15 DEF Shape, m
<1> QED
  BY <1>4, <1>5, <1>6

\* The initial state has the shape.
LEMMA ShapeInit == Init => Shape
<1> SUFFICES ASSUME Init PROVE Shape
  OBVIOUS
<1>1. (CHOOSE s \in Settings : TRUE) \in Settings
  BY FollowupAssumption DEF FollowupAssumption
<1> DEFINE f == Fresh(CHOOSE s \in Settings : TRUE)
<1>2. f \in Queue /\ ~f.draining
  BY <1>1, FreshType
<1>3. queues = [o \in Objects |-> f] /\ drains = [o \in Objects |-> Stopped]
  BY DEF Init
<1> HIDE DEF f
<1>4. queues \in [Objects -> Queue] /\ drains \in [Objects -> Drain]
      /\ \A o \in Objects : ~queues[o].draining /\ drains[o].at = "stopped"
  BY <1>2, <1>3, StoppedType
<1>5. TypeOK
  <2>1. failures \in 0..MaxFailures
    BY FollowupAssumption DEF Init, FollowupAssumption
  <2>2. accepted \in Seq(Messages)
    BY EmptySeq DEF Init
  <2> QED
    BY <1>4, <2>1, <2>2 DEF Init, TypeOK, Phases
<1>6. Flags /\ SlotLeft
  BY <1>4, FollowupAssumption DEF Flags, SlotLeft, FollowupAssumption
<1> QED
  BY <1>5, <1>6 DEF Shape

\* The steps of the system, by what they do.
LEMMA NextCases ==
  ASSUME Next
  PROVE  \/ \E d \in Deliveries : Calm(d)
         \/ \E d \in Deliveries : FinalizeWithFollowup(d)
         \/ \E d \in Deliveries, s \in Settings : EnqueueFollowupRun(d, s)
         \/ \E o \in Objects : DrainStep(o)
         \/ \E o \in Objects : RunSucceeds(o)
         \/ \E o \in Objects : RunFails(o)
         \/ ClearSessionQueues
BY DEF Next, Calm

\* Every step keeps the shape.
LEMMA ShapeNext ==
  ASSUME Shape, [Next]_vars
  PROVE  Shape'
<1>1. CASE Next
  BY <1>1, NextCases, CalmLemma, FinalizeLemma, EnqueueEffect, DrainStepEffect,
     RunSucceedsEffect, RunFailsEffect, ClearEffect
<1>2. CASE UNCHANGED vars
  BY <1>2 DEF vars, Shape, TypeOK, Flags, SlotLeft
<1> QED
  BY <1>1, <1>2

\* Every object and every drain keeps its shape, the flag of an object agrees
\* with its drain, and the session can always be given another object.
THEOREM ShapeInvariance == Spec => []Shape
<1>1. Init => Shape
  BY ShapeInit
<1>2. Shape /\ [Next]_vars => Shape'
  BY ShapeNext
<1> QED
  BY <1>1, <1>2, PTL DEF Spec

\* The state of the queue, of its drains and of the arrivals is well typed.
THEOREM TypeCorrect == Spec => []TypeOK
<1>1. Shape => TypeOK
  BY DEF Shape
<1> QED
  BY <1>1, ShapeInvariance, PTL

-----------------------------------------------------------------------------
(* A message is handed over at most once *)

Batch(o) == IF drains[o].at = "run" THEN Members(drains[o].batch) ELSE {}
Held(o) == Members(queues[o].items) \union Batch(o)

\* An item that is in the batch of the run is among the items that the run's
\* success takes off.
Owned ==
  /\ \A o \in Objects : \A i, j \in 1..Len(queues[o].items) :
       queues[o].items[i] = queues[o].items[j] => i = j
  /\ \A o, p \in Objects : \A m \in Messages : m \in Held(o) /\ m \in Held(p) => o = p
  /\ \A o \in Objects : drains[o].at = "run" =>
       \A i \in 1..Len(queues[o].items) :
         queues[o].items[i] \in Members(drains[o].batch) => i <= Len(drains[o].batch)
  /\ \A o \in Objects : \A m \in Messages : m \in Held(o) => m \in recent /\ handed[m] = 0
  /\ \A m \in Messages : handed[m] <= 1 /\ (handed[m] > 0 => m \in recent)

\* Items and batches are finite lists of messages.
LEMMA HeldAreMessages ==
  ASSUME Shape, NEW o \in Objects
  PROVE  /\ queues[o].items \in Seq(Messages) /\ drains[o].batch \in Seq(Messages)
         /\ Len(queues[o].items) \in Nat /\ Len(drains[o].batch) \in Nat
         /\ Members(queues[o].items) \subseteq Messages
         /\ Members(drains[o].batch) \subseteq Messages
         /\ Members(queues[o].items) = {queues[o].items[i] : i \in 1..Len(queues[o].items)}
         /\ Members(drains[o].batch) = {drains[o].batch[i] : i \in 1..Len(drains[o].batch)}
<1>1. queues[o].items \in Seq(Messages) /\ drains[o].batch \in Seq(Messages)
  BY QueueParts DEF Shape, TypeOK, Drain
<1>2. Len(queues[o].items) \in Nat /\ Len(drains[o].batch) \in Nat
  BY <1>1, LenProperties
<1> QED
  BY <1>1, <1>2, MembersOfSeq

\* Taking items off adds none.
LEMMA MembersOfFrom ==
  ASSUME NEW S, NEW s \in Seq(S), NEW n \in Nat
  PROVE  Members(From(s, n)) \subseteq Members(s)
<1>1. From(s, n) \in Seq(S)
      /\ \A i \in 1..Len(From(s, n)) : n + i \in 1..Len(s) /\ From(s, n)[i] = s[n + i]
  BY FromLemma
<1>2. Members(s) = {s[i] : i \in 1..Len(s)}
      /\ Members(From(s, n)) = {From(s, n)[i] : i \in 1..Len(From(s, n))}
  BY <1>1, MembersOfSeq
<1> QED
  BY <1>1, <1>2

\* A queue that lost items at its front keeps the rest distinct.
LEMMA DistinctFrom ==
  ASSUME NEW S, NEW s \in Seq(S), NEW n \in Nat,
         \A i, j \in 1..Len(s) : s[i] = s[j] => i = j
  PROVE  \A i, j \in 1..Len(From(s, n)) : From(s, n)[i] = From(s, n)[j] => i = j
<1>1. \A i \in 1..Len(From(s, n)) : n + i \in 1..Len(s) /\ From(s, n)[i] = s[n + i]
  BY FromLemma
<1> SUFFICES ASSUME NEW i \in 1..Len(From(s, n)), NEW j \in 1..Len(From(s, n)),
                    From(s, n)[i] = From(s, n)[j]
             PROVE  i = j
  OBVIOUS
<1>2. n + i = n + j
  BY <1>1
<1>3. i \in Int /\ j \in Int
  <2>1. Len(From(s, n)) \in Nat
    BY FromLemma, LenProperties
  <2> QED
    BY <2>1
<1> QED
  BY <1>2, <1>3

\* Nothing is held at first.
LEMMA OwnedInit == Init => Owned
<1> SUFFICES ASSUME Init PROVE Owned
  OBVIOUS
<1>1. (CHOOSE s \in Settings : TRUE) \in Settings
  BY FollowupAssumption DEF FollowupAssumption
<1>2. \A o \in Objects : queues[o].items = << >> /\ drains[o].at = "stopped"
  BY <1>1, FreshType, StoppedType DEF Init
<1>3. \A o \in Objects : Held(o) = {}
  BY <1>2 DEF Held, Batch, Members
<1> QED
  BY <1>2, <1>3 DEF Init, Owned

\* A quiet step gives no message to anyone.
LEMMA OwnedQuiet ==
  ASSUME Shape, Owned, Shape', Quiet
  PROVE  Owned'
<1>1. ASSUME NEW o \in Objects
      PROVE  /\ \A i, j \in 1..Len(queues'[o].items) :
                  queues'[o].items[i] = queues'[o].items[j] => i = j
             /\ Held(o)' \subseteq Held(o)
             /\ drains'[o].at = "run" =>
                  \A i \in 1..Len(queues'[o].items) :
                    queues'[o].items[i] \in Members(drains'[o].batch) => i <= Len(drains'[o].batch)
  <2>1. PICK n \in Nat : queues'[o].items = From(queues[o].items, n)
    BY DEF Quiet
  <2>2. /\ queues[o].items \in Seq(Messages) /\ Len(queues[o].items) \in Nat
        /\ Len(drains[o].batch) \in Nat
    BY HeldAreMessages
  <2> DEFINE s == queues[o].items
             t == From(s, n)
  <2>3. Members(t) \subseteq Members(s)
    BY <2>2, MembersOfFrom
  <2>4. \A i \in 1..Len(t) : n + i \in 1..Len(s) /\ t[i] = s[n + i]
    BY <2>2, FromLemma
  <2>5. \A i, j \in 1..Len(t) : t[i] = t[j] => i = j
    <3>1. \A i, j \in 1..Len(s) : s[i] = s[j] => i = j
      BY DEF Owned
    <3> HIDE DEF s
    <3> QED
      BY <2>2, <3>1, DistinctFrom DEF s
  <2>6. drains'[o].at = "run" => drains'[o] = drains[o]
    BY DEF Quiet
  <2>7. drains[o].at = "run" => \A i \in 1..Len(s) : s[i] \in Members(drains[o].batch) => i <= Len(drains[o].batch)
    BY DEF Owned
  <2>8. Len(t) \in Nat
    BY <2>2, FromLemma, LenProperties
  <2>9. queues'[o].items = t
    BY <2>1
  <2> HIDE DEF s, t
  <2>10. Held(o)' \subseteq Held(o)
    BY <2>3, <2>6, <2>9 DEF Held, Batch, s
  <2>11. ASSUME drains'[o].at = "run", NEW i \in 1..Len(t), t[i] \in Members(drains'[o].batch)
         PROVE  i <= Len(drains'[o].batch)
    <3>1. n + i <= Len(drains[o].batch) /\ drains'[o] = drains[o]
      BY <2>4, <2>6, <2>7, <2>11
    <3> QED
      BY <2>2, <2>8, <3>1
  <2> QED
    BY <2>5, <2>9, <2>10, <2>11
<1>2. UNCHANGED <<handed, recent>>
  BY DEF Quiet
<1> QED
  BY <1>1, <1>2 DEF Owned

\* A run that starts takes its batch from the front of its own queue.
LEMMA OwnedStarts ==
  ASSUME Shape, Owned, Shape', NEW o \in Objects, Starts(o)
  PROVE  Owned'
<1>1. /\ UNCHANGED <<queues, recent, handed>>
      /\ \A p \in Objects : p # o => drains'[p] = drains[p]
      /\ drains'[o].at = "run" /\ Len(drains'[o].batch) <= Len(queues[o].items)
      /\ \A i \in 1..Len(drains'[o].batch) : drains'[o].batch[i] = queues[o].items[i]
  BY DEF Starts, history
<1> DEFINE s == queues[o].items
           b == drains'[o].batch
<1>2. /\ Len(s) \in Nat /\ Members(s) = {s[i] : i \in 1..Len(s)}
  BY HeldAreMessages
<1>3. /\ Len(b) \in Nat /\ Members(b) = {b[i] : i \in 1..Len(b)}
  <2>1. b \in Seq(Messages)
    BY DEF Shape, TypeOK, Drain
  <2> QED
    BY <2>1, LenProperties, MembersOfSeq
<1>4. 1..Len(b) \subseteq 1..Len(s)
  BY <1>1, <1>2, <1>3
<1>5. Members(b) \subseteq Members(s)
  BY <1>1, <1>2, <1>3, <1>4
<1>6. \A i \in 1..Len(s) : s[i] \in Members(b) => i <= Len(b)
  <2> SUFFICES ASSUME NEW i \in 1..Len(s), s[i] \in Members(b)
               PROVE  i <= Len(b)
    OBVIOUS
  <2>1. PICK j \in 1..Len(b) : s[i] = b[j]
    BY <1>3
  <2>2. s[i] = s[j] /\ j \in 1..Len(s)
    BY <1>1, <1>4, <2>1
  <2>3. i = j
    BY <2>2 DEF Owned
  <2> QED
    BY <1>3, <2>3
<1>7. \A p \in Objects : Held(p)' \subseteq Held(p)
  BY <1>1, <1>5 DEF Held, Batch
<1>8. \A p \in Objects : drains'[p].at = "run" =>
        \A i \in 1..Len(queues'[p].items) :
          queues'[p].items[i] \in Members(drains'[p].batch) => i <= Len(drains'[p].batch)
  BY <1>1, <1>6 DEF Owned
<1> QED
  BY <1>1, <1>7, <1>8 DEF Owned

\* What was handed over has left the queue, and no one else holds it.
LEMMA OwnedSucceeds ==
  ASSUME Shape, Owned, Shape', NEW o \in Objects, RunSucceeds(o)
  PROVE  Owned'
<1>1. /\ recent' = recent /\ drains[o].at = "run"
      /\ handed' = [m \in Messages |->
                     IF drains[o].kind # "summary" /\ m \in Members(drains[o].batch)
                       THEN handed[m] + 1 ELSE handed[m]]
      /\ \A p \in Objects :
           queues'[p].items = IF p = o THEN From(queues[o].items, Len(drains[o].batch))
                                       ELSE queues[p].items
      /\ \A p \in Objects : drains'[p].at = "run" => p # o /\ drains'[p] = drains[p]
  BY RunSucceedsEffect
<1> DEFINE s == queues[o].items
           b == drains[o].batch
           t == From(s, Len(b))
<1>2. /\ s \in Seq(Messages) /\ Len(s) \in Nat /\ Len(b) \in Nat /\ Members(b) \subseteq Messages
  BY HeldAreMessages
<1>3. /\ t \in Seq(Messages) /\ Members(t) \subseteq Members(s)
      /\ \A i \in 1..Len(t) : Len(b) + i \in 1..Len(s) /\ t[i] = s[Len(b) + i]
  BY <1>2, FromLemma, MembersOfFrom
<1>4. /\ Len(t) \in Nat /\ Members(t) = {t[i] : i \in 1..Len(t)}
  BY <1>3, LenProperties, MembersOfSeq
<1>5. \A i, j \in 1..Len(t) : t[i] = t[j] => i = j
  <2>1. \A i, j \in 1..Len(s) : s[i] = s[j] => i = j
    BY DEF Owned
  <2> HIDE DEF s, b
  <2> QED
    BY <1>2, <2>1, DistinctFrom DEF t
<1>6. \A m \in Members(b) : m \notin Members(t)
  <2> SUFFICES ASSUME NEW i \in 1..Len(t), t[i] \in Members(b)
               PROVE  FALSE
    BY <1>4
  <2>1. Len(b) + i \in 1..Len(s) /\ s[Len(b) + i] \in Members(b)
    BY <1>3
  <2>2. Len(b) + i <= Len(b)
    BY <1>1, <2>1 DEF Owned
  <2> QED
    BY <1>2, <1>4, <2>2
<1>7. queues'[o].items = t
  BY <1>1
<1> HIDE DEF t
<1>8. \A p \in Objects : Held(p)' \subseteq Held(p)
  BY <1>1, <1>3, <1>7 DEF Held, Batch
<1>9. \A p \in Objects : \A m \in Members(b) : m \notin Held(p)'
  <2> SUFFICES ASSUME NEW p \in Objects, NEW m \in Members(b), m \in Held(p)'
               PROVE  FALSE
    OBVIOUS
  <2>1. m \in Messages /\ m \in Held(o) /\ m \in Held(p)
    BY <1>1, <1>2, <1>8 DEF Held, Batch
  <2>2. p = o
    BY <2>1 DEF Owned
  <2>3. m \in Members(t)
    BY <1>1, <1>7, <2>2 DEF Held, Batch
  <2> QED
    BY <1>6, <2>3
<1>10. \A m \in Messages : /\ m \notin Members(b) => handed'[m] = handed[m]
                           /\ m \in Members(b) => m \in recent /\ handed'[m] \in {0, 1}
  <2>1. \A m \in Messages : m \in Members(b) => m \in recent /\ handed[m] = 0
    BY <1>1 DEF Owned, Held, Batch
  <2> QED
    BY <1>1, <2>1
<1>11. \A p \in Objects :
         /\ \A i, j \in 1..Len(queues'[p].items) : queues'[p].items[i] = queues'[p].items[j] => i = j
         /\ drains'[p].at = "run" =>
              \A i \in 1..Len(queues'[p].items) :
                queues'[p].items[i] \in Members(drains'[p].batch) => i <= Len(drains'[p].batch)
  BY <1>1, <1>5, <1>7 DEF Owned
<1>12. \A p, r \in Objects : \A m \in Messages : m \in Held(p)' /\ m \in Held(r)' => p = r
  BY <1>8 DEF Owned
<1>13. \A p \in Objects : \A m \in Messages : m \in Held(p)' => m \in recent' /\ handed'[m] = 0
  BY <1>1, <1>8, <1>9, <1>10 DEF Owned
<1>14. \A m \in Messages : handed'[m] <= 1 /\ (handed'[m] > 0 => m \in recent')
  BY <1>1, <1>10 DEF Owned
<1> QED
  BY <1>11, <1>12, <1>13, <1>14 DEF Owned

\* A message that is accepted is new: nobody holds it, and no run had it.
LEMMA OwnedAccepts ==
  ASSUME Shape, Owned, Shape', NEW m, NEW s \in Settings, Accepts(m, s)
  PROVE  Owned'
<1>0. PICK x \in Objects : x = Slot
  BY SlotLemma
<1>1. /\ m \in Messages /\ m \notin recent
      /\ recent' = recent \union {m} /\ handed' = handed
      /\ \A p \in Objects : p # x => queues'[p].items = queues[p].items
      /\ \A p \in Objects : \/ drains'[p] = drains[p]
                            \/ p = x /\ drains'[p].at = "debounce"
  BY <1>0 DEF Accepts
<1>2. PICK n \in Nat : queues'[x].items = Append(From(Waiting, n), m)
  BY <1>0 DEF Accepts
<1>3. /\ current # None => x = current
      /\ current = None => drains[x].at = "stopped"
  BY <1>0, SlotLemma
<1> DEFINE t == From(Waiting, n)
           u == Append(t, m)
<1>4. /\ Waiting \in Seq(Messages) /\ Members(Waiting) \subseteq Held(x)
      /\ \A i, j \in 1..Len(Waiting) : Waiting[i] = Waiting[j] => i = j
      /\ drains[x].at = "run" => Waiting = queues[x].items
  <2>1. CASE current = None
    <3>1. Waiting = << >> /\ Members(Waiting) = {} /\ Len(Waiting) = 0
      BY <2>1 DEF Waiting, Members
    <3> QED
      BY <1>3, <2>1, <3>1, EmptySeq
  <2>2. CASE current # None
    <3>1. Waiting = queues[x].items /\ Waiting \in Seq(Messages)
      BY <1>3, <2>2, HeldAreMessages DEF Waiting
    <3> QED
      BY <1>3, <3>1 DEF Owned, Held
  <2> QED
    BY <2>1, <2>2
<1>5. /\ t \in Seq(Messages) /\ Members(t) \subseteq Members(Waiting)
      /\ \A i \in 1..Len(t) : n + i \in 1..Len(Waiting) /\ t[i] = Waiting[n + i]
      /\ \A i, j \in 1..Len(t) : t[i] = t[j] => i = j
  BY <1>4, FromLemma, MembersOfFrom, DistinctFrom
<1>6. Len(t) \in Nat /\ \A i \in 1..Len(t) : t[i] \in Members(t)
  BY <1>5, LenProperties, MembersOfSeq
<1>7. /\ Len(u) = Len(t) + 1 /\ \A i \in 1..Len(t) : u[i] = t[i]
      /\ u[Len(t) + 1] = m /\ Members(u) = Members(t) \union {m}
  BY <1>1, <1>5, AppendLemma
<1>8. queues'[x].items = u
  BY <1>2
<1>9. \A p \in Objects : m \notin Held(p)
  BY <1>1 DEF Owned
<1>10. m \notin Members(t)
  BY <1>3, <1>4, <1>5, <1>9
<1> HIDE DEF t, u
<1>11. \A i \in 1..Len(u) : i \in 1..Len(t) \/ i = Len(t) + 1
  BY <1>6, <1>7
<1>12. \A i, j \in 1..Len(u) : u[i] = u[j] => i = j
  BY <1>5, <1>6, <1>7, <1>10, <1>11
<1>13. \A p \in Objects : p # x => Held(p)' \subseteq Held(p)
  BY <1>1 DEF Held, Batch
<1>14. Held(x)' \subseteq Held(x) \union {m}
  BY <1>1, <1>3, <1>4, <1>5, <1>7, <1>8 DEF Held, Batch
<1>15. ASSUME drains'[x].at = "run", NEW i \in 1..Len(u), u[i] \in Members(drains'[x].batch)
       PROVE  i <= Len(drains'[x].batch)
  <2>1. drains'[x] = drains[x] /\ drains[x].at = "run"
    BY <1>1, <1>3, <1>15
  <2>2. m \notin Members(drains[x].batch)
    BY <1>3, <1>9, <2>1 DEF Held, Batch
  <2>3. i \in 1..Len(t) /\ u[i] = t[i]
    BY <1>7, <1>11, <1>15, <2>1, <2>2
  <2>4. n + i \in 1..Len(queues[x].items) /\ queues[x].items[n + i] \in Members(drains[x].batch)
    BY <1>4, <1>5, <1>15, <2>1, <2>3
  <2>5. n + i <= Len(drains[x].batch) /\ Len(drains[x].batch) \in Nat
    BY <1>3, <2>1, <2>4, HeldAreMessages DEF Owned
  <2> QED
    BY <1>6, <2>1, <2>3, <2>5
<1>16. \A p \in Objects :
         /\ \A i, j \in 1..Len(queues'[p].items) : queues'[p].items[i] = queues'[p].items[j] => i = j
         /\ drains'[p].at = "run" =>
              \A i \in 1..Len(queues'[p].items) :
                queues'[p].items[i] \in Members(drains'[p].batch) => i <= Len(drains'[p].batch)
  <2>1. ASSUME NEW p \in Objects, p # x
        PROVE  queues'[p].items = queues[p].items /\ drains'[p] = drains[p]
    BY <1>1, <2>1
  <2> QED
    BY <1>8, <1>12, <1>15, <2>1 DEF Owned
<1>17. \A p, r \in Objects : \A k \in Messages : k \in Held(p)' /\ k \in Held(r)' => p = r
  <2> SUFFICES ASSUME NEW p \in Objects, NEW r \in Objects, NEW k \in Messages,
                      k \in Held(p)', k \in Held(r)'
               PROVE  p = r
    OBVIOUS
  <2>1. CASE k = m
    BY <1>9, <1>13, <2>1
  <2>2. CASE k # m
    <3>1. k \in Held(p) /\ k \in Held(r)
      BY <1>13, <1>14, <2>2
    <3> QED
      BY <3>1 DEF Owned
  <2> QED
    BY <2>1, <2>2
<1>18. handed[m] = 0
  <2>1. handed[m] \in Nat
    BY <1>1 DEF Shape, TypeOK
  <2> QED
    BY <1>1, <2>1 DEF Owned
<1>19. \A p \in Objects : \A k \in Messages : k \in Held(p)' => k \in recent' /\ handed'[k] = 0
  BY <1>1, <1>13, <1>14, <1>18 DEF Owned
<1>20. \A k \in Messages : handed'[k] <= 1 /\ (handed'[k] > 0 => k \in recent')
  BY <1>1 DEF Owned
<1> QED
  BY <1>16, <1>17, <1>19, <1>20 DEF Owned

\* Every step keeps ownership.
LEMMA OwnedNext ==
  ASSUME Shape, Owned, [Next]_vars
  PROVE  Owned'
<1>0. Shape'
  BY ShapeNext
<1>1. CASE Next
  <2>1. ASSUME Quiet PROVE Owned'
    BY <1>0, <2>1, OwnedQuiet
  <2>2. ASSUME NEW d \in Deliveries, Calm(d) PROVE Owned'
    BY <2>1, <2>2, CalmLemma
  <2>3. ASSUME NEW d \in Deliveries, FinalizeWithFollowup(d) PROVE Owned'
    BY <2>1, <2>3, FinalizeLemma
  <2>4. ASSUME NEW d \in Deliveries, NEW s \in Settings, EnqueueFollowupRun(d, s) PROVE Owned'
    <3>1. CASE Refuses
      BY <2>1, <3>1 DEF Refuses
    <3>2. CASE Accepts(MessageOf[d], s)
      BY <1>0, <3>2, OwnedAccepts
    <3> QED
      BY <2>4, <3>1, <3>2, EnqueueEffect
  <2>5. ASSUME NEW o \in Objects, DrainStep(o) PROVE Owned'
    <3>1. CASE Starts(o)
      BY <1>0, <3>1, OwnedStarts
    <3> QED
      BY <2>1, <2>5, <3>1, DrainStepEffect
  <2>6. ASSUME NEW o \in Objects, RunSucceeds(o) PROVE Owned'
    BY <1>0, <2>6, OwnedSucceeds
  <2>7. ASSUME NEW o \in Objects, RunFails(o) PROVE Owned'
    BY <2>1, <2>7, RunFailsEffect
  <2>8. ASSUME ClearSessionQueues PROVE Owned'
    BY <2>1, <2>8, ClearEffect
  <2> QED
    BY <1>1, <2>2, <2>3, <2>4, <2>5, <2>6, <2>7, <2>8, NextCases
<1>2. CASE UNCHANGED vars
  BY <1>2 DEF vars, Owned, Held, Batch
<1> QED
  BY <1>1, <1>2

\* No queue and no running prompt share a message with another or with what
\* was handed over, whatever is dropped or cleared while a run is under way.
THEOREM OwnedInvariance == Spec => []Owned
<1>1. Init => Owned
  BY OwnedInit
<1>2. Shape /\ Owned /\ [Next]_vars => Owned'
  BY OwnedNext
<1> QED
  BY <1>1, <1>2, ShapeInvariance, PTL DEF Spec

\* The prompt of a message is part of at most one followup run that succeeds,
\* with every race of the callers and every drop policy.
THEOREM HandedOnce == Spec => []FollowupAtMostOnce
<1>1. Owned => FollowupAtMostOnce
  BY DEF Owned, FollowupAtMostOnce
<1> QED
  BY <1>1, OwnedInvariance, PTL

-----------------------------------------------------------------------------
(* Without a clear during a drain *)

\* The drain that works is that of the object in the map.
Single == \A o \in Objects : drains[o].at # "stopped" => o = current

\* No drain works at first.
LEMMA SingleInit == Init => Single
BY StoppedType DEF Init, Single

\* A drain that ends leaves what waits as it is: the entry it deletes is its
\* own, and empty.
LEMMA EndKeeps ==
  ASSUME Shape, Single, NEW o \in Objects, drains[o].at # "stopped", EndDrain(o, queues[o])
  PROVE  /\ Single' /\ Waiting' = Waiting
         /\ \A p \in Objects : drains'[p].at # "run"
         /\ \A p \in Objects : queues'[p].droppedCount = queues[p].droppedCount
<1>1. o = current /\ queues[o] \in Queue /\ o # None
  BY FollowupAssumption DEF Single, Shape, TypeOK, FollowupAssumption
<1>2. /\ current' \in {current, None}
      /\ \A p \in Objects : /\ queues'[p].items = queues[p].items
                            /\ queues'[p].droppedCount = queues[p].droppedCount
      /\ \A p \in Objects : \/ p # o /\ drains'[p] = drains[p]
                            \/ p = o /\ drains'[p] = Stopped
                            \/ p = current /\ current' = current /\ drains'[p].at = "debounce"
      /\ current' # current /\ current = o => ~Pending(queues[o])
  BY <1>1, EndLemma
<1>3. \A p \in Objects : p # o => drains[p].at = "stopped"
  BY <1>1 DEF Single
<1>4. Single' /\ \A p \in Objects : drains'[p].at # "run"
  BY <1>1, <1>2, <1>3, StoppedType DEF Single
<1>5. Waiting' = Waiting
  BY <1>1, <1>2 DEF Waiting, Pending
<1> QED
  BY <1>2, <1>4, <1>5

\* Starting a drain leaves what waits as it is.
LEMMA ScheduleKeeps ==
  ASSUME Shape, Single, ScheduleDrain(current, queues, drains)
  PROVE  /\ Single' /\ Waiting' = Waiting
         /\ \A p \in Objects : drains'[p].at = "run" => drains'[p] = drains[p]
         /\ \A p \in Objects : queues'[p].droppedCount = queues[p].droppedCount
<1>1. /\ current \in Objects \union {None} /\ queues \in [Objects -> Queue]
      /\ drains \in [Objects -> Drain] /\ callback \in BOOLEAN
  BY DEF Shape, TypeOK
<1>2. Agree(queues, drains) /\ LeavesSlot(current, drains)
  BY DEF Shape, Flags, SlotLeft, Agree, LeavesSlot
<1>3. /\ current' \in {current, None}
      /\ \A o \in Objects : /\ queues'[o].items = queues[o].items
                            /\ queues'[o].droppedCount = queues[o].droppedCount
      /\ \A o \in Objects : \/ drains'[o] = drains[o]
                            \/ o = current /\ current' = current /\ drains'[o].at = "debounce"
      /\ current' # current => ~Pending(queues[current]) /\ drains[current].at = "stopped"
  BY <1>1, <1>2, ScheduleLemma
<1>4. Single'
  BY <1>3 DEF Single
<1>5. Waiting' = Waiting
  BY <1>1, <1>3, FollowupAssumption DEF Waiting, Pending, FollowupAssumption
<1> QED
  BY <1>3, <1>4, <1>5

\* A run that succeeds takes as many items off what waits as it was given.
LEMMA SucceedsKeeps ==
  ASSUME Shape, Single, NEW o \in Objects, RunSucceeds(o)
  PROVE  /\ Single' /\ o = current
         /\ Waiting' = From(Waiting, Len(drains[o].batch))
         /\ \A p \in Objects : drains'[p].at # "run"
         /\ \A p \in Objects : queues[p].droppedCount = 0 => queues'[p].droppedCount = 0
<1>1. drains[o].at = "run" /\ NextIteration(o, Shortened(o))
  BY RunSucceedsEffect
<1>2. o = current /\ o # None
  BY <1>1, FollowupAssumption DEF Single, FollowupAssumption
<1>3. /\ Shortened(o) \in Queue
      /\ Shortened(o).items = From(queues[o].items, Len(drains[o].batch))
      /\ Shortened(o).draining = queues[o].draining
      /\ queues[o].droppedCount = 0 => Shortened(o).droppedCount = 0
  BY ShortenedLemma
<1>4. /\ current' \in {current, None}
      /\ \A p \in Objects :
           /\ queues'[p].items = IF p = o THEN Shortened(o).items ELSE queues[p].items
           /\ queues'[p].droppedCount = IF p = o THEN Shortened(o).droppedCount ELSE queues[p].droppedCount
      /\ \A p \in Objects : \/ p # o /\ drains'[p] = drains[p]
                            \/ p = o /\ drains'[p].at \in {"debounce", "stopped"}
                            \/ p = current /\ current' = current /\ drains'[p].at = "debounce"
      /\ current' # current /\ current = o => ~Pending(Shortened(o))
      /\ drains'[o].at # "stopped" => current' = current
  BY <1>1, <1>3, NextIterationLemma
<1>5. \A p \in Objects : p # o => drains[p].at = "stopped"
  BY <1>2 DEF Single
<1>6. Single' /\ \A p \in Objects : drains'[p].at # "run"
  BY <1>2, <1>4, <1>5 DEF Single
<1>7. Waiting' = From(Waiting, Len(drains[o].batch))
  BY <1>2, <1>3, <1>4 DEF Waiting, Pending
<1>8. \A p \in Objects : queues[p].droppedCount = 0 => queues'[p].droppedCount = 0
  BY <1>3, <1>4
<1> QED
  BY <1>2, <1>6, <1>7, <1>8

\* Every step leaves at most the drain of the map's object.
LEMMA SingleNext ==
  ASSUME "clear in flight" \notin Races, Shape, Single, [Next]_vars
  PROVE  Single'
<1>1. CASE Next
  <2>1. ASSUME NEW d \in Deliveries, Calm(d) PROVE Single'
    <3>1. UNCHANGED <<drains, current>>
      BY <2>1, CalmLemma
    <3> QED
      BY <3>1 DEF Single
  <2>2. ASSUME NEW d \in Deliveries, FinalizeWithFollowup(d) PROVE Single'
    BY <2>2, FinalizeLemma, ScheduleKeeps
  <2>3. ASSUME NEW d \in Deliveries, NEW s \in Settings, EnqueueFollowupRun(d, s) PROVE Single'
    <3>1. /\ current' = Slot
          /\ \A p \in Objects : drains'[p] = drains[p] \/ p = Slot
      BY <2>3, EnqueueEffect DEF Refuses, Accepts
    <3>2. current # None => Slot = current
      BY SlotLemma
    <3> QED
      BY <3>1, <3>2, FollowupAssumption DEF Single, FollowupAssumption
  <2>4. ASSUME NEW o \in Objects, DrainStep(o) PROVE Single'
    <3>1. drains[o].at = "debounce" /\ (EndDrain(o, queues[o]) \/ Starts(o))
      BY <2>4, DrainStepEffect
    <3>2. CASE EndDrain(o, queues[o])
      BY <3>1, <3>2, EndKeeps
    <3>3. CASE Starts(o)
      BY <3>1, <3>3 DEF Starts, Single
    <3> QED
      BY <3>1, <3>2, <3>3
  <2>5. ASSUME NEW o \in Objects, RunSucceeds(o) PROVE Single'
    BY <2>5, SucceedsKeeps
  <2>6. ASSUME NEW o \in Objects, RunFails(o) PROVE Single'
    BY <2>6, RunFailsEffect, EndKeeps
  <2>7. ASSUME ClearSessionQueues PROVE Single'
    BY <2>7, ClearEffect DEF Single
  <2> QED
    BY <1>1, <2>1, <2>2, <2>3, <2>4, <2>5, <2>6, <2>7, NextCases
<1>2. CASE UNCHANGED vars
  BY <1>2 DEF vars, Single
<1> QED
  BY <1>1, <1>2

\* A session that is not cleared while a drain works never has two drains.
THEOREM OneDrain ==
  ASSUME "clear in flight" \notin Races
  PROVE  Spec => []NoDoubleDrain
<1>1. Init => Single
  BY SingleInit
<1>2. Shape /\ Single /\ [Next]_vars => Single'
  BY SingleNext
<1>3. Shape /\ Single => NoDoubleDrain
  BY DEF Shape, Single, NoDoubleDrain
<1> QED
  BY <1>1, <1>2, <1>3, ShapeInvariance, PTL DEF Spec

-----------------------------------------------------------------------------
(* Without overflow: nothing is lost, in the order of arrival *)

\* No queue is asked to drop a message that it has accepted.
Roomy == \A s \in Settings : s.dropPolicy = "new" \/ Cardinality(Messages) <= s.cap

\* Finitely many arrivals bring finitely many messages.
LEMMA MessagesFinite == IsFiniteSet(Messages) /\ Cardinality(Messages) \in Nat
<1> DEFINE f == [d \in Deliveries |-> MessageOf[d]]
<1>1. f \in Surjection(Deliveries, Messages)
  BY DEF Messages, Surjection
<1> HIDE DEF f
<1> QED
  BY <1>1, FS_Surjection, FS_CardinalityType, FollowupAssumption DEF FollowupAssumption

\* Different messages wait, so there is room for one that is not among them.
LEMMA RoomLemma ==
  ASSUME Shape, Owned, Roomy, NEW m, NEW s \in Settings, Accepts(m, s)
  PROVE  /\ Waiting \in Seq(Messages) /\ Len(Waiting) < s.cap
         /\ Waiting' = Append(Waiting, m)
<1>0. Slot \in Objects /\ (current # None => Slot = current) /\ Slot # None
  BY SlotLemma, FollowupAssumption DEF FollowupAssumption
<1>1. /\ Waiting \in Seq(Messages)
      /\ \A i, j \in 1..Len(Waiting) : Waiting[i] = Waiting[j] => i = j
  <2>1. CASE current = None
    <3>1. Waiting = << >> /\ Len(Waiting) = 0
      BY <2>1 DEF Waiting
    <3> QED
      BY <3>1, EmptySeq
  <2>2. CASE current # None
    <3>1. Waiting = queues[Slot].items /\ Waiting \in Seq(Messages)
      BY <1>0, <2>2, HeldAreMessages DEF Waiting
    <3> QED
      BY <1>0, <3>1 DEF Owned
  <2> QED
    BY <2>1, <2>2
<1>2. /\ m \in Messages /\ m \notin Members(Waiting) /\ (s.dropPolicy = "new" => Len(Waiting) < s.cap)
      /\ s.cap \in Nat
  BY FollowupAssumption DEF Accepts, FollowupAssumption
<1>3. Len(Waiting) \in Nat /\ \A i \in 1..Len(Waiting) : Waiting[i] # m
  <2>1. Members(Waiting) = {Waiting[i] : i \in 1..Len(Waiting)}
    BY <1>1, MembersOfSeq
  <2> QED
    BY <1>1, <1>2, <2>1, LenProperties
<1>4. Len(Waiting) + 1 <= Cardinality(Messages)
  <2> DEFINE f == [i \in 1..Len(Waiting) + 1 |-> IF i \in 1..Len(Waiting) THEN Waiting[i] ELSE m]
             n == Len(Waiting) + 1
  <2>1. n \in Nat /\ \A i \in 1..n : i \in 1..Len(Waiting) \/ i = n
    BY <1>3
  <2>2. \A i \in 1..Len(Waiting) : Waiting[i] \in Messages
    BY <1>1, ElementOfSeq
  <2>3. f \in [1..n -> Messages]
    BY <1>2, <2>2
  <2>4. \A i, j \in 1..n : f[i] = f[j] => i = j
    <3> SUFFICES ASSUME NEW i \in 1..n, NEW j \in 1..n, f[i] = f[j]
                 PROVE  i = j
      OBVIOUS
    <3>1. f[i] = (IF i \in 1..Len(Waiting) THEN Waiting[i] ELSE m)
          /\ f[j] = (IF j \in 1..Len(Waiting) THEN Waiting[j] ELSE m)
      OBVIOUS
    <3> HIDE DEF f, n
    <3> QED
      BY <1>1, <1>3, <2>1, <3>1
  <2> HIDE DEF f
  <2>5. f \in Injection(1..n, Messages)
    <3> HIDE DEF n
    <3>1. DOMAIN f = 1..n
      BY <2>3
    <3> QED
      BY <2>3, <2>4, <3>1 DEF Injection, IsInjective
  <2>6. Cardinality(1..n) <= Cardinality(Messages)
    BY <2>5, MessagesFinite, FS_Injection
  <2>7. Cardinality(1..n) = n
    <3> HIDE DEF n
    <3>1. Cardinality(1..n) = IF 1 > n THEN 0 ELSE n - 1 + 1
      BY <2>1, FS_Interval
    <3> QED
      BY <1>3, <2>1, <3>1 DEF n
  <2> QED
    BY <2>6, <2>7
<1>5. Len(Waiting) < s.cap
  BY <1>2, <1>3, <1>4, MessagesFinite DEF Roomy
<1>6. queues'[Slot].items = Append(Waiting, m) /\ current' = Slot
  <2>1. PICK n \in Nat : queues'[Slot].items = Append(From(Waiting, n), m) /\ (Len(Waiting) < s.cap => n = 0)
    BY DEF Accepts
  <2>2. From(Waiting, 0) = Waiting
    BY <1>1, FromEnds
  <2> QED
    BY <1>5, <2>1, <2>2 DEF Accepts
<1> QED
  BY <1>0, <1>1, <1>5, <1>6 DEF Waiting

\* Nothing has been dropped, a running prompt is made of the messages that
\* wait longest, and nothing is lost.
Whole ==
  /\ \A o \in Objects : queues[o].droppedCount = 0
  /\ \A o \in Objects : drains[o].at = "run" =>
       /\ drains[o].kind # "summary" /\ Len(drains[o].batch) <= Len(Waiting)
       /\ \A i \in 1..Len(drains[o].batch) : drains[o].batch[i] = Waiting[i]
  /\ NothingLost

WaitingType == Waiting \in Seq(Messages) /\ Len(Waiting) \in Nat
               /\ Members(Waiting) = {Waiting[i] : i \in 1..Len(Waiting)}

\* What waits is a list of messages, that of the map's object or none.
LEMMA WaitingLemma == ASSUME Shape PROVE WaitingType
<1>1. CASE current = None
  <2>1. Waiting = << >>
    BY <1>1 DEF Waiting
  <2>2. << >> \in Seq(Messages) /\ Len(<< >>) \in Nat
    BY EmptySeq
  <2>3. Members(<< >>) = {<< >>[i] : i \in 1..Len(<< >>)}
    BY <2>2, MembersOfSeq
  <2> QED
    BY <2>1, <2>2, <2>3 DEF WaitingType
<1>2. CASE current # None
  <2>1. current \in Objects /\ Waiting = queues[current].items
    BY <1>2 DEF Shape, TypeOK, Waiting
  <2> QED
    BY <2>1, HeldAreMessages DEF WaitingType
<1> QED
  BY <1>1, <1>2

\* What waits and what was accepted stay.
LEMMA WholeKept ==
  ASSUME Whole, Waiting' = Waiting, UNCHANGED <<accepted, handed, removed>>,
         \A p \in Objects : drains'[p].at = "run" => drains'[p] = drains[p],
         \A p \in Objects : queues'[p].droppedCount = queues[p].droppedCount
                            \/ queues'[p].droppedCount = 0
  PROVE  Whole'
<1>1. NothingLost'
  BY DEF Whole, NothingLost
<1>2. ASSUME NEW p \in Objects, drains'[p].at = "run"
      PROVE  /\ drains'[p].kind # "summary" /\ Len(drains'[p].batch) <= Len(Waiting')
             /\ \A i \in 1..Len(drains'[p].batch) : drains'[p].batch[i] = Waiting'[i]
  BY <1>2 DEF Whole
<1> QED
  BY <1>1, <1>2 DEF Whole

\* Nothing is lost at first.
LEMMA WholeInit == Init => Whole
<1> SUFFICES ASSUME Init PROVE Whole
  OBVIOUS
<1>1. (CHOOSE s \in Settings : TRUE) \in Settings
  BY FollowupAssumption DEF FollowupAssumption
<1>2. \A o \in Objects : queues[o].droppedCount = 0 /\ drains[o].at = "stopped"
  BY <1>1, FreshType, StoppedType DEF Init
<1>3. Members(accepted) = {}
  BY DEF Init, Members
<1> QED
  BY <1>2, <1>3 DEF Whole, NothingLost

\* What a step does to the service: nothing, one more message, the oldest ones
\* handed over, or a clear.
Done == {m \in Messages : handed[m] > 0}
Moves ==
  \/ Waiting' = Waiting /\ Done' = Done
  \/ \E m \in Messages : /\ m \notin Done /\ m \notin Members(Waiting)
                         /\ Waiting' = Append(Waiting, m) /\ Done' = Done
  \/ \E n \in 1..Len(Waiting) : /\ Waiting' = From(Waiting, n)
                                /\ Done' = Done \union {Waiting[i] : i \in 1..n}
  \/ Waiting' = << >> /\ Done' = Done

\* A message is accepted at the end of what waits.
LEMMA WholeAccepts ==
  ASSUME Shape, Owned, Whole, Roomy, Single, Single', Shape', NEW m, NEW s \in Settings, Accepts(m, s)
  PROVE  Whole' /\ Moves
<1>1. /\ Waiting \in Seq(Messages) /\ Len(Waiting) < s.cap /\ Waiting' = Append(Waiting, m)
  BY RoomLemma
<1>2. /\ m \in Messages /\ m \notin recent /\ m \notin Members(Waiting)
      /\ accepted' = Append(accepted, m) /\ handed' = handed /\ removed \subseteq removed'
      /\ \A p \in Objects : drains'[p].at = "run" => drains'[p] = drains[p]
  BY DEF Accepts
<1>3. /\ Members(Waiting') = Members(Waiting) \union {m}
      /\ Len(Waiting') = Len(Waiting) + 1 /\ Len(Waiting) \in Nat
      /\ \A i \in 1..Len(Waiting) : Waiting'[i] = Waiting[i]
  BY <1>1, <1>2, AppendLemma, LenProperties
<1>4. Members(accepted') = Members(accepted) \union {m}
  BY <1>2, AppendLemma DEF Shape, TypeOK
<1>5. NothingLost'
  BY <1>2, <1>3, <1>4 DEF Whole, NothingLost
<1>6. ASSUME NEW p \in Objects PROVE queues'[p].droppedCount = 0
  <2>1. CASE p # Slot
    BY <2>1 DEF Accepts, Whole
  <2>2. CASE p = Slot
    <3>1. queues'[Slot].droppedCount = IF current = None THEN 0 ELSE queues[current].droppedCount
      BY <1>1 DEF Accepts
    <3>2. current # None => current \in Objects
      BY DEF Shape, TypeOK
    <3> QED
      BY <2>2, <3>1, <3>2 DEF Whole
  <2> QED
    BY <2>1, <2>2
<1>7. ASSUME NEW p \in Objects, drains'[p].at = "run"
      PROVE  /\ drains'[p].kind # "summary" /\ Len(drains'[p].batch) <= Len(Waiting')
             /\ \A i \in 1..Len(drains'[p].batch) : drains'[p].batch[i] = Waiting'[i]
  <2>1. /\ drains'[p] = drains[p] /\ drains[p].kind # "summary"
        /\ Len(drains[p].batch) <= Len(Waiting) /\ Len(drains[p].batch) \in Nat
        /\ \A i \in 1..Len(drains[p].batch) : drains[p].batch[i] = Waiting[i]
    BY <1>2, <1>7, HeldAreMessages DEF Whole
  <2> QED
    BY <1>3, <2>1
<1>8. Whole'
  BY <1>5, <1>6, <1>7 DEF Whole
<1>9. m \notin Done /\ Done' = Done
  BY <1>2 DEF Owned, Done
<1> QED
  BY <1>1, <1>2, <1>8, <1>9 DEF Moves

\* What leaves the queue is what was handed over.
LEMMA WholeSucceeds ==
  ASSUME Shape, Owned, Whole, Single, NEW o \in Objects, RunSucceeds(o)
  PROVE  Whole' /\ Moves
<1>1. /\ UNCHANGED <<accepted, removed>> /\ drains[o].at = "run"
      /\ handed' = [m \in Messages |->
                     IF drains[o].kind # "summary" /\ m \in Members(drains[o].batch)
                       THEN handed[m] + 1 ELSE handed[m]]
  BY RunSucceedsEffect
<1>2. /\ Waiting' = From(Waiting, Len(drains[o].batch))
      /\ \A p \in Objects : drains'[p].at # "run"
      /\ \A p \in Objects : queues[p].droppedCount = 0 => queues'[p].droppedCount = 0
  BY SucceedsKeeps
<1> DEFINE b == drains[o].batch
           n == Len(b)
<1>3. /\ drains[o].kind # "summary" /\ n <= Len(Waiting)
      /\ \A i \in 1..n : b[i] = Waiting[i]
  BY <1>1 DEF Whole
<1>4. n \in Nat /\ Members(b) = {b[i] : i \in 1..n} /\ Members(b) \subseteq Messages
  BY HeldAreMessages
<1>5. /\ Waiting \in Seq(Messages) /\ Len(Waiting) \in Nat
      /\ Members(Waiting) = {Waiting[i] : i \in 1..Len(Waiting)}
  BY WaitingLemma DEF WaitingType
<1>6. Members(b) = {Waiting[i] : i \in 1..n}
  BY <1>3, <1>4
<1>7. /\ Waiting' \in Seq(Messages) /\ Len(Waiting') = Len(Waiting) - n
      /\ \A i \in 1..Len(Waiting') : Waiting'[i] = Waiting[n + i]
  <2>1. /\ From(Waiting, n) \in Seq(Messages)
        /\ Len(From(Waiting, n)) = Len(Waiting) - n
        /\ \A i \in 1..Len(From(Waiting, n)) : From(Waiting, n)[i] = Waiting[n + i]
    BY <1>3, <1>4, <1>5, FromLemma
  <2> QED
    BY <1>2, <2>1
<1>8. Members(Waiting') = {Waiting'[i] : i \in 1..Len(Waiting')}
  BY <1>7, MembersOfSeq
<1>9. handed \in [Messages -> Nat]
  BY DEF Shape, TypeOK
<1> HIDE DEF b, n
<1>10. \A m \in Members(Waiting) : m \in Members(b) \/ m \in Members(Waiting')
  <2> SUFFICES ASSUME NEW i \in 1..Len(Waiting) PROVE Waiting[i] \in Members(b) \/ Waiting[i] \in Members(Waiting')
    BY <1>5
  <2>1. CASE i <= n
    <3>1. i \in 1..n
      BY <1>4, <1>5, <2>1
    <3> QED
      BY <1>6, <3>1
  <2>2. CASE i > n
    <3>1. i - n \in 1..Len(Waiting') /\ n + (i - n) = i
      BY <1>3, <1>4, <1>5, <1>7, <2>2
    <3> QED
      BY <1>7, <1>8, <3>1
  <2> QED
    BY <1>4, <1>5, <2>1, <2>2
<1>11. \A m \in Messages : handed'[m] = IF m \in Members(b) THEN handed[m] + 1 ELSE handed[m]
  BY <1>1, <1>3 DEF b
<1>12. Done' = Done \union Members(b)
  BY <1>4, <1>9, <1>11 DEF Done
<1>13. NothingLost'
  <2> SUFFICES ASSUME NEW m \in Members(accepted)
               PROVE  handed'[m] > 0 \/ m \in removed \/ m \in Members(Waiting')
    BY <1>1 DEF NothingLost
  <2>1. m \in Messages
    BY MembersOfSeq DEF Shape, TypeOK
  <2>2. handed[m] > 0 \/ m \in removed \/ m \in Members(Waiting)
    BY DEF Whole, NothingLost
  <2> QED
    BY <1>9, <1>10, <1>11, <2>1, <2>2
<1>14. Whole'
  BY <1>2, <1>13 DEF Whole
<1>15. Moves
  <2>1. CASE n = 0
    <3>1. Waiting' = Waiting
      BY <1>2, <1>5, <2>1, FromEnds DEF n, b
    <3>2. Members(b) = {}
      BY <1>4, <2>1
    <3> QED
      BY <1>12, <3>1, <3>2 DEF Moves
  <2>2. CASE n # 0
    <3>1. n \in 1..Len(Waiting)
      BY <1>3, <1>4, <1>5, <2>2
    <3>2. Waiting' = From(Waiting, n) /\ Done' = Done \union {Waiting[i] : i \in 1..n}
      BY <1>2, <1>6, <1>12 DEF n, b
    <3> QED
      BY <3>1, <3>2 DEF Moves
  <2> QED
    BY <2>1, <2>2
<1> QED
  BY <1>14, <1>15

\* A clear takes everything out on purpose.
LEMMA WholeClear ==
  ASSUME "clear in flight" \notin Races, Shape, Whole, ClearSessionQueues
  PROVE  Whole' /\ Moves
<1>1. /\ current' = None /\ UNCHANGED <<drains, accepted, handed>>
      /\ \A o \in Objects : drains[o].at = "stopped"
      /\ removed' = removed \union Members(Waiting)
      /\ \A o \in Objects : queues'[o].droppedCount = queues[o].droppedCount
                            \/ queues'[o].droppedCount = 0
  BY ClearEffect DEF Quiet
<1>2. Waiting' = << >>
  BY <1>1 DEF Waiting
<1>3. NothingLost'
  BY <1>1 DEF Whole, NothingLost
<1> QED
  BY <1>1, <1>2, <1>3 DEF Whole, Moves, Done

\* A count of zero is not positive.
LEMMA ZeroLemma == \A n : n = 0 => ~(n > 0)
OBVIOUS

\* Every step keeps the queue whole and moves the service at most once.
LEMMA WholeNext ==
  ASSUME "clear in flight" \notin Races, Roomy, Shape, Owned, Single, Whole, [Next]_vars
  PROVE  Whole' /\ Moves
<1>0. Shape' /\ Single'
  BY ShapeNext, SingleNext
<1>1. CASE Next
  <2>0. ASSUME Waiting' = Waiting, UNCHANGED <<accepted, handed, removed>>,
               \A p \in Objects : drains'[p].at = "run" => drains'[p] = drains[p],
               \A p \in Objects : queues'[p].droppedCount = queues[p].droppedCount
                                  \/ queues'[p].droppedCount = 0
        PROVE  Whole' /\ Moves
    BY <2>0, WholeKept DEF Moves, Done
  <2>1. ASSUME NEW d \in Deliveries, Calm(d) PROVE Whole' /\ Moves
    <3>1. UNCHANGED <<current, queues, drains, accepted, handed, removed>>
      BY <2>1, CalmLemma DEF history
    <3> QED
      BY <2>0, <3>1 DEF Waiting
  <2>2. ASSUME NEW d \in Deliveries, FinalizeWithFollowup(d) PROVE Whole' /\ Moves
    <3>1. UNCHANGED <<accepted, handed, removed>> /\ ScheduleDrain(current, queues, drains)
      BY <2>2, FinalizeLemma DEF history
    <3> QED
      BY <2>0, <3>1, ScheduleKeeps
  <2>3. ASSUME NEW d \in Deliveries, NEW s \in Settings, EnqueueFollowupRun(d, s)
        PROVE  Whole' /\ Moves
    <3>1. CASE Refuses
      <4>1. /\ Waiting' = Waiting /\ UNCHANGED <<drains, accepted, handed, removed>>
            /\ \A p \in Objects : queues'[p].droppedCount = queues[p].droppedCount
                                  \/ queues'[p].droppedCount = 0
        BY <3>1 DEF Refuses, Quiet
      <4> QED
        BY <2>0, <4>1
    <3>2. CASE Accepts(MessageOf[d], s)
      BY <1>0, <3>2, WholeAccepts
    <3> QED
      BY <2>3, <3>1, <3>2, EnqueueEffect
  <2>4. ASSUME NEW o \in Objects, DrainStep(o) PROVE Whole' /\ Moves
    <3>1. /\ UNCHANGED <<accepted, handed, removed>> /\ drains[o].at = "debounce"
          /\ EndDrain(o, queues[o]) \/ Starts(o)
      BY <2>4, DrainStepEffect DEF history
    <3>2. CASE EndDrain(o, queues[o])
      <4>1. /\ Waiting' = Waiting /\ \A p \in Objects : drains'[p].at # "run"
            /\ \A p \in Objects : queues'[p].droppedCount = queues[p].droppedCount
        BY <3>1, <3>2, EndKeeps
      <4> QED
        BY <2>0, <3>1, <4>1
    <3>3. CASE Starts(o)
      <4>1. /\ UNCHANGED <<current, queues>>
            /\ \A p \in Objects : p # o => drains'[p] = drains[p]
            /\ Len(drains'[o].batch) <= Len(queues[o].items)
            /\ \A i \in 1..Len(drains'[o].batch) : drains'[o].batch[i] = queues[o].items[i]
            /\ drains'[o].kind = "summary" => HasSummary(queues[o])
        BY <3>3 DEF Starts
      <4>2. o = current /\ o # None
        BY <3>1, FollowupAssumption DEF Single, FollowupAssumption
      <4>3. Waiting = queues[o].items /\ Waiting' = Waiting
        BY <4>1, <4>2 DEF Waiting
      <4>4. drains'[o].kind # "summary"
        <5>1. queues[o].droppedCount = 0
          BY DEF Whole
        <5>2. ~HasSummary(queues[o])
          BY <5>1, ZeroLemma DEF HasSummary
        <5> QED
          BY <4>1, <5>2
      <4>5. NothingLost'
        BY <3>1, <4>3 DEF Whole, NothingLost
      <4>6. ASSUME NEW p \in Objects, drains'[p].at = "run"
            PROVE  /\ drains'[p].kind # "summary" /\ Len(drains'[p].batch) <= Len(Waiting')
                   /\ \A i \in 1..Len(drains'[p].batch) : drains'[p].batch[i] = Waiting'[i]
        <5>1. CASE p = o
          BY <4>1, <4>3, <4>4, <5>1
        <5>2. CASE p # o
          <6>1. drains'[p] = drains[p] /\ drains[p].at = "run"
            BY <4>1, <4>6, <5>2
          <6>2. /\ drains[p].kind # "summary" /\ Len(drains[p].batch) <= Len(Waiting)
                /\ \A i \in 1..Len(drains[p].batch) : drains[p].batch[i] = Waiting[i]
            BY <6>1 DEF Whole
          <6> QED
            BY <4>3, <6>1, <6>2
        <5> QED
          BY <5>1, <5>2
      <4>7. Whole'
        BY <4>1, <4>5, <4>6 DEF Whole
      <4> QED
        BY <3>1, <4>3, <4>7 DEF Moves, Done
    <3> QED
      BY <3>1, <3>2, <3>3
  <2>5. ASSUME NEW o \in Objects, RunSucceeds(o) PROVE Whole' /\ Moves
    BY <2>5, WholeSucceeds
  <2>6. ASSUME NEW o \in Objects, RunFails(o) PROVE Whole' /\ Moves
    <3>1. /\ UNCHANGED <<accepted, handed, removed>> /\ drains[o].at = "run"
          /\ EndDrain(o, queues[o])
      BY <2>6, RunFailsEffect DEF history
    <3>2. /\ Waiting' = Waiting /\ \A p \in Objects : drains'[p].at # "run"
          /\ \A p \in Objects : queues'[p].droppedCount = queues[p].droppedCount
      BY <3>1, EndKeeps
    <3> QED
      BY <2>0, <3>1, <3>2
  <2>7. ASSUME ClearSessionQueues PROVE Whole' /\ Moves
    BY <2>7, WholeClear
  <2> QED
    BY <1>1, <2>1, <2>2, <2>3, <2>4, <2>5, <2>6, <2>7, NextCases
<1>2. CASE UNCHANGED vars
  <2>1. UNCHANGED <<current, queues, drains, accepted, handed, removed>>
    BY <1>2 DEF vars
  <2>2. Waiting' = Waiting
    BY <2>1 DEF Waiting
  <2> QED
    BY <2>1, <2>2, WholeKept DEF Moves, Done
<1> QED
  BY <1>1, <1>2

\* A message that was enqueued has reached a followup run, was taken out by a
\* clear, or waits in the queue that the session has now, as long as nothing
\* overflows and no drain is cleared under way.
THEOREM NothingIsLost ==
  ASSUME "clear in flight" \notin Races, Roomy
  PROVE  Spec => []NothingLost
<1>1. Init => Single /\ Whole
  BY SingleInit, WholeInit
<1>2. Shape /\ Owned /\ Single /\ Whole /\ [Next]_vars => Single' /\ Whole'
  BY SingleNext, WholeNext
<1>3. Whole => NothingLost
  BY DEF Whole
<1> QED
  BY <1>1, <1>2, <1>3, ShapeInvariance, OwnedInvariance, PTL DEF Spec

\* Every move is one of the service's, or none.
LEMMA MovesServe ==
  ASSUME Shape, Moves
  PROVE  [Service!Next]_Service!vars
<1>1. WaitingType
  BY WaitingLemma
<1>2. DOMAIN Waiting = 1..Len(Waiting)
  BY <1>1, LenProperties DEF WaitingType
<1>3. CASE Waiting' = Waiting /\ Done' = Done
  BY <1>3 DEF Done, Service!vars
<1>4. ASSUME NEW m \in Messages, m \notin Done, m \notin Members(Waiting),
             Waiting' = Append(Waiting, m), Done' = Done
      PROVE  Service!Next
  <2>1. Service!Accept(m)
    BY <1>1, <1>2, <1>4 DEF Done, WaitingType, Service!Accept, Service!Waits
  <2> QED
    BY <2>1 DEF Service!Next
<1>5. ASSUME NEW n \in 1..Len(Waiting), Waiting' = From(Waiting, n),
             Done' = Done \union {Waiting[i] : i \in 1..n}
      PROVE  Service!Next
  <2>1. Service!Hand(n)
    BY <1>5 DEF Done, From, Service!Hand
  <2> QED
    BY <1>2, <2>1 DEF Service!Next
<1>6. CASE Waiting' = << >> /\ Done' = Done
  <2>1. Service!Clear
    BY <1>6 DEF Done, Service!Clear
  <2> QED
    BY <2>1 DEF Service!Next
<1> QED
  BY <1>3, <1>4, <1>5, <1>6 DEF Moves

\* The queue of a session, whose drains, settings and map entries come and go,
\* is one first-in first-out service.
THEOREM ServesInOrder ==
  ASSUME "clear in flight" \notin Races, Roomy
  PROVE  Spec => ImplementsService
<1>1. Init => Single /\ Whole
  BY SingleInit, WholeInit
<1>2. Shape /\ Owned /\ Single /\ Whole /\ [Next]_vars => Single' /\ Whole'
  BY SingleNext, WholeNext
<1>3. Init => Service!Init
  <2> SUFFICES ASSUME Init PROVE Service!Init
    OBVIOUS
  <2>1. Waiting = << >>
    BY DEF Init, Waiting
  <2>2. \A m \in Messages : ~(handed[m] > 0)
    <3>1. \A m \in Messages : handed[m] = 0
      BY DEF Init
    <3> QED
      BY <3>1, ZeroLemma
  <2>3. {m \in Messages : handed[m] > 0} = {}
    BY <2>2
  <2> QED
    BY <2>1, <2>3 DEF Service!Init
<1>4. Shape /\ Owned /\ Single /\ Whole /\ [Next]_vars => [Service!Next]_Service!vars
  BY WholeNext, MovesServe
<1> QED
  BY <1>1, <1>2, <1>3, <1>4, ShapeInvariance, OwnedInvariance, PTL DEF Spec, ImplementsService, Service!Spec

=============================================================================
