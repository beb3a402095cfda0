---------------------------- MODULE LaneService -----------------------------
(***************************************************************************)
(* What the command queue promises to the code that uses it, without       *)
(* pumps, flags, generations or a call stack: lanes of waiting entries,    *)
(* started first come first served when the lane has a free slot.          *)
(***************************************************************************)
EXTENDS Integers, Sequences, FiniteSets

CONSTANTS Lanes, Tasks, MaxConcurrency

VARIABLES
  closed,   \* new entries are refused
  waiting,  \* lane -> entries that have not been started, oldest first
  running,  \* lane -> entries that hold a slot
  limit,    \* lane -> number of slots
  outcome   \* entry -> what its caller knows

vars == <<closed, waiting, running, limit, outcome>>

Waits(t) == \E l \in Lanes : \E i \in DOMAIN waiting[l] : waiting[l][i] = t
HoldsSlot(t) == \E l \in Lanes : t \in running[l]

Init ==
  /\ closed = FALSE
  /\ waiting = [l \in Lanes |-> <<>>]
  /\ running = [l \in Lanes |-> {}]
  /\ limit = [l \in Lanes |-> 1]
  /\ outcome = [t \in Tasks |-> "none"]

Submit(t, l) ==
  /\ outcome[t] = "none"
  /\ ~closed
  /\ outcome' = [outcome EXCEPT ![t] = "pending"]
  /\ waiting' = [waiting EXCEPT ![l] = Append(@, t)]
  /\ UNCHANGED <<closed, running, limit>>

Refuse(t) ==
  /\ outcome[t] = "none"
  /\ closed
  /\ outcome' = [outcome EXCEPT ![t] = "refused"]
  /\ UNCHANGED <<closed, waiting, running, limit>>

\* The oldest entry takes a free slot; it is started once.
Start(l) ==
  /\ waiting[l] # <<>>
  /\ Cardinality(running[l]) < limit[l]
  /\ ~HoldsSlot(Head(waiting[l]))
  /\ running' = [running EXCEPT ![l] = @ \union {Head(waiting[l])}]
  /\ waiting' = [waiting EXCEPT ![l] = Tail(@)]
  /\ UNCHANGED <<closed, limit, outcome>>

\* A started entry settles and frees the slot it still holds, if any.
Finish(t) ==
  /\ outcome[t] = "pending"
  /\ ~Waits(t)
  /\ \E o \in {"resolved", "rejected"} : outcome' = [outcome EXCEPT ![t] = o]
  /\ running' = [l \in Lanes |-> running[l] \ {t}]
  /\ UNCHANGED <<closed, waiting, limit>>

\* Only entries that wait can be cleared.
Clear(l) ==
  /\ waiting[l] # <<>>
  /\ waiting' = [waiting EXCEPT ![l] = <<>>]
  /\ outcome' = [t \in Tasks |-> IF \E i \in DOMAIN waiting[l] : waiting[l][i] = t
                                   THEN "cleared" ELSE outcome[t]]
  /\ UNCHANGED <<closed, running, limit>>

SetLimit(l, n) ==
  /\ limit' = [limit EXCEPT ![l] = n]
  /\ UNCHANGED <<closed, waiting, running, outcome>>

Close ==
  /\ closed' = TRUE
  /\ UNCHANGED <<waiting, running, limit, outcome>>

\* A restart reopens the service and takes every slot back; what waits stays.
Reset ==
  /\ closed' = FALSE
  /\ running' = [l \in Lanes |-> {}]
  /\ UNCHANGED <<waiting, limit, outcome>>

Next ==
  \/ \E t \in Tasks : Refuse(t) \/ Finish(t)
  \/ \E t \in Tasks, l \in Lanes : Submit(t, l)
  \/ \E l \in Lanes : Start(l) \/ Clear(l)
  \/ \E l \in Lanes, n \in 1..MaxConcurrency : SetLimit(l, n)
  \/ Close
  \/ Reset

Spec == Init /\ [][Next]_vars

\* An entry does not wait in front of a free slot.
FairSpec == Spec /\ \A l \in Lanes : WF_vars(Start(l))

=============================================================================
