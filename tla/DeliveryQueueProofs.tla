------------------------ MODULE DeliveryQueueProofs -------------------------
(***************************************************************************)
(* Proofs about DeliveryQueue, for any number of deliveries, payloads,     *)
(* retries and crashes.                                                    *)
(***************************************************************************)
EXTENDS DeliveryQueue, TLAPS

\* What an actor knows of a strict delivery at each point of its attempt.
\* While it sends, everything before `next` is through; when it goes on to
\* acknowledge, everything is, or the caller has aborted the delivery.
AttemptInv ==
  \A w \in Actors, d \in Deliveries :
    kind[d] = "strict" =>
      /\ IsAt(w, d, "send") =>
           \A i \in 1..Parts[d] : i < attempt[w][d].next => i \in sent[d]
      /\ IsAt(w, d, "ack") => d \in aborted \/ Complete(d)

IInv == TypeOK /\ AttemptInv /\ NothingForgotten

-----------------------------------------------------------------------------
(* Type correctness *)

Attempts == [Actors -> [Deliveries -> Attempt]]

\* An attempt replaced by an attempt.
LEMMA PutType ==
  ASSUME attempt \in Attempts, NEW w \in Actors, NEW d \in Deliveries,
         NEW a \in Attempt, Put(w, d, a)
  PROVE  attempt' \in Attempts
BY DEF Put, Attempts

\* An attempt sent to another step.
LEMMA GoToType ==
  ASSUME attempt \in Attempts, NEW w \in Actors, NEW d \in Deliveries,
         NEW step \in Steps, GoTo(w, d, step)
  PROVE  attempt' \in Attempts
<1>1. attempt[w][d] \in Attempt
  BY DEF Attempts
<1>2. [attempt[w][d] EXCEPT !.at = step] \in Attempt
  BY <1>1 DEF Attempt
<1> QED BY <1>2, PutType DEF GoTo

\* An attempt after one more payload.
LEMMA NextType ==
  ASSUME NEW a \in Attempt, NEW partial \in BOOLEAN
  PROVE  [a EXCEPT !.next = @ + 1, !.partial = partial] \in Attempt
<1>1. a.next + 1 \in Nat \ {0}
  BY DEF Attempt
<1>2. \A n \in Nat \ {0} : [a EXCEPT !.next = n, !.partial = partial] \in Attempt
  BY Zenon DEF Attempt
<1> QED BY <1>1, <1>2

\* A delivery has at most Payloads payloads.
LEMMA PartsBounded ==
  \A d \in Deliveries : Parts[d] \in Nat /\ \A i \in Nat : i <= Parts[d] => i <= Payloads
BY DeliveryAssumption

\* An attempt begins at any step.
LEMMA AtType == \A step \in Steps : At(step) \in Attempt
BY DEF At, Attempt

\* The queue directory starts empty and every delivery is new.
LEMMA TypeInit == Init => TypeOK
<1> SUFFICES ASSUME Init PROVE TypeOK
  OBVIOUS
<1>1. attempt \in Attempts
  BY AtType DEF Init, Attempts, Steps
<1>2. NewEntry \in Entry
  BY DEF NewEntry, Entry
<1>3. kind \in [Deliveries -> AllKinds] /\ crashes \in 0..MaxCrashes
  BY DeliveryAssumption DEF Init
<1>4. sent \in [Deliveries -> SUBSET (1..Payloads)] /\ tries \in [Deliveries -> Nat]
  BY DEF Init
<1>5. json \in [Deliveries -> Entry \union {NoFile}] /\ loaded \in [Deliveries -> Entry]
  BY <1>2 DEF Init
<1> QED BY <1>1, <1>3, <1>4, <1>5 DEF Init, TypeOK, Attempts

\* No step of a caller, of recovery or of the file system leaves the types.
LEMMA TypeStep == TypeOK /\ [Next]_vars => TypeOK'
<1> SUFFICES ASSUME TypeOK, [Next]_vars PROVE TypeOK'
  OBVIOUS
<1> USE DEF TypeOK, disk, scan, Actors, Attempts
<1>1. CASE UNCHANGED vars
  BY <1>1 DEF vars
<1>2. ASSUME NEW d \in Deliveries, Deliver(d) PROVE TypeOK'
  BY <1>2, GoToType DEF Deliver, Steps
<1>3. ASSUME NEW d \in Deliveries, EnqueueDelivery(d) PROVE TypeOK'
  BY <1>3, AtType, PutType DEF EnqueueDelivery, Steps, NewEntry, Entry
<1>4. ASSUME NEW d \in Deliveries, EnqueueFails(d) PROVE TypeOK'
  BY <1>4, GoToType DEF EnqueueFails, Steps
<1>5. ASSUME NEW d \in Deliveries, Abort(d) PROVE TypeOK'
  BY <1>5, GoToType DEF Abort, Steps
<1>6. ASSUME NEW d \in Deliveries, NEW w \in Actors, Send(w, d) PROVE TypeOK'
  <2> DEFINE a == attempt[w][d]
  <2>1. a \in Attempt
    OBVIOUS
  <2>2. sent' \in [Deliveries -> SUBSET (1..Payloads)]
    <3>1. a.next \in 1..Payloads
      BY <1>6, <2>1, PartsBounded DEF Send, Sending, Attempt
    <3>2. sent' = [sent EXCEPT ![d] = sent[d] \union {a.next}]
      BY <1>6 DEF Send
    <3> QED BY <3>1, <3>2
  <2>3. attempt' \in Attempts
    <3>1. a.next + 1 \in Nat \ {0}
      BY <2>1 DEF Attempt
    <3>2. [a EXCEPT !.next = a.next + 1] \in Attempt
      BY <2>1, <3>1, Zenon DEF Attempt
    <3> QED BY <1>6, <3>2, PutType DEF Send
  <2> QED BY <1>6, <2>2, <2>3 DEF Send
<1>7. ASSUME NEW d \in Deliveries, NEW w \in Actors, PassOver(w, d) PROVE TypeOK'
  <2>1. attempt' \in Attempts
    <3> DEFINE partial == attempt[w][d].partial
                          \/ (w = "live" /\ kind[d] = "best effort, onError")
    <3>1. attempt[w][d] \in Attempt
      OBVIOUS
    <3>2. partial \in BOOLEAN
      BY <3>1 DEF Attempt
    <3>3. [attempt[w][d] EXCEPT !.next = @ + 1, !.partial = partial] \in Attempt
      BY <3>1, <3>2, NextType
    <3> QED BY <1>7, <3>3, PutType DEF PassOver
  <2> QED BY <1>7, <2>1 DEF PassOver
<1>8. ASSUME NEW d \in Deliveries, NEW w \in Actors, SendFails(w, d) PROVE TypeOK'
  BY <1>8, GoToType DEF SendFails, Steps
<1>9. ASSUME NEW d \in Deliveries, NEW w \in Actors, AllSent(w, d) PROVE TypeOK'
  BY <1>9, GoToType DEF AllSent, Steps
<1>10. ASSUME NEW d \in Deliveries, NEW w \in Actors, MarkDelivered(w, d) PROVE TypeOK'
  BY <1>10, GoToType DEF MarkDelivered, Steps
<1>11. ASSUME NEW d \in Deliveries, NEW w \in Actors, RemoveMarker(w, d) PROVE TypeOK'
  BY <1>11, GoToType DEF RemoveMarker, Steps
<1>12. ASSUME NEW d \in Deliveries, NEW w \in Actors, ReadEntry(w, d) PROVE TypeOK'
  <2>1. OnDisk(d) => json[d].retryCount \in Nat
    BY DEF OnDisk, Entry
  <2>2. attempt' \in Attempts
    <3>1. attempt[w][d] \in Attempt
      OBVIOUS
    <3>2. CASE OnDisk(d)
      <4>1. [attempt[w][d] EXCEPT !.at = "rewrite", !.retryCount = json[d].retryCount] \in Attempt
        BY <2>1, <3>1, <3>2 DEF Attempt, Steps
      <4> QED BY <1>12, <3>2, <4>1, PutType DEF ReadEntry
    <3>3. CASE ~OnDisk(d)
      BY <1>12, <3>3, GoToType DEF ReadEntry, Steps
    <3> QED BY <3>2, <3>3
  <2> QED BY <1>12, <2>2 DEF ReadEntry
<1>13. ASSUME NEW d \in Deliveries, NEW w \in Actors, RewriteEntry(w, d) PROVE TypeOK'
  <2>1. attempt[w][d].retryCount + 1 \in Nat
    BY DEF Attempt
  <2>2. json' \in [Deliveries -> Entry \union {NoFile}]
    BY <1>13, <2>1 DEF RewriteEntry, Entry
  <2> QED BY <1>13, <2>2, GoToType DEF RewriteEntry, Steps
<1>14. ASSUME NEW d \in Deliveries, MoveToFailed(d) PROVE TypeOK'
  BY <1>14, GoToType DEF MoveToFailed, Steps
<1>15. ASSUME NEW d \in Deliveries, RecoverEntry(d) PROVE TypeOK'
  <2>1. attempt' \in Attempts
    BY <1>15, GoToType, AtType, PutType DEF RecoverEntry, Steps
  <2>2. todo' \in SUBSET Deliveries /\ tried' \in BOOLEAN
    BY <1>15 DEF RecoverEntry
  <2>3. tries' \in [Deliveries -> Nat]
    BY <1>15 DEF RecoverEntry
  <2> QED BY <1>15, <2>1, <2>2, <2>3 DEF RecoverEntry
<1>16. ASSUME NEW d \in Deliveries, BackoffElapses(d) PROVE TypeOK'
  <2>1. json[d] \in Entry /\ loaded[d] \in Entry
    BY <1>16 DEF BackoffElapses, OnDisk
  <2>2. [json[d] EXCEPT !.cooling = FALSE] \in Entry /\ [loaded[d] EXCEPT !.cooling = FALSE] \in Entry
    BY <2>1 DEF Entry
  <2>3. json' = [json EXCEPT ![d] = [json[d] EXCEPT !.cooling = FALSE]]
        /\ loaded' = [loaded EXCEPT ![d] = [loaded[d] EXCEPT !.cooling = FALSE]]
    BY <1>16 DEF BackoffElapses
  <2>4. json' \in [Deliveries -> Entry \union {NoFile}] /\ loaded' \in [Deliveries -> Entry]
    BY <2>2, <2>3
  <2> QED BY <1>16, <2>4 DEF BackoffElapses
<1>17. CASE StartRecovery
  BY <1>17 DEF StartRecovery, OnDisk, NewEntry, Entry
<1>18. CASE RecoveryBudgetExceeded
  BY <1>18 DEF RecoveryBudgetExceeded
<1>19. CASE Crash
  <2>1. attempt' \in Attempts
    BY <1>19, AtType DEF Crash, Steps
  <2> QED BY <1>19, <2>1, DeliveryAssumption DEF Crash
<1> QED
  BY <1>1, <1>2, <1>3, <1>4, <1>5, <1>6, <1>7, <1>8, <1>9, <1>10, <1>11, <1>12,
     <1>13, <1>14, <1>15, <1>16, <1>17, <1>18, <1>19 DEF Next, LiveStep, Progress

-----------------------------------------------------------------------------
(* Nothing is forgotten *)

\* Payloads that have been sent stay sent.
LEMMA CompleteStays ==
  ASSUME TypeOK, NEW w \in Actors, NEW e \in Deliveries, Send(w, e),
         NEW d \in Deliveries
  PROVE  sent[d] \subseteq sent'[d]
BY DEF Send, TypeOK

\* At first no attempt has begun.
LEMMA AttemptInvInit == Init => AttemptInv
BY DEF Init, AttemptInv, IsAt, At, Actors

\* A step that sends nothing and takes every attempt at most to the beginning
\* of an attempt, or to where AttemptInv promises nothing, keeps AttemptInv.
LEMMA QuietStep ==
  ASSUME TypeOK, AttemptInv, UNCHANGED <<kind, sent>>, aborted \subseteq aborted',
         \A w \in Actors, d \in Deliveries :
           \/ attempt'[w][d] = attempt[w][d]
           \/ attempt'[w][d] = At("send")
           \/ attempt'[w][d].at \notin {"send", "ack"}
  PROVE  AttemptInv'
<1> SUFFICES ASSUME NEW w \in Actors, NEW d \in Deliveries, kind[d] = "strict"
             PROVE  /\ IsAt(w, d, "send")' =>
                         \A i \in 1..Parts[d] : i < attempt'[w][d].next => i \in sent[d]
                    /\ IsAt(w, d, "ack")' => d \in aborted' \/ Complete(d)
  BY DEF AttemptInv, Complete
<1>1. CASE attempt'[w][d] = attempt[w][d]
  BY <1>1 DEF AttemptInv, IsAt
<1>2. CASE attempt'[w][d] = At("send")
  BY <1>2 DEF At, IsAt
<1>3. CASE attempt'[w][d].at \notin {"send", "ack"}
  BY <1>3 DEF IsAt
<1> QED BY <1>1, <1>2, <1>3

\* Only the attempt that is put is replaced.
LEMMA PutElsewhere ==
  ASSUME TypeOK, NEW w \in Actors, NEW d \in Deliveries, NEW a, Put(w, d, a)
  PROVE  /\ attempt'[w][d] = a
         /\ \A v \in Actors, e \in Deliveries :
              v # w \/ e # d => attempt'[v][e] = attempt[v][e]
BY DEF TypeOK, Put

\* Going on to a step where AttemptInv promises nothing.
LEMMA GoToElsewhere ==
  ASSUME TypeOK, NEW w \in Actors, NEW d \in Deliveries, NEW step, GoTo(w, d, step)
  PROVE  /\ attempt'[w][d].at = step
         /\ attempt'[w][d].next = attempt[w][d].next
         /\ \A v \in Actors, e \in Deliveries :
              v # w \/ e # d => attempt'[v][e] = attempt[v][e]
<1>1. attempt[w][d] \in Attempt
  BY DEF TypeOK
<1>2. [attempt[w][d] EXCEPT !.at = step].at = step
      /\ [attempt[w][d] EXCEPT !.at = step].next = attempt[w][d].next
  BY <1>1 DEF Attempt
<1> DEFINE a == [attempt[w][d] EXCEPT !.at = step]
<1>3. Put(w, d, a)
  BY DEF GoTo
<1> HIDE DEF a
<1>4. /\ attempt'[w][d] = a
      /\ \A v \in Actors, e \in Deliveries :
           v # w \/ e # d => attempt'[v][e] = attempt[v][e]
  BY <1>3, PutElsewhere
<1> QED BY <1>2, <1>4 DEF a

\* Whoever goes on to acknowledge a strict delivery has sent all of it, or has
\* aborted it: every step of every actor keeps that so.
LEMMA AttemptInvStep == TypeOK /\ AttemptInv /\ [Next]_vars => AttemptInv'
<1> SUFFICES ASSUME TypeOK, AttemptInv, [Next]_vars PROVE AttemptInv'
  OBVIOUS
<1> USE DEF disk, scan
<1>1. CASE UNCHANGED vars
  BY <1>1, QuietStep DEF vars
<1>2. ASSUME NEW d \in Deliveries, Deliver(d) PROVE AttemptInv'
  BY <1>2, GoToElsewhere, QuietStep DEF Deliver, Actors
<1>3. ASSUME NEW d \in Deliveries, EnqueueDelivery(d) PROVE AttemptInv'
  BY <1>3, PutElsewhere, QuietStep DEF EnqueueDelivery, Actors
<1>4. ASSUME NEW d \in Deliveries, EnqueueFails(d) PROVE AttemptInv'
  BY <1>4, GoToElsewhere, QuietStep DEF EnqueueFails, Actors
<1>5. ASSUME NEW d \in Deliveries, Abort(d) PROVE AttemptInv'
  <2>1. \A v \in Actors, e \in Deliveries :
          (v = "live" /\ e = d) \/ attempt'[v][e] = attempt[v][e]
    BY <1>5, GoToElsewhere DEF Abort, Actors
  <2>2. attempt'["live"][d].at = "ack" /\ d \in aborted'
    BY <1>5, GoToElsewhere DEF Abort, Actors
  <2>3. UNCHANGED <<kind, sent>> /\ aborted \subseteq aborted'
    BY <1>5 DEF Abort
  <2> QED BY <2>1, <2>2, <2>3 DEF AttemptInv, IsAt, Complete
<1>6. ASSUME NEW d \in Deliveries, NEW w \in Actors, Send(w, d) PROVE AttemptInv'
  <2> DEFINE n == attempt[w][d].next
  <2>1. attempt[w][d] \in Attempt /\ n \in 1..Parts[d]
    BY <1>6, PartsBounded DEF Send, Sending, TypeOK, Attempt
  <2>2. attempt'[w][d].next = n + 1 /\ attempt'[w][d].at = "send"
    <3>1. [attempt[w][d] EXCEPT !.next = n + 1].next = n + 1
          /\ [attempt[w][d] EXCEPT !.next = n + 1].at = attempt[w][d].at
      BY <2>1 DEF Attempt
    <3> QED BY <1>6, <3>1, PutElsewhere DEF Send, Sending, IsAt
  <2>3. \A v \in Actors, e \in Deliveries :
          (v = w /\ e = d) \/ attempt'[v][e] = attempt[v][e]
    BY <1>6, PutElsewhere DEF Send
  <2>4. \A e \in Deliveries : sent[e] \subseteq sent'[e]
    BY <1>6, CompleteStays
  <2>5. n \in sent'[d]
    BY <1>6 DEF Send, TypeOK
  <2>6. UNCHANGED <<kind, aborted>>
    BY <1>6 DEF Send
  <2> SUFFICES ASSUME NEW v \in Actors, NEW e \in Deliveries, kind[e] = "strict"
               PROVE  /\ IsAt(v, e, "send")' =>
                           \A i \in 1..Parts[e] : i < attempt'[v][e].next => i \in sent'[e]
                      /\ IsAt(v, e, "ack")' => e \in aborted \/ Complete(e)'
    BY <2>6 DEF AttemptInv
  <2>7. CASE v = w /\ e = d
    <3>1. \A i \in 1..Parts[d] : i < n => i \in sent[d]
      BY <1>6, <2>7 DEF AttemptInv, Send, Sending
    <3>2. \A i \in 1..Parts[d] : i < n + 1 => i < n \/ i = n
      BY <2>1, PartsBounded
    <3> QED BY <2>2, <2>4, <2>5, <2>7, <3>1, <3>2 DEF IsAt
  <2>8. CASE ~(v = w /\ e = d)
    BY <2>3, <2>4, <2>8 DEF AttemptInv, IsAt, Complete
  <2> QED BY <2>7, <2>8
<1>7. ASSUME NEW d \in Deliveries, NEW w \in Actors, PassOver(w, d) PROVE AttemptInv'
  <2>1. \A v \in Actors, e \in Deliveries :
          (v = w /\ e = d) \/ attempt'[v][e] = attempt[v][e]
    BY <1>7, PutElsewhere DEF PassOver
  <2>2. kind[d] # "strict" /\ UNCHANGED <<kind, sent, aborted>>
    BY <1>7 DEF PassOver
  <2> QED BY <2>1, <2>2 DEF AttemptInv, IsAt, Complete
<1>8. ASSUME NEW d \in Deliveries, NEW w \in Actors, SendFails(w, d) PROVE AttemptInv'
  BY <1>8, GoToElsewhere, QuietStep DEF SendFails
<1>9. ASSUME NEW d \in Deliveries, NEW w \in Actors, AllSent(w, d) PROVE AttemptInv'
  <2>1. kind[d] = "strict" => Complete(d)
    <3>1. attempt[w][d].next \in Nat
      BY DEF TypeOK, Attempt
    <3>2. \A i \in 1..Parts[d] : i < attempt[w][d].next
      BY <1>9, <3>1, PartsBounded DEF AllSent
    <3> QED BY <1>9, <3>2 DEF AllSent, AttemptInv, Complete
  <2>2. \A v \in Actors, e \in Deliveries :
          (v = w /\ e = d) \/ attempt'[v][e] = attempt[v][e]
    BY <1>9, GoToElsewhere DEF AllSent
  <2>3. attempt'[w][d].at \in {"ack", "fail"}
    BY <1>9, GoToElsewhere DEF AllSent
  <2>4. UNCHANGED <<kind, sent, aborted>>
    BY <1>9 DEF AllSent
  <2> QED BY <2>1, <2>2, <2>3, <2>4 DEF AttemptInv, IsAt, Complete
<1>10. ASSUME NEW d \in Deliveries, NEW w \in Actors, MarkDelivered(w, d) PROVE AttemptInv'
  BY <1>10, GoToElsewhere, QuietStep DEF MarkDelivered
<1>11. ASSUME NEW d \in Deliveries, NEW w \in Actors, RemoveMarker(w, d) PROVE AttemptInv'
  BY <1>11, GoToElsewhere, QuietStep DEF RemoveMarker
<1>12. ASSUME NEW d \in Deliveries, NEW w \in Actors, ReadEntry(w, d) PROVE AttemptInv'
  <2>1. attempt'[w][d].at \in {"rewrite", "over"}
    <3>1. attempt[w][d] \in Attempt
      BY DEF TypeOK
    <3>2. [attempt[w][d] EXCEPT !.at = "rewrite", !.retryCount = json[d].retryCount].at = "rewrite"
      BY <3>1 DEF Attempt
    <3>3. CASE OnDisk(d)
      <4> DEFINE a == [attempt[w][d] EXCEPT !.at = "rewrite", !.retryCount = json[d].retryCount]
      <4>1. Put(w, d, a)
        BY <1>12, <3>3 DEF ReadEntry
      <4> HIDE DEF a
      <4>2. attempt'[w][d] = a
        BY <4>1, PutElsewhere
      <4> QED BY <3>2, <4>2 DEF a
    <3>4. CASE ~OnDisk(d)
      BY <1>12, <3>4, GoToElsewhere DEF ReadEntry
    <3> QED BY <3>3, <3>4
  <2>2. \A v \in Actors, e \in Deliveries :
          (v = w /\ e = d) \/ attempt'[v][e] = attempt[v][e]
    BY <1>12, PutElsewhere, GoToElsewhere DEF ReadEntry
  <2> QED BY <1>12, <2>1, <2>2, QuietStep DEF ReadEntry
<1>13. ASSUME NEW d \in Deliveries, NEW w \in Actors, RewriteEntry(w, d) PROVE AttemptInv'
  BY <1>13, GoToElsewhere, QuietStep DEF RewriteEntry
<1>14. ASSUME NEW d \in Deliveries, MoveToFailed(d) PROVE AttemptInv'
  BY <1>14, GoToElsewhere, QuietStep DEF MoveToFailed, Actors
<1>15. ASSUME NEW d \in Deliveries, RecoverEntry(d) PROVE AttemptInv'
  BY <1>15, GoToElsewhere, PutElsewhere, QuietStep DEF RecoverEntry, Actors
<1>16. ASSUME NEW d \in Deliveries, BackoffElapses(d) PROVE AttemptInv'
  BY <1>16, QuietStep DEF BackoffElapses
<1>17. CASE StartRecovery
  BY <1>17, QuietStep DEF StartRecovery
<1>18. CASE RecoveryBudgetExceeded
  BY <1>18, QuietStep DEF RecoveryBudgetExceeded
<1>19. CASE Crash
  <2>1. \A w \in Actors, d \in Deliveries :
          attempt'[w][d] = attempt[w][d] \/ attempt'[w][d].at \notin {"send", "ack"}
    BY <1>19 DEF Crash, At
  <2> QED BY <1>19, <2>1, QuietStep DEF Crash
<1> QED
  BY <1>1, <1>2, <1>3, <1>4, <1>5, <1>6, <1>7, <1>8, <1>9, <1>10, <1>11, <1>12,
     <1>13, <1>14, <1>15, <1>16, <1>17, <1>18, <1>19 DEF Next, LiveStep, Progress


\* What decides the fate of a delivery is never undone: what was sent stays
\* sent, and the deliveries that were aborted or set aside stay so.
LEMMA FateStays ==
  ASSUME TypeOK, [Next]_vars
  PROVE  /\ kind' = kind
         /\ aborted \subseteq aborted' /\ failed \subseteq failed'
         /\ \A d \in Deliveries : Complete(d) => Complete(d)'
<1> USE DEF disk, scan
<1> DEFINE Stays == /\ kind' = kind
                    /\ aborted \subseteq aborted' /\ failed \subseteq failed'
                    /\ sent' = sent \/ \E w \in Actors, e \in Deliveries : Send(w, e)
<1>1. ASSUME UNCHANGED vars PROVE Stays
  <2>1. UNCHANGED <<kind, aborted, failed, sent>>
    BY <1>1 DEF vars
  <2> QED BY <2>1
<1>2. ASSUME NEW d \in Deliveries, LiveStep(d) PROVE Stays
  BY <1>2 DEF LiveStep, Deliver, EnqueueDelivery, EnqueueFails, Abort
<1>3. ASSUME NEW d \in Deliveries, NEW w \in Actors, Progress(w, d) PROVE Stays
  <2>1. CASE Send(w, d)
    <3>1. \E v \in Actors, e \in Deliveries : Send(v, e)
      BY <2>1
    <3> QED BY <2>1, <3>1 DEF Send
  <2>2. CASE PassOver(w, d) \/ SendFails(w, d) \/ AllSent(w, d)
    BY <2>2 DEF PassOver, SendFails, AllSent
  <2>3. CASE MarkDelivered(w, d)
    BY <2>3 DEF MarkDelivered
  <2>4. CASE RemoveMarker(w, d) \/ ReadEntry(w, d) \/ RewriteEntry(w, d)
    BY <2>4 DEF RemoveMarker, ReadEntry, RewriteEntry
  <2> QED BY <1>3, <2>1, <2>2, <2>3, <2>4 DEF Progress
<1>4. ASSUME NEW d \in Deliveries, MoveToFailed(d) \/ RecoverEntry(d) \/ BackoffElapses(d)
      PROVE  Stays
  BY <1>4 DEF MoveToFailed, RecoverEntry, BackoffElapses
<1>5. ASSUME StartRecovery \/ RecoveryBudgetExceeded \/ Crash PROVE Stays
  <2>1. UNCHANGED <<kind, aborted, failed, sent>>
    BY <1>5 DEF StartRecovery, RecoveryBudgetExceeded, Crash
  <2> QED BY <2>1
<1> HIDE DEF Stays
<1>6. Stays
  BY <1>1, <1>2, <1>3, <1>4, <1>5 DEF Next
<1>7. \A d \in Deliveries : Complete(d) => Complete(d)'
  BY <1>6, CompleteStays DEF Complete, Stays
<1> QED BY <1>6, <1>7 DEF Stays

\* A step that removes no entry from disk and writes none for the first time
\* forgets nothing.
LEMMA KeptOnDisk ==
  ASSUME TypeOK, NothingForgotten, [Next]_vars, written' = written,
         \A d \in Deliveries : OnDisk(d) => OnDisk(d)'
  PROVE  NothingForgotten'
BY FateStays DEF NothingForgotten, TypeOK

\* Only ackDelivery and moveToFailed remove an entry: the first does so after
\* the last payload or an abort, the second leaves it in failed/.
LEMMA NothingForgottenStep ==
  TypeOK /\ AttemptInv /\ NothingForgotten /\ [Next]_vars => NothingForgotten'
<1> SUFFICES ASSUME TypeOK, AttemptInv, NothingForgotten, [Next]_vars
             PROVE  NothingForgotten'
  OBVIOUS
<1> USE DEF disk, scan
<1>1. ASSUME json' = json, written' = written PROVE NothingForgotten'
  <2>1. \A d \in Deliveries : OnDisk(d) => OnDisk(d)'
    BY <1>1 DEF OnDisk
  <2> QED BY <1>1, <2>1, KeptOnDisk
<1>2. ASSUME NEW d \in Deliveries, EnqueueDelivery(d) PROVE NothingForgotten'
  <2>1. NewEntry # NoFile
    <3>1. NewEntry \in Entry
      BY DEF NewEntry, Entry
    <3> QED BY <3>1, DeliveryAssumption
  <2>2. OnDisk(d)' /\ \A e \in Deliveries : OnDisk(e) => OnDisk(e)'
    BY <1>2, <2>1 DEF EnqueueDelivery, OnDisk, TypeOK
  <2>3. written' = written \union {d}
    BY <1>2 DEF EnqueueDelivery
  <2> QED BY <2>2, <2>3, FateStays DEF NothingForgotten, TypeOK
<1>3. ASSUME NEW d \in Deliveries, NEW w \in Actors, MarkDelivered(w, d)
      PROVE  NothingForgotten'
  <2>1. kind[d] = "strict" => d \in aborted \/ Complete(d)
    BY <1>3 DEF AttemptInv, MarkDelivered
  <2>2. \A e \in Deliveries : e # d /\ OnDisk(e) => OnDisk(e)'
    BY <1>3 DEF MarkDelivered, OnDisk, TypeOK
  <2>3. written' = written
    BY <1>3 DEF MarkDelivered
  <2> QED BY <2>1, <2>2, <2>3, FateStays DEF NothingForgotten, TypeOK
<1>4. ASSUME NEW d \in Deliveries, NEW w \in Actors, RewriteEntry(w, d)
      PROVE  NothingForgotten'
  <2> DEFINE entry == [retryCount |-> attempt[w][d].retryCount + 1, cooling |-> TRUE]
  <2>1. entry \in Entry
    BY DEF TypeOK, Attempt, Entry
  <2>2. json' = [json EXCEPT ![d] = entry]
    BY <1>4 DEF RewriteEntry
  <2>3. entry # NoFile
    BY <2>1, DeliveryAssumption
  <2> HIDE DEF entry
  <2>4. \A e \in Deliveries : OnDisk(e) => OnDisk(e)'
    BY <2>2, <2>3 DEF OnDisk, TypeOK
  <2>5. written' = written
    BY <1>4 DEF RewriteEntry
  <2> QED BY <2>4, <2>5, KeptOnDisk
<1>5. ASSUME NEW d \in Deliveries, MoveToFailed(d) PROVE NothingForgotten'
  <2>1. OnDisk(d) => d \in failed'
    BY <1>5 DEF MoveToFailed
  <2>2. \A e \in Deliveries : e # d /\ OnDisk(e) => OnDisk(e)'
    BY <1>5 DEF MoveToFailed, OnDisk, TypeOK
  <2>3. written' = written
    BY <1>5 DEF MoveToFailed
  <2> QED BY <2>1, <2>2, <2>3, FateStays DEF NothingForgotten, TypeOK
<1>6. ASSUME NEW d \in Deliveries, BackoffElapses(d) PROVE NothingForgotten'
  <2>1. json[d] \in Entry
    BY <1>6 DEF BackoffElapses, OnDisk, TypeOK
  <2>2. [json[d] EXCEPT !.cooling = FALSE] # NoFile
    <3>1. [json[d] EXCEPT !.cooling = FALSE] \in Entry
      BY <2>1 DEF Entry
    <3> QED BY <3>1, DeliveryAssumption
  <2>3. json' = [json EXCEPT ![d] = [json[d] EXCEPT !.cooling = FALSE]]
    BY <1>6 DEF BackoffElapses
  <2>4. \A e \in Deliveries : OnDisk(e) => OnDisk(e)'
    BY <2>2, <2>3 DEF OnDisk, TypeOK
  <2>5. written' = written
    BY <1>6 DEF BackoffElapses
  <2> QED BY <2>4, <2>5, KeptOnDisk
<1>7. ASSUME NEW d \in Deliveries, LiveStep(d) PROVE NothingForgotten'
  <2>1. CASE Deliver(d) \/ EnqueueFails(d) \/ Abort(d)
    BY <1>1, <2>1 DEF Deliver, EnqueueFails, Abort
  <2> QED BY <1>2, <1>7, <2>1 DEF LiveStep
<1>8. ASSUME NEW d \in Deliveries, NEW w \in Actors, Progress(w, d)
      PROVE  NothingForgotten'
  <2>1. CASE \/ Send(w, d) \/ PassOver(w, d) \/ SendFails(w, d) \/ AllSent(w, d)
             \/ RemoveMarker(w, d) \/ ReadEntry(w, d)
    BY <1>1, <2>1 DEF Send, PassOver, SendFails, AllSent, RemoveMarker, ReadEntry
  <2> QED BY <1>3, <1>4, <1>8, <2>1 DEF Progress
<1>9. CASE \/ \E d \in Deliveries : RecoverEntry(d)
           \/ StartRecovery \/ RecoveryBudgetExceeded \/ Crash \/ UNCHANGED vars
  BY <1>1, <1>9 DEF RecoverEntry, StartRecovery, RecoveryBudgetExceeded, Crash, vars
<1> QED BY <1>5, <1>6, <1>7, <1>8, <1>9 DEF Next

-----------------------------------------------------------------------------

\* The inductive invariant: NothingForgotten is not inductive by itself, for
\* an acknowledgement is safe only because of what the attempt has sent.
THEOREM Invariance == Spec => []IInv
<1>1. Init => IInv
  BY TypeInit, AttemptInvInit DEF IInv, Init, NothingForgotten
<1>2. IInv /\ [Next]_vars => IInv'
  BY TypeStep, AttemptInvStep, NothingForgottenStep DEF IInv
<1> QED BY <1>1, <1>2, PTL DEF Spec

\* The queue's files and the attempts of both actors are always well formed.
THEOREM TypeCorrect == Spec => []TypeOK
<1>1. IInv => TypeOK
  BY DEF IInv
<1> QED BY <1>1, Invariance, PTL

\* A delivery that was on disk is never lost: not by a crash between any two
\* file operations, nor by recovery and the caller working on it at once.
THEOREM DeliveriesAccounted == Spec => []NothingForgotten
<1>1. IInv => NothingForgotten
  BY DEF IInv
<1> QED BY <1>1, Invariance, PTL

-----------------------------------------------------------------------------
(* Retries are bounded *)

Trying(d) == ~IsAt("recovery", d, "over")

\* The attempts of recovery that have ended in another way than by a crash.
Used(d) == tries[d] - crashes - (IF Trying(d) THEN 1 ELSE 0)

\* What the failDelivery of the live delivery may have taken off the count.
Slack(d) == IF IsAt("live", d, "over") /\ MaxRetries > 0 THEN MaxRetries - 1 ELSE 0

\* Every copy of the entry, on disk, in a recovery's list and in the hands of a
\* failDelivery, counts the attempts that have ended, but for the slack.
Counted(d) ==
  /\ Used(d) <= MaxRetries + Slack(d)
  /\ Trying(d) => Used(d) <= MaxRetries - 1 + Slack(d)
  /\ OnDisk(d) => Used(d) <= json[d].retryCount + Slack(d)
  /\ d \in todo => ~Trying(d) /\ Used(d) <= loaded[d].retryCount + Slack(d)
  /\ IsAt("recovery", d, "rewrite") =>
       Used(d) <= attempt["recovery"][d].retryCount + Slack(d)
  /\ IsAt("recovery", d, "unlink") /\ OnDisk(d) =>
       Used(d) <= json[d].retryCount - 1 + Slack(d)
  /\ IsAt("live", d, "new") \/ IsAt("live", d, "write") =>
       tries[d] = 0 /\ ~OnDisk(d) /\ d \notin todo /\ ~Trying(d)

RetryInv == \A d \in Deliveries : Counted(d)

\* What is counted are numbers.
LEMMA Numbers ==
  ASSUME TypeOK, NEW d \in Deliveries
  PROVE  /\ MaxRetries \in Nat /\ crashes \in Nat /\ tries[d] \in Nat
         /\ loaded[d].retryCount \in Nat
         /\ OnDisk(d) => json[d].retryCount \in Nat
         /\ \A w \in Actors : attempt[w][d] \in Attempt /\ attempt[w][d].retryCount \in Nat
BY DeliveryAssumption DEF TypeOK, OnDisk, Entry, Attempt

\* Steps of other deliveries, and steps that only let go of the entry or take
\* the live attempt on.
LEMMA CountedKept ==
  ASSUME TypeOK, NEW d \in Deliveries, Counted(d),
         tries'[d] = tries[d], crashes' = crashes,
         attempt'["recovery"][d] = attempt["recovery"][d],
         IsAt("live", d, "over") => IsAt("live", d, "over")',
         IsAt("live", d, "new")' \/ IsAt("live", d, "write")' =>
           IsAt("live", d, "new") \/ IsAt("live", d, "write"),
         OnDisk(d)' => OnDisk(d) /\ json'[d].retryCount = json[d].retryCount,
         d \in todo' => d \in todo,
         loaded'[d].retryCount = loaded[d].retryCount
  PROVE  Counted(d)'
BY Numbers DEF Counted, Used, Trying, Slack, IsAt, Actors

\* Recovery goes on to another step of its attempt.
LEMMA CountedGoesOn ==
  ASSUME TypeOK, NEW d \in Deliveries, Counted(d),
         UNCHANGED <<tries, crashes, todo, loaded>>, attempt'["live"][d] = attempt["live"][d],
         Trying(d), Trying(d)',
         IsAt("recovery", d, "rewrite")' =>
           OnDisk(d) /\ attempt'["recovery"][d].retryCount = json[d].retryCount,
         ~(IsAt("recovery", d, "unlink")' /\ OnDisk(d)'),
         OnDisk(d)' => OnDisk(d) /\ json'[d] = json[d]
  PROVE  Counted(d)'
<1>1. Used(d)' = Used(d) /\ Slack(d)' = Slack(d)
  BY DEF Used, Slack, IsAt
<1> QED
  BY <1>1 DEF Counted, Trying, IsAt

\* The attempt of recovery ends and leaves no entry.
LEMMA CountedEnds ==
  ASSUME TypeOK, NEW d \in Deliveries, Counted(d),
         UNCHANGED <<tries, crashes, todo, loaded>>, attempt'["live"][d] = attempt["live"][d],
         Trying(d), ~Trying(d)', ~OnDisk(d)'
  PROVE  Counted(d)'
<1>1. Used(d)' = Used(d) + 1 /\ Slack(d)' = Slack(d)
  BY Numbers DEF Used, Slack, IsAt
<1>2. Slack(d) \in Nat /\ Used(d) \in Int
  BY Numbers DEF Used, Slack
<1> QED
  BY <1>1, <1>2, Numbers DEF Counted, Trying, IsAt

\* The failDelivery of the live delivery sets the count to 1 or more; by that it
\* ends, so that the slack grows to what it may have taken off.
LEMMA CountedRewritten ==
  ASSUME TypeOK, NEW d \in Deliveries, Counted(d), RewriteEntry("live", d)
  PROVE  Counted(d)'
<1>1. /\ UNCHANGED <<tries, crashes, todo, loaded>> /\ IsAt("live", d, "rewrite")
      /\ IsAt("live", d, "over")' /\ attempt'["recovery"][d] = attempt["recovery"][d]
  BY GoToElsewhere DEF RewriteEntry, scan, Actors, IsAt
<1> DEFINE n == attempt["live"][d].retryCount
<1>2. n \in Nat /\ json'[d].retryCount = n + 1
  BY Numbers DEF RewriteEntry, Actors, TypeOK
<1> HIDE DEF n
<1>3. Slack(d) = 0 /\ Slack(d)' = IF MaxRetries > 0 THEN MaxRetries - 1 ELSE 0
  BY <1>1 DEF Slack, IsAt
<1>4. Used(d)' = Used(d) /\ Trying(d)' = Trying(d) /\ Used(d) \in Int
  BY <1>1, Numbers DEF Used, Trying, IsAt
<1>5. /\ IsAt("recovery", d, "rewrite")' = IsAt("recovery", d, "rewrite")
      /\ IsAt("recovery", d, "unlink")' = IsAt("recovery", d, "unlink")
      /\ IsAt("recovery", d, "unlink") => Trying(d)
      /\ ~IsAt("live", d, "new")' /\ ~IsAt("live", d, "write")'
  BY <1>1 DEF IsAt, Trying
<1>6. MaxRetries \in Nat /\ attempt["recovery"][d].retryCount \in Nat
      /\ loaded[d].retryCount \in Nat
  BY Numbers DEF Actors
<1>7. Used(d) <= MaxRetries /\ (Trying(d) => Used(d) <= MaxRetries - 1)
  BY <1>3, <1>4, <1>6 DEF Counted
<1>8. /\ Used(d)' <= MaxRetries + Slack(d)'
      /\ Trying(d)' => Used(d)' <= MaxRetries - 1 + Slack(d)'
      /\ Used(d)' <= json'[d].retryCount + Slack(d)'
      /\ Trying(d)' => Used(d)' <= json'[d].retryCount - 1 + Slack(d)'
  BY <1>2, <1>3, <1>4, <1>6, <1>7
<1>9. d \in todo' => ~Trying(d)' /\ Used(d)' <= loaded'[d].retryCount + Slack(d)'
  BY <1>1, <1>3, <1>4, <1>6 DEF Counted
<1>10. IsAt("recovery", d, "rewrite")' =>
         Used(d)' <= attempt'["recovery"][d].retryCount + Slack(d)'
  BY <1>1, <1>3, <1>4, <1>5, <1>6 DEF Counted
<1> QED
  BY <1>4, <1>5, <1>8, <1>9, <1>10 DEF Counted

\* The failDelivery of a recovery counts the attempt that it ends.
LEMMA CountedOnce ==
  ASSUME TypeOK, NEW d \in Deliveries, Counted(d), RewriteEntry("recovery", d)
  PROVE  Counted(d)'
<1>1. /\ UNCHANGED <<tries, crashes, todo, loaded>> /\ IsAt("recovery", d, "rewrite")
      /\ IsAt("recovery", d, "over")' /\ attempt'["live"][d] = attempt["live"][d]
  BY GoToElsewhere DEF RewriteEntry, scan, Actors, IsAt
<1> DEFINE n == attempt["recovery"][d].retryCount
<1>2. n \in Nat /\ json'[d].retryCount = n + 1
  BY Numbers DEF RewriteEntry, Actors, TypeOK
<1>3. Trying(d) /\ ~Trying(d)' /\ Used(d) <= n + Slack(d) /\ Used(d) <= MaxRetries - 1 + Slack(d)
  BY <1>1 DEF Counted, Trying, IsAt
<1>4. Slack(d)' = Slack(d) /\ Slack(d) \in Nat
  BY <1>1, Numbers DEF Slack, IsAt
<1>5. Used(d)' = Used(d) + 1 /\ Used(d) \in Int
  BY <1>1, <1>3, Numbers DEF Used
<1>6. d \notin todo' /\ ~IsAt("live", d, "new")' /\ ~IsAt("live", d, "write")'
  BY <1>1, <1>3 DEF Counted, IsAt
<1> HIDE DEF n
<1>7. Used(d)' <= MaxRetries + Slack(d)' /\ Used(d)' <= json'[d].retryCount + Slack(d)'
  BY <1>2, <1>3, <1>4, <1>5, Numbers
<1> QED
  BY <1>1, <1>3, <1>6, <1>7 DEF Counted, Trying, IsAt

\* failDelivery has read the entry, or there is none.
LEMMA EntryRead ==
  ASSUME TypeOK, NEW w \in Actors, NEW d \in Deliveries, ReadEntry(w, d)
  PROVE  /\ OnDisk(d) => /\ attempt'[w][d].at = "rewrite"
                         /\ attempt'[w][d].retryCount = json[d].retryCount
         /\ ~OnDisk(d) => attempt'[w][d].at = "over"
<1>1. CASE OnDisk(d)
  <2> DEFINE a == [attempt[w][d] EXCEPT !.at = "rewrite", !.retryCount = json[d].retryCount]
  <2>1. a.at = "rewrite" /\ a.retryCount = json[d].retryCount
    BY Numbers DEF Attempt
  <2>2. Put(w, d, a)
    BY <1>1 DEF ReadEntry
  <2> HIDE DEF a
  <2> QED
    BY <1>1, <2>1, <2>2, PutElsewhere
<1>2. CASE ~OnDisk(d)
  BY <1>2, GoToElsewhere DEF ReadEntry
<1> QED
  BY <1>1, <1>2

\* A step of one actor at one delivery leaves the others' counts alone.
LEMMA CountedElsewhere ==
  ASSUME TypeOK, NEW d \in Deliveries, Counted(d), NEW w \in Actors, NEW e \in Deliveries, e # d,
         \/ Progress(w, e) \/ LiveStep(e) \/ MoveToFailed(e) \/ BackoffElapses(e)
         \/ RecoverEntry(e)
  PROVE  Counted(d)'
<1> USE DEF disk, scan
<1>1. \A v \in Actors : attempt'[v][d] = attempt[v][d]
  <2>1. \/ \E v \in Actors : \E a : Put(v, e, a)
        \/ attempt' = attempt
    BY DEF Progress, Send, PassOver, SendFails, AllSent, MarkDelivered, RemoveMarker, ReadEntry,
       RewriteEntry, LiveStep, Deliver, EnqueueDelivery, EnqueueFails, Abort, MoveToFailed,
       BackoffElapses, RecoverEntry, GoTo, Actors
  <2> QED
    BY <2>1, PutElsewhere
<1>2. json'[d] = json[d]
  BY DEF Progress, Send, PassOver, SendFails, AllSent, MarkDelivered, RemoveMarker, ReadEntry,
     RewriteEntry, LiveStep, Deliver, EnqueueDelivery, EnqueueFails, Abort, MoveToFailed,
     BackoffElapses, RecoverEntry, TypeOK
<1>3. loaded'[d] = loaded[d] /\ tries'[d] = tries[d] /\ crashes' = crashes /\ todo' \subseteq todo
  BY DEF Progress, Send, PassOver, SendFails, AllSent, MarkDelivered, RemoveMarker, ReadEntry,
     RewriteEntry, LiveStep, Deliver, EnqueueDelivery, EnqueueFails, Abort, MoveToFailed,
     BackoffElapses, RecoverEntry, TypeOK
<1> QED
  BY <1>1, <1>2, <1>3, CountedKept DEF IsAt, OnDisk, Actors

\* The caller's part of a delivery, and what either actor does with it.
LEMMA CountedLive ==
  ASSUME TypeOK, NEW d \in Deliveries, Counted(d), LiveStep(d) \/ Progress("live", d)
  PROVE  Counted(d)'
<1> USE DEF disk, scan
<1>1. CASE RewriteEntry("live", d)
  BY <1>1, CountedRewritten
<1>2. CASE EnqueueDelivery(d)
  <2>1. /\ UNCHANGED <<tries, crashes, todo, loaded>> /\ IsAt("live", d, "write")
        /\ attempt'["live"][d].at = "send" /\ attempt'["recovery"][d] = attempt["recovery"][d]
        /\ json'[d].retryCount = 0
    BY <1>2, PutElsewhere DEF EnqueueDelivery, Actors, At, NewEntry, TypeOK
  <2>2. tries[d] = 0 /\ d \notin todo /\ ~Trying(d)
    BY <2>1 DEF Counted
  <2>3. Used(d)' = 0 - crashes /\ Slack(d)' = 0 /\ ~Trying(d)'
    BY <2>1, <2>2, Numbers DEF Used, Trying, Slack, IsAt
  <2>4. /\ ~IsAt("recovery", d, "rewrite")' /\ ~IsAt("recovery", d, "unlink")'
        /\ ~IsAt("live", d, "new")' /\ ~IsAt("live", d, "write")'
    BY <2>1, <2>3 DEF IsAt, Trying
  <2> QED
    BY <2>1, <2>2, <2>3, <2>4, Numbers DEF Counted
<1>3. CASE \/ Deliver(d) \/ EnqueueFails(d) \/ Abort(d)
           \/ Send("live", d) \/ PassOver("live", d) \/ SendFails("live", d) \/ AllSent("live", d)
           \/ MarkDelivered("live", d) \/ RemoveMarker("live", d) \/ ReadEntry("live", d)
  <2>1. /\ UNCHANGED <<tries, crashes, todo, loaded>>
        /\ ~IsAt("live", d, "over")
        /\ OnDisk(d)' => OnDisk(d) /\ json'[d] = json[d]
    BY <1>3 DEF Deliver, EnqueueFails, Abort, Send, PassOver, SendFails, AllSent, MarkDelivered,
       RemoveMarker, ReadEntry, Sending, IsAt, OnDisk, TypeOK
  <2>2. \E a : Put("live", d, a)
    BY <1>3 DEF Deliver, EnqueueFails, Abort, Send, PassOver, SendFails, AllSent, MarkDelivered,
       RemoveMarker, ReadEntry, GoTo
  <2>3. attempt'["recovery"][d] = attempt["recovery"][d]
    BY <2>2, PutElsewhere DEF Actors
  <2>4. IsAt("live", d, "new")' \/ IsAt("live", d, "write")' =>
          IsAt("live", d, "new") \/ IsAt("live", d, "write")
    <3>1. CASE Deliver(d)
      BY <3>1 DEF Deliver
    <3>2. CASE EnqueueFails(d)
      BY <3>2 DEF EnqueueFails
    <3>3. CASE Abort(d) \/ SendFails("live", d) \/ AllSent("live", d)
      BY <3>3, GoToElsewhere DEF Abort, SendFails, AllSent, IsAt, Actors
    <3>4. CASE Send("live", d)
      <4>1. [attempt["live"][d] EXCEPT !.next = @ + 1].at = "send"
        BY <3>4, Numbers DEF Send, Sending, IsAt, Actors, Attempt
      <4> QED
        BY <3>4, <4>1, PutElsewhere DEF Send, IsAt, Actors
    <3>5. CASE PassOver("live", d)
      <4> DEFINE a == [attempt["live"][d] EXCEPT
                        !.next = @ + 1,
                        !.partial = @ \/ ("live" = "live" /\ kind[d] = "best effort, onError")]
      <4>1. a.at = "send"
        BY <3>5, Numbers DEF PassOver, Sending, IsAt, Actors, Attempt
      <4>2. Put("live", d, a)
        BY <3>5 DEF PassOver
      <4> HIDE DEF a
      <4> QED
        BY <4>1, <4>2, PutElsewhere DEF IsAt, Actors
    <3>6. CASE MarkDelivered("live", d) \/ RemoveMarker("live", d)
      BY <3>6, GoToElsewhere DEF MarkDelivered, RemoveMarker, IsAt, Actors
    <3>7. CASE ReadEntry("live", d)
      BY <3>7, EntryRead DEF IsAt, Actors
    <3> QED
      BY <1>3, <3>1, <3>2, <3>3, <3>4, <3>5, <3>6, <3>7
  <2> QED
    BY <2>1, <2>3, <2>4, CountedKept
<1> QED
  BY <1>1, <1>2, <1>3 DEF LiveStep, Progress

\* Recovery's part of a delivery.
LEMMA CountedRecovery ==
  ASSUME TypeOK, NEW d \in Deliveries, Counted(d), Progress("recovery", d) \/ MoveToFailed(d)
  PROVE  Counted(d)'
<1> USE DEF disk, scan
<1>1. CASE RewriteEntry("recovery", d)
  BY <1>1, CountedOnce
<1>2. /\ UNCHANGED <<tries, crashes, todo, loaded>>
      /\ attempt'["live"][d] = attempt["live"][d] /\ Trying(d)
  <2>1. \E a : Put("recovery", d, a)
    BY DEF Progress, MoveToFailed, Send, PassOver, SendFails, AllSent, MarkDelivered,
       RemoveMarker, ReadEntry, RewriteEntry, GoTo
  <2>2. attempt'["live"][d] = attempt["live"][d]
    BY <2>1, PutElsewhere DEF Actors
  <2> QED
    BY <2>2 DEF Progress, MoveToFailed, Send, PassOver, SendFails, AllSent, MarkDelivered,
       RemoveMarker, ReadEntry, RewriteEntry, Sending, IsAt, Trying
<1>3. CASE Send("recovery", d)
  <2> DEFINE a == [attempt["recovery"][d] EXCEPT !.next = @ + 1]
  <2>1. a.at = "send"
    BY <1>3, Numbers DEF Send, Sending, IsAt, Actors, Attempt
  <2>2. Put("recovery", d, a)
    BY <1>3 DEF Send
  <2> HIDE DEF a
  <2>3. IsAt("recovery", d, "send")'
    BY <2>1, <2>2, PutElsewhere DEF IsAt, Actors
  <2> QED
    BY <1>2, <1>3, <2>3, CountedGoesOn DEF Send, Trying, IsAt, OnDisk
<1>4. CASE PassOver("recovery", d)
  <2> DEFINE a == [attempt["recovery"][d] EXCEPT
                    !.next = @ + 1,
                    !.partial = @ \/ ("recovery" = "live" /\ kind[d] = "best effort, onError")]
  <2>1. a.at = "send"
    BY <1>4, Numbers DEF PassOver, Sending, IsAt, Actors, Attempt
  <2>2. Put("recovery", d, a)
    BY <1>4 DEF PassOver
  <2> HIDE DEF a
  <2>3. IsAt("recovery", d, "send")'
    BY <2>1, <2>2, PutElsewhere DEF IsAt, Actors
  <2> QED
    BY <1>2, <1>4, <2>3, CountedGoesOn DEF PassOver, Trying, IsAt, OnDisk
<1>5. CASE SendFails("recovery", d) \/ AllSent("recovery", d)
  <2>1. attempt'["recovery"][d].at \in {"fail", "move", "ack"} /\ json' = json
    BY <1>5, GoToElsewhere DEF SendFails, AllSent, Actors
  <2> QED
    BY <1>2, <2>1, CountedGoesOn DEF Trying, IsAt, OnDisk
<1>6. CASE MarkDelivered("recovery", d)
  <2>1. json'[d] = NoFile
    BY <1>6 DEF MarkDelivered, OnDisk, TypeOK
  <2>2. attempt'["recovery"][d].at \in {"unlink", "over"}
    BY <1>6, GoToElsewhere DEF MarkDelivered, Actors
  <2> QED
    BY <1>2, <2>1, <2>2, CountedGoesOn, CountedEnds DEF Trying, IsAt, OnDisk
<1>7. CASE RemoveMarker("recovery", d)
  <2>1. /\ json' = json /\ IsAt("recovery", d, "unlink") /\ IsAt("recovery", d, "over")'
    BY <1>7, GoToElsewhere DEF RemoveMarker, IsAt, Actors
  <2>2. Used(d)' = Used(d) + 1 /\ Used(d) \in Int /\ Slack(d)' = Slack(d) /\ Slack(d) \in Nat
    BY <1>2, <2>1, Numbers DEF Used, Slack, Trying, IsAt
  <2>3. /\ d \notin todo' /\ ~IsAt("live", d, "new")' /\ ~IsAt("live", d, "write")'
        /\ ~IsAt("recovery", d, "rewrite")' /\ ~IsAt("recovery", d, "unlink")' /\ ~Trying(d)'
    BY <1>2, <2>1 DEF Counted, IsAt, Trying
  <2>4. Used(d)' <= MaxRetries + Slack(d)'
    BY <1>2, <2>2, Numbers DEF Counted
  <2>5. OnDisk(d)' => Used(d)' <= json'[d].retryCount + Slack(d)'
    BY <1>2, <2>1, <2>2, Numbers DEF Counted, OnDisk
  <2> QED
    BY <2>3, <2>4, <2>5 DEF Counted
<1>8. CASE ReadEntry("recovery", d)
  <2>1. json' = json
    BY <1>8 DEF ReadEntry
  <2>2. CASE OnDisk(d)
    BY <1>2, <1>8, <2>1, <2>2, EntryRead, CountedGoesOn DEF Trying, IsAt, OnDisk, Actors
  <2>3. CASE ~OnDisk(d)
    BY <1>2, <1>8, <2>1, <2>3, EntryRead, CountedEnds DEF Trying, IsAt, OnDisk, Actors
  <2> QED
    BY <2>2, <2>3
<1>9. CASE MoveToFailed(d)
  <2>1. json'[d] = NoFile /\ IsAt("recovery", d, "over")'
    BY <1>9, GoToElsewhere DEF MoveToFailed, OnDisk, TypeOK, IsAt, Actors
  <2> QED
    BY <1>2, <2>1, CountedEnds DEF Trying, OnDisk
<1> QED
  BY <1>1, <1>3, <1>4, <1>5, <1>6, <1>7, <1>8, <1>9 DEF Progress

\* Every step keeps the counts, whichever actor overtakes the other.
LEMMA RetryStep == TypeOK /\ RetryInv /\ [Next]_vars => RetryInv'
<1> SUFFICES ASSUME TypeOK, RetryInv, [Next]_vars, NEW d \in Deliveries
             PROVE  Counted(d)'
  BY DEF RetryInv
<1> USE DEF disk, scan
<1>0. Counted(d)
  BY DEF RetryInv
<1>1. CASE UNCHANGED vars
  BY <1>0, <1>1, CountedKept DEF vars, IsAt, OnDisk
<1>2. ASSUME NEW w \in Actors, NEW e \in Deliveries,
             \/ Progress(w, e) \/ LiveStep(e) \/ MoveToFailed(e) \/ BackoffElapses(e)
             \/ RecoverEntry(e)
      PROVE  Counted(d)'
  <2>1. CASE e # d
    BY <1>0, <1>2, <2>1, CountedElsewhere
  <2>2. CASE e = d /\ (LiveStep(d) \/ Progress("live", d))
    BY <1>0, <2>2, CountedLive
  <2>3. CASE e = d /\ (MoveToFailed(d) \/ Progress("recovery", d))
    BY <1>0, <2>3, CountedRecovery
  <2>4. CASE e = d /\ BackoffElapses(d)
    <3>1. /\ UNCHANGED <<tries, crashes, todo, attempt>>
          /\ OnDisk(d) /\ json'[d] = [json[d] EXCEPT !.cooling = FALSE]
          /\ loaded'[d] = [loaded[d] EXCEPT !.cooling = FALSE]
      BY <2>4 DEF BackoffElapses, TypeOK
    <3>2. json[d] \in Entry /\ loaded[d] \in Entry
      BY <3>1 DEF TypeOK, OnDisk
    <3>3. json'[d].retryCount = json[d].retryCount /\ loaded'[d].retryCount = loaded[d].retryCount
      BY <3>1, <3>2 DEF Entry
    <3> QED
      BY <1>0, <3>1, <3>3, CountedKept DEF IsAt
  <2>5. CASE e = d /\ RecoverEntry(d)
    <3>1. /\ d \in todo /\ d \notin todo' /\ UNCHANGED <<json, loaded, crashes>>
          /\ ~Trying(d) /\ Used(d) <= loaded[d].retryCount + Slack(d)
      BY <1>0, <2>5 DEF RecoverEntry, Counted
    <3>2. CASE attempt' = attempt /\ tries' = tries
      BY <1>0, <3>1, <3>2, CountedKept DEF IsAt, OnDisk
    <3>3. CASE GoTo("recovery", d, "move") /\ tries' = tries
      <4>1. /\ IsAt("recovery", d, "move")' /\ attempt'["live"][d] = attempt["live"][d]
        BY <3>3, GoToElsewhere DEF IsAt, Actors
      <4>2. Used(d)' = Used(d) - 1 /\ Used(d) \in Int /\ Slack(d)' = Slack(d)
        BY <3>1, <3>3, <4>1, Numbers DEF Used, Slack, Trying, IsAt
      <4>3. Slack(d) \in Nat
        BY Numbers DEF Slack
      <4>4. ~IsAt("live", d, "new")' /\ ~IsAt("live", d, "write")'
        BY <1>0, <3>1, <4>1 DEF Counted, IsAt
      <4> QED
        BY <1>0, <3>1, <4>1, <4>2, <4>3, <4>4, Numbers DEF Counted, IsAt, OnDisk
    <3>4. CASE /\ Put("recovery", d, At("send")) /\ tries' = [tries EXCEPT ![d] = @ + 1]
               /\ ~(loaded[d].retryCount >= MaxRetries)
      <4>1. /\ IsAt("recovery", d, "send")' /\ attempt'["live"][d] = attempt["live"][d]
            /\ tries'[d] = tries[d] + 1
        BY <3>4, PutElsewhere DEF IsAt, At, Actors, TypeOK
      <4>2. Used(d)' = Used(d) /\ Used(d) \in Int /\ Slack(d)' = Slack(d) /\ Slack(d) \in Nat
        BY <3>1, <4>1, Numbers DEF Used, Slack, Trying, IsAt
      <4>3. ~IsAt("live", d, "new")' /\ ~IsAt("live", d, "write")'
        BY <1>0, <3>1, <4>1 DEF Counted, IsAt
      <4>4. Used(d) <= MaxRetries - 1 + Slack(d)
        BY <3>1, <3>4, <4>2, Numbers
      <4> QED
        BY <1>0, <3>1, <4>1, <4>2, <4>3, <4>4, Numbers DEF Counted, IsAt, OnDisk
    <3> QED
      BY <2>5, <3>2, <3>3, <3>4 DEF RecoverEntry
  <2> QED
    BY <1>2, <2>1, <2>2, <2>3, <2>4, <2>5 DEF Actors
<1>3. CASE StartRecovery
  <2>1. /\ UNCHANGED <<tries, crashes, json, attempt>>
        /\ \A e \in todo' : OnDisk(e) /\ loaded'[e] = json[e]
        /\ ~Trying(d)
    BY <1>3 DEF StartRecovery, Scanning, Trying
  <2>2. Used(d)' = Used(d) /\ Slack(d)' = Slack(d) /\ ~Trying(d)'
    BY <2>1 DEF Used, Slack, Trying, IsAt
  <2> QED
    BY <1>0, <2>1, <2>2 DEF Counted, IsAt, OnDisk
<1>4. CASE RecoveryBudgetExceeded
  BY <1>0, <1>4, CountedKept DEF RecoveryBudgetExceeded, IsAt, OnDisk
<1>5. CASE Crash
  <2>1. /\ crashes' = crashes + 1 /\ todo' = {} /\ UNCHANGED <<json, tries>>
    BY <1>5 DEF Crash
  <2>2. /\ ~IsAt("live", d, "new") => IsAt("live", d, "over")'
        /\ IsAt("live", d, "new") => attempt'["live"][d] = attempt["live"][d]
        /\ ~IsAt("recovery", d, "new") => IsAt("recovery", d, "over")'
        /\ IsAt("recovery", d, "new") => attempt'["recovery"][d] = attempt["recovery"][d]
    BY <1>5 DEF Crash, IsAt, At, Actors
  <2>3. Used(d)' <= Used(d) /\ Used(d) \in Int /\ Used(d)' \in Int
    BY <2>1, <2>2, Numbers DEF Used, Trying, IsAt
  <2>4. Slack(d)' >= Slack(d) /\ Slack(d) \in Nat /\ Slack(d)' \in Nat
    BY <2>1, <2>2, Numbers DEF Slack, IsAt
  <2> QED
    BY <1>0, <2>1, <2>2, <2>3, <2>4, Numbers DEF Counted, IsAt, OnDisk, Trying
<1> QED
  BY <1>1, <1>2, <1>3, <1>4, <1>5 DEF Next, Actors

\* The inductive invariant of the counts: the bound alone is not inductive, for it
\* does not say what a later failDelivery will write.
THEOREM CountsInvariance == Spec => []RetryInv
<1>1. Init => RetryInv
  <2> SUFFICES ASSUME Init, NEW d \in Deliveries PROVE Counted(d)
    BY DEF RetryInv
  <2>1. /\ tries[d] = 0 /\ crashes = 0 /\ ~OnDisk(d) /\ d \notin todo
        /\ IsAt("live", d, "new") /\ IsAt("recovery", d, "over")
    BY DEF Init, OnDisk, IsAt, At, Actors
  <2> QED
    BY <2>1, DeliveryAssumption DEF Counted, Used, Slack, Trying, IsAt
<1> QED
  BY <1>1, RetryStep, TypeCorrect, PTL DEF Spec

\* Recovery gives up: neither races with the live delivery nor crashes let it
\* attempt an entry more often than each of them costs it.
THEOREM RetriesEnd == Spec => []RetriesAreBounded
<1>1. TypeOK /\ RetryInv => RetriesAreBounded
  <2> SUFFICES ASSUME TypeOK, RetryInv, NEW d \in Deliveries
               PROVE  tries[d] <= MaxRetries + crashes
                                  + (IF MaxRetries > 0 THEN MaxRetries - 1 ELSE 0)
    BY DEF RetriesAreBounded
  <2>1. Counted(d)
    BY DEF RetryInv
  <2>2. Slack(d) <= (IF MaxRetries > 0 THEN MaxRetries - 1 ELSE 0) /\ Slack(d) \in Nat
    BY Numbers DEF Slack
  <2> QED
    BY <2>1, <2>2, Numbers DEF Counted, Used
<1> QED
  BY <1>1, CountsInvariance, TypeCorrect, PTL

=============================================================================
