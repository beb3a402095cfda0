--------------------------- MODULE DeliveryQueue ----------------------------
(***************************************************************************)
(* The write-ahead queue of outbound deliveries: deliverOutboundPayloads   *)
(* (src/src/infra/outbound/deliver.ts) and the files it keeps through      *)
(* src/src/infra/outbound/delivery-queue.ts.                               *)
(*                                                                         *)
(* A delivery is written to disk, its payloads are sent one after the      *)
(* other, and the file is removed (ack) or updated (fail).  Recovery runs  *)
(* in the background each time a gateway server starts, in a new process   *)
(* or in the old one, while live deliveries go on; it sends what it finds  *)
(* on disk.  Between two file operations anything else may run, and the    *)
(* process may crash.                                                      *)
(***************************************************************************)
EXTENDS Integers

CONSTANTS
  Count,       \* number of deliveries, numbered in the order of enqueuedAt
  Payloads,    \* bound: payloads of a delivery
  Parts,       \* delivery -> number of its payloads
  MaxRetries,  \* MAX_RETRIES
  Kinds,       \* how the deliveries are asked for, see AllKinds
  MaxCrashes,  \* bound
  NoFile

Deliveries == 1..Count

\* A failed payload ends the delivery ("strict") or is passed over; then the
\* caller may ask to be told (onError).
AllKinds == {"strict", "best effort", "best effort, onError"}

Entry == [retryCount : Nat, cooling : BOOLEAN]

ASSUME DeliveryAssumption ==
  /\ Count \in Nat
  /\ Payloads \in Nat /\ Parts \in [Deliveries -> 0..Payloads]
  /\ MaxRetries \in Nat
  /\ Kinds \subseteq [Deliveries -> AllKinds]
  /\ MaxCrashes \in Nat
  /\ NoFile \notin Entry

VARIABLES
  kind,      \* delivery -> how it was called
  json,      \* delivery -> contents of <id>.json, or NoFile
  marker,    \* deliveries with a <id>.delivered file
  failed,    \* deliveries in the failed/ directory
  attempt,   \* actor -> delivery -> how far the actor is with it
  todo,      \* entries of the running recovery that it has not dealt with
  loaded,    \* delivery -> the entry as the recovery has loaded it
  tried,     \* the running recovery has sent something, so time has passed
  crashes,
  sent,      \* history: delivery -> payloads that were sent, once or more
  written,   \* history: deliveries that were on disk
  aborted,   \* history: deliveries whose caller aborted them
  tries      \* history: delivery -> attempts that recovery has started

disk == <<json, marker, failed>>
scan == <<todo, loaded, tried>>
vars == <<kind, disk, attempt, scan, crashes, sent, written, aborted, tries>>

\* The caller of deliverOutboundPayloads and recoverPendingDeliveries.
Actors == {"live", "recovery"}

\* An attempt: the payload to send next, whether one has failed that the
\* caller was told of, and the retryCount that failDelivery has read.
Steps == {"new", "write", "send", "ack", "unlink", "fail", "rewrite", "move",
          "unqueued", "over"}
Attempt == [at : Steps, next : Nat \ {0}, partial : BOOLEAN, retryCount : Nat]
At(step) == [at |-> step, next |-> 1, partial |-> FALSE, retryCount |-> 0]

TypeOK ==
  /\ kind \in [Deliveries -> AllKinds]
  /\ json \in [Deliveries -> Entry \union {NoFile}]
  /\ marker \in SUBSET Deliveries
  /\ failed \in SUBSET Deliveries
  /\ attempt \in [Actors -> [Deliveries -> Attempt]]
  /\ todo \in SUBSET Deliveries
  /\ loaded \in [Deliveries -> Entry]
  /\ tried \in BOOLEAN
  /\ crashes \in 0..MaxCrashes
  /\ sent \in [Deliveries -> SUBSET (1..Payloads)]
  /\ written \in SUBSET Deliveries
  /\ aborted \in SUBSET Deliveries
  /\ tries \in [Deliveries -> Nat]

NewEntry == [retryCount |-> 0, cooling |-> FALSE]

Init ==
  /\ kind \in Kinds
  /\ json = [d \in Deliveries |-> NoFile]
  /\ marker = {} /\ failed = {}
  /\ attempt = [w \in Actors |->
                 [d \in Deliveries |-> At(IF w = "live" THEN "new" ELSE "over")]]
  /\ todo = {} /\ loaded = [d \in Deliveries |-> NewEntry] /\ tried = FALSE
  /\ crashes = 0
  /\ sent = [d \in Deliveries |-> {}]
  /\ written = {} /\ aborted = {}
  /\ tries = [d \in Deliveries |-> 0]

OnDisk(d) == json[d] # NoFile
IsAt(w, d, step) == attempt[w][d].at = step

\* The attempt of an actor becomes a, or goes on at another step.
Put(w, d, a) == attempt' = [attempt EXCEPT ![w][d] = a]
GoTo(w, d, step) == Put(w, d, [attempt[w][d] EXCEPT !.at = step])

-----------------------------------------------------------------------------
(* The caller *)

Deliver(d) ==
  /\ IsAt("live", d, "new")
  /\ \A e \in Deliveries : e < d => ~IsAt("live", e, "new")
  /\ GoTo("live", d, "write")
  /\ UNCHANGED <<kind, disk, scan, crashes, sent, written, aborted, tries>>

\* The rename of enqueueDelivery makes the entry appear.
EnqueueDelivery(d) ==
  /\ IsAt("live", d, "write")
  /\ Put("live", d, At("send"))
  /\ json' = [json EXCEPT ![d] = NewEntry]
  /\ written' = written \union {d}
  /\ UNCHANGED <<kind, marker, failed, scan, crashes, sent, aborted, tries>>

\* The entry cannot be written: the delivery goes on without the queue.
EnqueueFails(d) ==
  /\ IsAt("live", d, "write")
  /\ GoTo("live", d, "unqueued")
  /\ UNCHANGED <<kind, disk, scan, crashes, sent, written, aborted, tries>>

-----------------------------------------------------------------------------
(* Sending *)

Sending(w, d) == IsAt(w, d, "send") /\ attempt[w][d].next <= Parts[d]

Send(w, d) ==
  /\ Sending(w, d)
  /\ sent' = [sent EXCEPT ![d] = @ \union {attempt[w][d].next}]
  /\ Put(w, d, [attempt[w][d] EXCEPT !.next = @ + 1])
  /\ UNCHANGED <<kind, disk, scan, crashes, written, aborted, tries>>

\* A payload fails and is passed over; recovery has no onError to be told by.
PassOver(w, d) ==
  /\ Sending(w, d)
  /\ kind[d] # "strict"
  /\ Put(w, d, [attempt[w][d] EXCEPT
       !.next = @ + 1,
       !.partial = @ \/ (w = "live" /\ kind[d] = "best effort, onError")])
  /\ UNCHANGED <<kind, disk, scan, crashes, sent, written, aborted, tries>>

\* Mutant: a failed attempt is acknowledged.
SendFailsAcknowledged(w, d) ==
  /\ Sending(w, d)
  /\ kind[d] = "strict"
  /\ GoTo(w, d, "ack")
  /\ UNCHANGED <<kind, disk, scan, crashes, sent, written, aborted, tries>>

\* A payload fails and with it the attempt.  Recovery moves an entry with a
\* permanent error to failed/.
SendFails(w, d) ==
  /\ Sending(w, d)
  /\ kind[d] = "strict"
  /\ \/ GoTo(w, d, "fail")
     \/ w = "recovery" /\ GoTo(w, d, "move")
  /\ UNCHANGED <<kind, disk, scan, crashes, sent, written, aborted, tries>>

\* The caller's signal aborts the delivery, which counts as done.
Abort(d) ==
  /\ Sending("live", d)
  /\ kind[d] = "strict"
  /\ GoTo("live", d, "ack")
  /\ aborted' = aborted \union {d}
  /\ UNCHANGED <<kind, disk, scan, crashes, sent, written, tries>>

AllSent(w, d) ==
  /\ IsAt(w, d, "send")
  /\ ~(attempt[w][d].next <= Parts[d])
  /\ GoTo(w, d, IF attempt[w][d].partial THEN "fail" ELSE "ack")
  /\ UNCHANGED <<kind, disk, scan, crashes, sent, written, aborted, tries>>

-----------------------------------------------------------------------------
(* The file operations that end an attempt *)

\* ackDelivery, first phase: <id>.json is renamed to <id>.delivered.  Without
\* a <id>.json there is only a marker to remove.
MarkDelivered(w, d) ==
  /\ IsAt(w, d, "ack")
  /\ IF OnDisk(d)
       THEN /\ json' = [json EXCEPT ![d] = NoFile]
            /\ marker' = marker \union {d}
            /\ GoTo(w, d, "unlink")
       ELSE /\ marker' = marker \ {d}
            /\ UNCHANGED json
            /\ GoTo(w, d, "over")
  /\ UNCHANGED <<kind, failed, scan, crashes, sent, written, aborted, tries>>

\* ackDelivery, second phase
RemoveMarker(w, d) ==
  /\ IsAt(w, d, "unlink")
  /\ marker' = marker \ {d}
  /\ GoTo(w, d, "over")
  /\ UNCHANGED <<kind, json, failed, scan, crashes, sent, written, aborted, tries>>

\* failDelivery reads the entry; without one it throws, which is ignored.
ReadEntry(w, d) ==
  /\ IsAt(w, d, "fail")
  /\ IF OnDisk(d)
       THEN Put(w, d, [attempt[w][d] EXCEPT !.at = "rewrite",
                                            !.retryCount = json[d].retryCount])
       ELSE GoTo(w, d, "over")
  /\ UNCHANGED <<kind, disk, scan, crashes, sent, written, aborted, tries>>

\* Mutant: the retry is not counted.
RewriteEntryUncounted(w, d) ==
  /\ IsAt(w, d, "rewrite")
  /\ json' = [json EXCEPT ![d] = [retryCount |-> attempt[w][d].retryCount, cooling |-> TRUE]]
  /\ GoTo(w, d, "over")
  /\ UNCHANGED <<kind, marker, failed, scan, crashes, sent, written, aborted, tries>>

\* failDelivery renames the updated copy of what it has read into place,
\* whatever has become of the entry in between.
RewriteEntry(w, d) ==
  /\ IsAt(w, d, "rewrite")
  /\ json' = [json EXCEPT ![d] = [retryCount |-> attempt[w][d].retryCount + 1, cooling |-> TRUE]]
  /\ GoTo(w, d, "over")
  /\ UNCHANGED <<kind, marker, failed, scan, crashes, sent, written, aborted, tries>>

\* moveToFailed; without an entry it throws, which is logged.
MoveToFailed(d) ==
  /\ IsAt("recovery", d, "move")
  /\ IF OnDisk(d)
       THEN json' = [json EXCEPT ![d] = NoFile] /\ failed' = failed \union {d}
       ELSE UNCHANGED <<json, failed>>
  /\ GoTo("recovery", d, "over")
  /\ UNCHANGED <<kind, marker, scan, crashes, sent, written, aborted, tries>>

-----------------------------------------------------------------------------
(* Recovery *)

\* The recovery is between two entries.
Scanning == \A d \in Deliveries : IsAt("recovery", d, "over")

\* Mutant: entries without a file are loaded too.
StartRecoveryLoadsAll ==
  /\ todo = {} /\ Scanning
  /\ todo' = {d \in Deliveries : OnDisk(d)}
  /\ loaded' = json
  /\ tried' = FALSE
  /\ marker' = {}
  /\ UNCHANGED <<kind, json, failed, attempt, crashes, sent, written, aborted, tries>>

\* A server starts and loads the entries of now; markers are cleaned up.
StartRecovery ==
  /\ todo = {} /\ Scanning
  /\ todo' = {d \in Deliveries : OnDisk(d)}
  /\ loaded' = [d \in Deliveries |-> IF OnDisk(d) THEN json[d] ELSE NewEntry]
  /\ tried' = FALSE
  /\ marker' = {}
  /\ UNCHANGED <<kind, json, failed, attempt, crashes, sent, written, aborted, tries>>

\* The oldest entry is next; what was loaded decides.
RecoverEntry(d) ==
  /\ d \in todo /\ Scanning
  /\ \A e \in todo : d <= e
  /\ todo' = todo \ {d}
  /\ IF loaded[d].retryCount >= MaxRetries
       THEN /\ GoTo("recovery", d, "move")
            /\ UNCHANGED <<tried, tries>>
     ELSE IF loaded[d].cooling
       THEN UNCHANGED <<attempt, tried, tries>>
     ELSE /\ Put("recovery", d, At("send"))
          /\ tried' = TRUE
          /\ tries' = [tries EXCEPT ![d] = @ + 1]
  /\ UNCHANGED <<kind, disk, loaded, crashes, sent, written, aborted>>

\* Mutant: the budget may be used up before the first attempt.
RecoveryBudgetUsedUp ==
  /\ todo # {} /\ Scanning
  /\ todo' = {}
  /\ UNCHANGED <<kind, disk, attempt, loaded, tried, crashes, sent, written, aborted, tries>>

\* maxRecoveryMs has passed, which needs an attempt that took some time.
RecoveryBudgetExceeded ==
  /\ todo # {} /\ Scanning /\ tried
  /\ todo' = {}
  /\ UNCHANGED <<kind, disk, attempt, loaded, tried, crashes, sent, written, aborted, tries>>

\* The backoff after the last attempt is over, for the entry and for the copy.
BackoffElapses(d) ==
  /\ OnDisk(d) /\ json[d].cooling
  /\ json' = [json EXCEPT ![d].cooling = FALSE]
  /\ loaded' = [loaded EXCEPT ![d].cooling = FALSE]
  /\ UNCHANGED <<kind, marker, failed, attempt, todo, tried, crashes, sent, written,
                 aborted, tries>>

\* The process dies; only the disk is left.
Crash ==
  /\ crashes < MaxCrashes
  /\ crashes' = crashes + 1
  /\ attempt' = [w \in Actors |-> [d \in Deliveries |->
                  IF IsAt(w, d, "new") THEN attempt[w][d] ELSE At("over")]]
  /\ todo' = {}
  /\ UNCHANGED <<kind, disk, loaded, tried, sent, written, aborted, tries>>

-----------------------------------------------------------------------------

Progress(w, d) ==
  \/ Send(w, d) \/ PassOver(w, d) \/ SendFails(w, d) \/ AllSent(w, d)
  \/ MarkDelivered(w, d) \/ RemoveMarker(w, d)
  \/ ReadEntry(w, d) \/ RewriteEntry(w, d)

LiveStep(d) == Deliver(d) \/ EnqueueDelivery(d) \/ EnqueueFails(d) \/ Abort(d)

Next ==
  \/ \E d \in Deliveries :
       \/ LiveStep(d)
       \/ \E w \in Actors : Progress(w, d)
       \/ MoveToFailed(d) \/ RecoverEntry(d) \/ BackoffElapses(d)
  \/ StartRecovery \/ RecoveryBudgetExceeded
  \/ Crash

Spec == Init /\ [][Next]_vars

\* Sends and file operations come back, backoffs elapse, and the gateway is
\* started again and again.
Fairness ==
  /\ \A d \in Deliveries : WF_vars(Progress("live", d)) /\ WF_vars(BackoffElapses(d))
  /\ WF_vars(\E d \in Deliveries :
               RecoverEntry(d) \/ MoveToFailed(d) \/ Progress("recovery", d))
  /\ WF_vars(StartRecovery)

FairSpec == Spec /\ Fairness

-----------------------------------------------------------------------------
(* Properties *)

Complete(d) == 1..Parts[d] \subseteq sent[d]

\* The queue's reason to be: a delivery that was written to disk is still
\* there, or set aside in failed/, unless all of its payloads have been sent
\* or its caller has aborted it, whatever crashes and races; it may lose
\* payloads only if it was called with bestEffort.
NothingForgotten ==
  \A d \in written : kind[d] = "strict" =>
    OnDisk(d) \/ d \in failed \/ d \in aborted \/ Complete(d)

\* Recovery attempts an entry MAX_RETRIES times, and again after each crash in
\* the middle of an attempt; the failDelivery of a live delivery that has read
\* the entry long ago may set the count back to 1, but only once.
RetriesAreBounded ==
  \A d \in Deliveries :
    tries[d] <= MaxRetries + crashes + (IF MaxRetries > 0 THEN MaxRetries - 1 ELSE 0)

\* No entry stays on disk for ever: neither backoff nor the time budget of a
\* recovery starves it.
EntriesSettle == \A d \in Deliveries : OnDisk(d) ~> ~OnDisk(d)

=============================================================================
