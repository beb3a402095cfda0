-------------------------- MODULE CronServiceProofs --------------------------
(***************************************************************************)
(* Proofs about CronService, for any jobs, schedules and services and any  *)
(* number of requests and troubles.                                        *)
(***************************************************************************)
EXTENDS CronService, FiniteSetTheorems, TLAPS

-----------------------------------------------------------------------------
(* Numbers *)

LEMMA Bounds ==
  /\ 0 \in 0..MaxTime /\ MaxTime \in Nat \ {0} /\ MaxRetries \in Nat /\ StuckAfter \in Nat
  /\ Period \in Nat \ {0} /\ Backoff \in Nat \ {0} /\ Stagger \in Nat \ {0}
  /\ AtTimes \subseteq Nat \ {0}
  /\ Outcomes \subseteq {"ok", "skipped", "transient", "permanent"}
  /\ MaxRequests \in Nat /\ MaxTroubles \in Nat
  /\ MaxServices \in Nat \ {0} /\ NoService \notin Services
BY CronAssumption DEF CronAssumption

LEMMA KindsAre ==
  ASSUME kind \in Mixes, NEW j \in Jobs
  PROVE  kind[j] \in {"at", "every", "cron"}
BY CronAssumption DEF CronAssumption, Kinds

LEMMA Products ==
  ASSUME NEW a \in Nat \ {0}, NEW b \in Nat \ {0}
  PROVE  a * b \in Nat \ {0}
OBVIOUS

LEMMA Quotients ==
  ASSUME NEW t \in Nat
  PROVE  t \div Period \in Nat
BY Bounds

LEMMA NextSlotIsLater ==
  ASSUME NEW t \in Nat
  PROVE  NextSlot(t) \in Nat \ {0}
<1> DEFINE q == (t + Period - 1) \div Period
<1>1. t + Period - 1 \in Nat
  BY Bounds
<1>2. q \in Nat
  BY <1>1, Quotients
<1> HIDE DEF q
<1>3. Larger(1, q) \in Nat \ {0}
  BY <1>2 DEF Larger
<1> QED
  BY <1>3, Bounds, Products DEF NextSlot, q

LEMMA NextFireIsLater ==
  ASSUME NEW t \in Nat
  PROVE  NextFire(t) \in Nat \ {0}
<1>1. t \div Period + 1 \in Nat \ {0}
  BY Quotients
<1> QED
  BY <1>1, Bounds, Products DEF NextFire

-----------------------------------------------------------------------------
(* Records *)

\* An enabled job without a next run is a one-shot job that has run since its
\* time.
Sound(j, r) ==
  /\ kind[j] = "at" => r.at # 0
  /\ r.enabled /\ r.next = 0 => kind[j] = "at" /\ r.status = "ok" /\ r.last # 0 /\ r.at <= r.last

LEMMA Fields ==
  ASSUME NEW r \in Records
  PROVE  /\ r.enabled \in BOOLEAN /\ r.at \in Nat /\ r.next \in Nat /\ r.running \in 0..MaxTime
         /\ r.last \in 0..MaxTime /\ r.errors \in 0..MaxRetries + 1
         /\ r.running \in Nat /\ r.last \in Nat
         /\ r.status \in {"none", "ok", "skipped", "error"}
<1>1. /\ r.enabled \in BOOLEAN /\ r.at \in {0} \union AtTimes /\ r.next \in Nat
      /\ r.running \in 0..MaxTime /\ r.last \in 0..MaxTime
      /\ r.errors \in 0..MaxRetries + 1 /\ r.status \in {"none", "ok", "skipped", "error"}
  BY DEF Records
<1>2. \A t \in 0..MaxTime : t \in Nat
  OBVIOUS
<1>3. \A t \in {0} \union AtTimes : t \in Nat
  BY Bounds
<1> QED
  BY <1>1, <1>2, <1>3

LEMMA NextChanges ==
  ASSUME NEW r \in Records, NEW n \in Nat
  PROVE  [r EXCEPT !.next = n] \in Records
BY DEF Records

LEMMA MarkerChanges ==
  ASSUME NEW r \in Records, NEW t \in 0..MaxTime
  PROVE  [r EXCEPT !.running = t] \in Records
BY DEF Records

LEMMA Disabled ==
  ASSUME NEW r \in Records
  PROVE  [r EXCEPT !.next = 0, !.running = 0] \in Records
BY Bounds DEF Records

LEMMA ComputeNextLemma ==
  ASSUME kind \in Mixes, NEW j \in Jobs, NEW t \in Nat, NEW r, r.at \in Nat, r.last \in Nat
  PROVE  /\ ComputeNext(j, r, t) \in Nat
         /\ r.enabled /\ ComputeNext(j, r, t) = 0 /\ (kind[j] = "at" => r.at # 0) =>
              kind[j] = "at" /\ r.status = "ok" /\ r.last # 0 /\ r.at <= r.last
         /\ ~r.enabled => ComputeNext(j, r, t) = 0
<1>1. CASE ~r.enabled
  BY <1>1 DEF ComputeNext
<1>2. CASE r.enabled /\ kind[j] = "every"
  <2>1. ComputeNext(j, r, t) =
          IF r.last # 0 /\ r.last + Period > t THEN r.last + Period ELSE NextSlot(t)
    BY <1>2 DEF ComputeNext
  <2> QED
    BY <1>2, <2>1, Bounds, NextSlotIsLater
<1>3. CASE r.enabled /\ kind[j] = "at"
  <2>1. ComputeNext(j, r, t) =
          IF r.status = "ok" /\ r.last # 0 /\ r.at <= r.last THEN 0 ELSE r.at
    BY <1>3 DEF ComputeNext
  <2> QED
    BY <1>3, <2>1
<1>4. CASE r.enabled /\ kind[j] = "cron"
  <2>1. ComputeNext(j, r, t) = NextFire(t)
    BY <1>4 DEF ComputeNext
  <2> QED
    BY <1>4, <2>1, NextFireIsLater
<1> QED
  BY <1>1, <1>2, <1>3, <1>4, KindsAre

\* What maintenance and the results of runs do to a record.
Wakes(r) == r.enabled /\ r.next # 0
IsStuck(r) == r.running # 0 /\ now - r.running > StuckAfter
Lasts(r) == r.running # 0 /\ r.enabled /\ ~IsStuck(r)

LEMMA NormalizedLemma ==
  ASSUME NEW r \in Records, NEW j \in Jobs
  PROVE  /\ Normalized(r) \in Records
         /\ Normalized(r).enabled <=> r.enabled
         /\ Normalized(r).at = r.at /\ Normalized(r).last = r.last
         /\ Normalized(r).status = r.status
         /\ r.enabled => Normalized(r).next = r.next
         /\ ~r.enabled => Normalized(r).next = 0
         /\ Lasts(r) => Normalized(r).running = r.running
         /\ Normalized(r).running \in {0, r.running}
<1>1. [r EXCEPT !.next = 0, !.running = 0] \in Records /\ [r EXCEPT !.running = 0] \in Records
  BY Disabled, MarkerChanges, Bounds
<1>2. CASE ~r.enabled
  <2>1. Normalized(r) = [r EXCEPT !.next = 0, !.running = 0]
    BY <1>2 DEF Normalized
  <2> QED
    BY <1>1, <1>2, <2>1 DEF Lasts, Records
<1>3. CASE r.enabled /\ IsStuck(r)
  <2>1. Normalized(r) = [r EXCEPT !.running = 0]
    BY <1>3 DEF Normalized, IsStuck
  <2> QED
    BY <1>1, <1>3, <2>1 DEF Lasts, Records
<1>4. CASE r.enabled /\ ~IsStuck(r)
  <2>1. Normalized(r) = r
    BY <1>4 DEF Normalized, IsStuck
  <2> QED
    BY <1>4, <2>1
<1> QED
  BY <1>2, <1>3, <1>4

Tended(j, r, stale) == Repaired(j, Normalized(r), stale)

LEMMA TendedRecord ==
  ASSUME kind \in Mixes, now \in Nat, NEW j \in Jobs, NEW r \in Records, NEW stale
  PROVE  /\ Tended(j, r, stale) \in Records
         /\ Tended(j, r, stale).enabled <=> r.enabled
         /\ Tended(j, r, stale).last = r.last
         /\ Lasts(r) => Tended(j, r, stale).running = r.running
         /\ Sound(j, r) => Sound(j, Tended(j, r, stale))
         /\ Sound(j, r) /\ Wakes(Tended(j, r, stale)) => Wakes(r)
         /\ Wakes(r) /\ ~stale => Tended(j, r, stale).next = r.next
<1> DEFINE n == Normalized(r)
<1>1. /\ n \in Records /\ (n.enabled <=> r.enabled) /\ n.at = r.at /\ n.last = r.last
      /\ n.status = r.status /\ (r.enabled => n.next = r.next) /\ (~r.enabled => n.next = 0)
      /\ (Lasts(r) => n.running = r.running)
  BY NormalizedLemma
<1>2. n.at \in Nat /\ n.last \in Nat /\ n.next \in Nat
  BY <1>1, Fields
<1> DEFINE c == ComputeNext(j, n, now)
<1>3. /\ c \in Nat
      /\ n.enabled /\ c = 0 /\ (kind[j] = "at" => n.at # 0) =>
           kind[j] = "at" /\ n.status = "ok" /\ n.last # 0 /\ n.at <= n.last
      /\ ~n.enabled => c = 0
  BY <1>2, ComputeNextLemma
<1>4. kind[j] = "at" /\ n.status = "ok" /\ n.last # 0 /\ n.at <= n.last => ~n.enabled \/ c = 0
  BY DEF ComputeNext
<1>5. Tended(j, r, stale) = IF n.enabled /\ (n.next = 0 \/ stale) THEN [n EXCEPT !.next = c] ELSE n
  BY DEF Tended, Repaired
<1> HIDE DEF n, c
<1>6. CASE n.enabled /\ (n.next = 0 \/ stale)
  <2>1. Tended(j, r, stale) = [n EXCEPT !.next = c]
    BY <1>5, <1>6
  <2>2. [n EXCEPT !.next = c] \in Records
    BY <1>1, <1>3, NextChanges
  <2>3. /\ [n EXCEPT !.next = c].enabled = n.enabled /\ [n EXCEPT !.next = c].next = c
        /\ [n EXCEPT !.next = c].at = n.at /\ [n EXCEPT !.next = c].last = n.last
        /\ [n EXCEPT !.next = c].status = n.status /\ [n EXCEPT !.next = c].running = n.running
    BY <1>1 DEF Records
  <2> QED
    BY <1>1, <1>3, <1>4, <1>6, <2>1, <2>2, <2>3 DEF Sound, Wakes
<1>7. CASE ~(n.enabled /\ (n.next = 0 \/ stale))
  <2>1. Tended(j, r, stale) = n
    BY <1>5, <1>7
  <2> QED
    BY <1>1, <1>7, <2>1 DEF Sound, Wakes
<1> QED
  BY <1>6, <1>7

\* What is known of a run whose result is applied.
Ran(run) ==
  /\ run.started \in 0..MaxTime /\ run.ended \in 0..MaxTime
  /\ run.outcome \in Outcomes \union {"ok"}

LEMMA Retried ==
  ASSUME NEW r \in Records, NEW run, Ran(run), NEW e \in 0..MaxRetries + 1,
         NEW st \in {"none", "ok", "skipped", "error"}
  PROVE  [r EXCEPT !.running = 0, !.last = run.started, !.errors = e, !.status = st] \in Records
BY Bounds DEF Records, Ran

LEMMA SwitchedOff ==
  ASSUME NEW r \in Records
  PROVE  [r EXCEPT !.enabled = FALSE, !.next = 0] \in Records
BY DEF Records

LEMMA WithResultLemma ==
  ASSUME kind \in Mixes, NEW j \in Jobs, NEW r \in Records, NEW run, Ran(run), NEW preserve \in BOOLEAN
  PROVE  /\ WithResult(j, r, run, preserve) \in Records
         /\ WithResult(j, r, run, preserve).running = 0
         /\ WithResult(j, r, run, preserve).at = r.at
         /\ ~(/\ WithResult(j, r, run, preserve).enabled
              /\ WithResult(j, r, run, preserve).next = 0)
<1> DEFINE failed == run.outcome \in {"transient", "permanent"}
           errors == IF ~failed THEN 0
                     ELSE IF r.errors > MaxRetries THEN r.errors ELSE r.errors + 1
           status == IF failed THEN "error" ELSE run.outcome
           s == [r EXCEPT !.running = 0, !.last = run.started, !.errors = errors,
                          !.status = status]
           q == IF preserve /\ kind[j] = "every" THEN [s EXCEPT !.last = r.last] ELSE s
           natural == ComputeNext(j, q, run.ended)
<1>1. errors \in 0..MaxRetries + 1
  BY Bounds, Fields
<1>2. status \in {"none", "ok", "skipped", "error"}
  BY Bounds DEF Ran
<1>3. s \in Records
  BY <1>1, <1>2, Retried
<1>4. s.running = 0 /\ s.at = r.at /\ (s.enabled <=> r.enabled)
  BY DEF Records
<1>5. q.at \in Nat /\ q.last \in Nat /\ q.enabled = s.enabled
  <2>1. r.last \in Nat /\ s.at \in Nat /\ s.last \in Nat
    BY <1>3, Fields
  <2>2. CASE preserve /\ kind[j] = "every"
    <3>1. q = [s EXCEPT !.last = r.last]
      BY <2>2
    <3> QED
      BY <1>3, <2>1, <3>1 DEF Records
  <2>3. CASE ~(preserve /\ kind[j] = "every")
    BY <2>1, <2>3
  <2> QED
    BY <2>2, <2>3
<1>6. run.ended \in Nat
  BY Bounds DEF Ran
<1>7. natural \in Nat /\ (q.enabled /\ kind[j] # "at" => natural # 0)
  BY <1>5, <1>6, ComputeNextLemma
<1>8. WithResult(j, r, run, preserve) =
        IF kind[j] = "at"
        THEN IF run.outcome = "transient" /\ errors <= MaxRetries
             THEN [s EXCEPT !.next = run.ended + Backoff]
             ELSE [s EXCEPT !.enabled = FALSE, !.next = 0]
        ELSE [s EXCEPT !.next = IF failed /\ r.enabled THEN Larger(natural, run.ended + Backoff)
                                ELSE natural]
  BY DEF WithResult
<1> HIDE DEF failed, errors, status, s, q, natural
<1>9. run.ended + Backoff \in Nat \ {0}
  BY <1>6, Bounds
<1>10. ASSUME NEW n \in Nat
       PROVE  /\ [s EXCEPT !.next = n] \in Records /\ [s EXCEPT !.next = n].running = 0
              /\ [s EXCEPT !.next = n].at = r.at /\ [s EXCEPT !.next = n].next = n
              /\ [s EXCEPT !.next = n].enabled = s.enabled
  BY <1>3, <1>4 DEF Records
<1>11. CASE kind[j] = "at" /\ run.outcome = "transient" /\ errors <= MaxRetries
  BY <1>8, <1>9, <1>10, <1>11
<1>12. CASE kind[j] = "at" /\ ~(run.outcome = "transient" /\ errors <= MaxRetries)
  <2>1. WithResult(j, r, run, preserve) = [s EXCEPT !.enabled = FALSE, !.next = 0]
    BY <1>8, <1>12
  <2>2. [s EXCEPT !.enabled = FALSE, !.next = 0] \in Records
    BY <1>3, SwitchedOff
  <2>3. /\ [s EXCEPT !.enabled = FALSE, !.next = 0].enabled = FALSE
        /\ [s EXCEPT !.enabled = FALSE, !.next = 0].running = s.running
        /\ [s EXCEPT !.enabled = FALSE, !.next = 0].at = s.at
    BY <1>3 DEF Records
  <2> QED
    BY <1>4, <2>1, <2>2, <2>3
<1>13. CASE kind[j] # "at"
  <2> DEFINE n == IF failed /\ r.enabled THEN Larger(natural, run.ended + Backoff) ELSE natural
  <2>1. WithResult(j, r, run, preserve) = [s EXCEPT !.next = n]
    BY <1>8, <1>13
  <2>2. n \in Nat /\ (q.enabled => n # 0)
    BY <1>7, <1>9, <1>13 DEF Larger
  <2> HIDE DEF n
  <2> QED
    BY <1>5, <1>10, <2>1, <2>2
<1> QED
  BY <1>11, <1>12, <1>13

LEMMA CreatedLemma ==
  ASSUME kind \in Mixes, now \in Nat, NEW j \in Jobs, NEW at \in AtTimes \union {0}
  PROVE  Created(j, at) \in Records /\ ((kind[j] = "at" => at # 0) => Sound(j, Created(j, at)))
<1> DEFINE r == [enabled |-> TRUE, at |-> at, next |-> 0, running |-> 0, last |-> 0,
                 status |-> "none", errors |-> 0]
           n == ComputeNext(j, r, now)
<1>1. at \in Nat
  BY Bounds
<1>2. r \in Records
  BY Bounds DEF Records
<1>3. n \in Nat /\ (n = 0 /\ (kind[j] = "at" => at # 0) => r.status = "ok")
  BY <1>1, ComputeNextLemma
<1>4. Created(j, at) = [r EXCEPT !.next = n]
  BY DEF Created
<1> HIDE DEF n
<1>5. [r EXCEPT !.next = n] \in Records
  BY <1>2, <1>3, NextChanges
<1>6. [r EXCEPT !.next = n].at = at /\ [r EXCEPT !.next = n].next = n
  OBVIOUS
<1> QED
  BY <1>3, <1>4, <1>5, <1>6 DEF Sound

LEMMA PatchedLemma ==
  ASSUME kind \in Mixes, now \in Nat, NEW j \in Jobs, NEW r \in Records,
         NEW at \in AtTimes \union {0}, kind[j] = "at" => at # 0,
         NEW patch \in {"enable", "disable", "schedule", "other"}
  PROVE  /\ Patched(j, r, patch, at) \in Records
         /\ Sound(j, r) => Sound(j, Patched(j, r, patch, at))
         /\ Patched(j, r, patch, at).enabled => Patched(j, r, patch, at).running = r.running
<1> DEFINE en == IF patch = "enable" THEN TRUE ELSE IF patch = "disable" THEN FALSE ELSE r.enabled
           time == IF patch = "schedule" THEN at ELSE r.at
           s == [r EXCEPT !.enabled = en, !.at = time]
           n == ComputeNext(j, s, now)
<1>1. s \in Records /\ s.running = r.running /\ s.next = r.next /\ s.at = time
      /\ s.last = r.last /\ s.status = r.status /\ s.enabled = en /\ s.enabled \in BOOLEAN
  BY DEF Records
<1>2. Sound(j, r) /\ kind[j] = "at" => s.at # 0
  BY <1>1 DEF Sound
<1> HIDE DEF s
<1>3. /\ n \in Nat
      /\ s.enabled /\ n = 0 /\ (kind[j] = "at" => s.at # 0) =>
           kind[j] = "at" /\ s.status = "ok" /\ s.last # 0 /\ s.at <= s.last
  <2>1. s.at \in Nat /\ s.last \in Nat
    BY <1>1, Fields
  <2> QED
    BY <2>1, ComputeNextLemma
<1>4. Patched(j, r, patch, at) =
        IF patch # "other"
        THEN IF s.enabled THEN [s EXCEPT !.next = n] ELSE [s EXCEPT !.next = 0, !.running = 0]
        ELSE IF s.enabled /\ s.next = 0 THEN [s EXCEPT !.next = n] ELSE s
  BY DEF Patched, s
<1>5. patch = "other" => s = r
  BY DEF Records, s
<1> HIDE DEF n, time, en
<1>6. /\ [s EXCEPT !.next = n] \in Records /\ [s EXCEPT !.next = n].running = s.running
      /\ [s EXCEPT !.next = n].at = s.at /\ [s EXCEPT !.next = n].next = n
      /\ [s EXCEPT !.next = n].last = s.last /\ [s EXCEPT !.next = n].status = s.status
      /\ [s EXCEPT !.next = n].enabled = s.enabled
  BY <1>1, <1>3 DEF Records
<1>7. CASE s.enabled /\ (patch = "other" => s.next = 0)
  <2>1. Patched(j, r, patch, at) = [s EXCEPT !.next = n]
    BY <1>4, <1>7
  <2> QED
    BY <1>1, <1>2, <1>3, <1>6, <2>1 DEF Sound
<1>8. CASE patch # "other" /\ ~s.enabled
  <2>1. Patched(j, r, patch, at) = [s EXCEPT !.next = 0, !.running = 0]
    BY <1>4, <1>8
  <2>2. [s EXCEPT !.next = 0, !.running = 0] \in Records
    BY <1>1, Disabled
  <2>3. [s EXCEPT !.next = 0, !.running = 0].enabled = s.enabled /\ [s EXCEPT !.next = 0, !.running = 0].at = s.at
    BY <1>1 DEF Records
  <2> QED
    BY <1>2, <1>8, <2>1, <2>2, <2>3 DEF Sound
<1>9. CASE patch = "other" /\ ~(s.enabled /\ s.next = 0)
  <2>1. Patched(j, r, patch, at) = r
    BY <1>4, <1>5, <1>9
  <2> QED
    BY <2>1
<1> QED
  BY <1>7, <1>8, <1>9

-----------------------------------------------------------------------------
(* Stores *)

SoundStore(S) == \A j \in DOMAIN S : Sound(j, S[j])

\* If S has the job, it is marked; maintenance leaves the marker.
MarkedIn(S, j) == j \in DOMAIN S => S[j].running # 0
Firm(S, j) == j \in DOMAIN S => Lasts(S[j])

LEMMA StoreLemma ==
  ASSUME NEW S, IsStore(S)
  PROVE  S \in [DOMAIN S -> Records] /\ DOMAIN S \subseteq Jobs
BY DEF IsStore

LEMMA StoreIs ==
  ASSUME NEW D \in SUBSET Jobs, NEW S \in [D -> Records]
  PROVE  IsStore(S) /\ DOMAIN S = D
BY DEF IsStore

LEMMA NoStoreLemma ==
  ASSUME NEW S, IsStore(S)
  PROVE  S # NoStore
BY CronAssumption DEF CronAssumption

\* T comes from S by maintenance.
TendedStore(S, T) ==
  /\ DOMAIN T = DOMAIN S
  /\ \E stale \in [DOMAIN S -> BOOLEAN] :
       T = [j \in DOMAIN S |-> Tended(j, S[j], stale[j])]

LEMMA TendedStoreLemma ==
  ASSUME kind \in Mixes, now \in Nat, NEW S, IsStore(S), NEW T, TendedStore(S, T)
  PROVE  /\ IsStore(T) /\ DOMAIN T = DOMAIN S
         /\ SoundStore(S) => SoundStore(T)
         /\ SoundStore(S) /\ HasWake(T) => HasWake(S)
         /\ \A j : Firm(S, j) => Firm(T, j) /\ MarkedIn(T, j)
         /\ \A j \in DOMAIN S : T[j].last = S[j].last
<1>1. S \in [DOMAIN S -> Records] /\ DOMAIN S \subseteq Jobs
  BY StoreLemma
<1>2. PICK stale \in [DOMAIN S -> BOOLEAN] : T = [j \in DOMAIN S |-> Tended(j, S[j], stale[j])]
  BY DEF TendedStore
<1>3. ASSUME NEW j \in DOMAIN S
      PROVE  /\ T[j] \in Records /\ T[j].last = S[j].last
             /\ T[j].enabled <=> S[j].enabled
             /\ Lasts(S[j]) => T[j].running = S[j].running
             /\ Sound(j, S[j]) => Sound(j, T[j])
             /\ Sound(j, S[j]) /\ Wakes(T[j]) => Wakes(S[j])
  <2>1. T[j] = Tended(j, S[j], stale[j])
    BY <1>2
  <2>2. j \in Jobs /\ S[j] \in Records
    BY <1>1
  <2> QED
    BY <2>1, <2>2, TendedRecord
<1>4. DOMAIN T = DOMAIN S
  BY <1>2
<1>5. IsStore(T)
  <2>1. T \in [DOMAIN S -> Records]
    BY <1>2, <1>3, <1>4
  <2> QED
    BY <1>1, <2>1, StoreIs
<1>6. SoundStore(S) => SoundStore(T)
  BY <1>3, <1>4 DEF SoundStore
<1>7. SoundStore(S) /\ HasWake(T) => HasWake(S)
  BY <1>3, <1>4 DEF SoundStore, HasWake, Wakes
<1>8. ASSUME NEW j, Firm(S, j) PROVE Firm(T, j) /\ MarkedIn(T, j)
  BY <1>3, <1>4, <1>8 DEF Firm, MarkedIn, Lasts, IsStuck
<1> QED
  BY <1>3, <1>4, <1>5, <1>6, <1>7, <1>8

LEMMA MaintainedIsTended ==
  ASSUME NEW S, NEW b
  PROVE  TendedStore(S, Maintained(S, b))
<1> DEFINE stale == [j \in DOMAIN S |->
                       (b /\ now >= Normalized(S[j]).next /\ Executed(Normalized(S[j]))) = TRUE]
<1>1. stale \in [DOMAIN S -> BOOLEAN]
  OBVIOUS
<1>2. Maintained(S, b) = [j \in DOMAIN S |-> Tended(j, S[j], stale[j])]
  BY DEF Maintained, Tended, Repaired
<1> QED
  BY <1>1, <1>2 DEF TendedStore

LEMMA RecomputedIsTended ==
  ASSUME NEW S
  PROVE  TendedStore(S, RecomputeNextRuns(S))
<1> DEFINE stale == [j \in DOMAIN S |-> (now >= Normalized(S[j]).next) = TRUE]
<1>1. stale \in [DOMAIN S -> BOOLEAN]
  OBVIOUS
<1>2. RecomputeNextRuns(S) = [j \in DOMAIN S |-> Tended(j, S[j], stale[j])]
  BY DEF RecomputeNextRuns, Tended, Repaired
<1> QED
  BY <1>1, <1>2 DEF TendedStore

LEMMA MarkedLemma ==
  ASSUME now \in 1..MaxTime, NEW S, IsStore(S), NEW J
  PROVE  /\ IsStore(Marked(S, J)) /\ DOMAIN Marked(S, J) = DOMAIN S
         /\ SoundStore(S) => SoundStore(Marked(S, J))
         /\ HasWake(Marked(S, J)) <=> HasWake(S)
         /\ \A j : MarkedIn(S, j) \/ j \in J => MarkedIn(Marked(S, J), j)
         /\ \A j \in DOMAIN S : Marked(S, J)[j].next = S[j].next
<1> DEFINE T == Marked(S, J)
<1>1. S \in [DOMAIN S -> Records] /\ DOMAIN S \subseteq Jobs
  BY StoreLemma
<1>2. now \in 0..MaxTime /\ now # 0
  BY Bounds
<1>3. T = [j \in DOMAIN S |-> IF j \in J THEN [S[j] EXCEPT !.running = now] ELSE S[j]]
  BY DEF Marked
<1> HIDE DEF T
<1>4. ASSUME NEW r \in Records
      PROVE  LET t == [r EXCEPT !.running = now] IN
             /\ t \in Records /\ t.running = now /\ t.next = r.next /\ t.enabled = r.enabled
             /\ t.at = r.at /\ t.last = r.last /\ t.status = r.status
  BY <1>2, MarkerChanges DEF Records
<1>5. ASSUME NEW j \in DOMAIN S
      PROVE  /\ T[j] \in Records /\ T[j].next = S[j].next /\ T[j].enabled = S[j].enabled
             /\ Sound(j, S[j]) => Sound(j, T[j])
             /\ S[j].running # 0 \/ j \in J => T[j].running # 0
  <2>1. CASE j \in J
    <3>1. T[j] = [S[j] EXCEPT !.running = now]
      BY <1>3, <2>1
    <3> QED
      BY <1>1, <1>2, <1>4, <3>1 DEF Sound
  <2>2. CASE j \notin J
    BY <1>1, <1>3, <2>2
  <2> QED
    BY <2>1, <2>2
<1>6. T \in [DOMAIN S -> Records]
  BY <1>3, <1>5
<1>7. IsStore(T) /\ DOMAIN T = DOMAIN S
  BY <1>1, <1>6, StoreIs
<1>8. SoundStore(S) => SoundStore(T)
  BY <1>5, <1>7 DEF SoundStore
<1>9. HasWake(T) <=> HasWake(S)
  BY <1>5, <1>7 DEF HasWake
<1>10. \A j : MarkedIn(S, j) \/ j \in J => MarkedIn(T, j)
  BY <1>5, <1>7 DEF MarkedIn
<1> QED
  BY <1>5, <1>7, <1>8, <1>9, <1>10 DEF T

LEMMA OneMarkedLemma ==
  ASSUME NEW S, IsStore(S), NEW k \in DOMAIN S, NEW t \in 0..MaxTime
  PROVE  LET T == [S EXCEPT ![k].running = t] IN
         /\ IsStore(T) /\ DOMAIN T = DOMAIN S
         /\ SoundStore(S) => SoundStore(T)
         /\ HasWake(T) <=> HasWake(S)
         /\ t # 0 => MarkedIn(T, k) /\ \A j : MarkedIn(S, j) => MarkedIn(T, j)
         /\ \A j \in DOMAIN S : T[j].next = S[j].next
<1> DEFINE T == [S EXCEPT ![k].running = t]
<1>1. S \in [DOMAIN S -> Records] /\ DOMAIN S \subseteq Jobs
  BY StoreLemma
<1>2. ASSUME NEW r \in Records
      PROVE  LET u == [r EXCEPT !.running = t] IN
             /\ u \in Records /\ u.running = t /\ u.next = r.next /\ u.enabled = r.enabled
             /\ u.at = r.at /\ u.last = r.last /\ u.status = r.status
  BY MarkerChanges DEF Records
<1>3. DOMAIN T = DOMAIN S /\ T[k] = [S[k] EXCEPT !.running = t]
  BY <1>1
<1>4. \A j \in DOMAIN S : j # k => T[j] = S[j]
  BY <1>1
<1>5. T = [j \in DOMAIN S |-> T[j]]
  BY <1>1
<1> HIDE DEF T
<1>6. ASSUME NEW j \in DOMAIN S
      PROVE  /\ T[j] \in Records /\ T[j].next = S[j].next /\ T[j].enabled = S[j].enabled
             /\ Sound(j, S[j]) => Sound(j, T[j])
             /\ t # 0 /\ (S[j].running # 0 \/ j = k) => T[j].running # 0
  <2>1. CASE j = k
    <3>1. /\ T[k] \in Records /\ T[k].running = t /\ T[k].next = S[k].next
          /\ T[k].enabled = S[k].enabled /\ T[k].at = S[k].at /\ T[k].last = S[k].last
          /\ T[k].status = S[k].status
      BY <1>1, <1>2, <1>3
    <3> QED
      BY <2>1, <3>1 DEF Sound
  <2>2. CASE j # k
    BY <1>1, <1>4, <2>2
  <2> QED
    BY <2>1, <2>2
<1>7. T \in [DOMAIN S -> Records]
  BY <1>5, <1>6
<1>8. IsStore(T)
  BY <1>1, <1>7, StoreIs
<1>9. SoundStore(S) => SoundStore(T)
  BY <1>3, <1>6 DEF SoundStore
<1>10. HasWake(T) <=> HasWake(S)
  BY <1>3, <1>6 DEF HasWake
<1>11. t # 0 => MarkedIn(T, k) /\ \A j : MarkedIn(S, j) => MarkedIn(T, j)
  BY <1>3, <1>6 DEF MarkedIn
<1> QED
  BY <1>3, <1>6, <1>8, <1>9, <1>10, <1>11 DEF T

LEMMA ClearedLemma ==
  ASSUME NEW S, IsStore(S)
  PROVE  LET T == [j \in DOMAIN S |-> [S[j] EXCEPT !.running = 0]] IN
         /\ IsStore(T) /\ DOMAIN T = DOMAIN S
         /\ SoundStore(S) => SoundStore(T)
         /\ \A j \in DOMAIN S : T[j].next = S[j].next
<1> DEFINE T == [j \in DOMAIN S |-> [S[j] EXCEPT !.running = 0]]
<1>1. S \in [DOMAIN S -> Records] /\ DOMAIN S \subseteq Jobs
  BY StoreLemma
<1>2. ASSUME NEW r \in Records
      PROVE  LET u == [r EXCEPT !.running = 0] IN
             /\ u \in Records /\ u.next = r.next /\ u.enabled = r.enabled
             /\ u.at = r.at /\ u.last = r.last /\ u.status = r.status
  BY Bounds, MarkerChanges DEF Records
<1>3. ASSUME NEW j \in DOMAIN S
      PROVE  T[j] \in Records /\ T[j].next = S[j].next /\ (Sound(j, S[j]) => Sound(j, T[j]))
  BY <1>1, <1>2 DEF Sound
<1>4. T \in [DOMAIN S -> Records]
  BY <1>3
<1> HIDE DEF T
<1>5. IsStore(T) /\ DOMAIN T = DOMAIN S
  BY <1>1, <1>4, StoreIs
<1>6. SoundStore(S) => SoundStore(T)
  BY <1>3, <1>5 DEF SoundStore
<1> QED
  BY <1>3, <1>5, <1>6 DEF T

LEMMA RunsEnd ==
  ASSUME NEW run \in Runs
  PROVE  Ran(run)
BY DEF Runs, Ran

LEMMA WithResultsLemma ==
  ASSUME kind \in Mixes, NEW S, IsStore(S), NEW D \in [Jobs -> Runs]
  PROVE  /\ IsStore(WithResults(S, D)) /\ DOMAIN WithResults(S, D) \subseteq DOMAIN S
         /\ SoundStore(S) => SoundStore(WithResults(S, D))
         /\ \A j \in DOMAIN WithResults(S, D) :
              D[j].state # "done" => WithResults(S, D)[j] = S[j]
<1> DEFINE I == {j \in DOMAIN S : D[j].state # "done" \/ ~Deletes(j, D[j])}
           T == WithResults(S, D)
<1>1. S \in [DOMAIN S -> Records] /\ DOMAIN S \subseteq Jobs
  BY StoreLemma
<1>2. T = [j \in I |-> IF D[j].state = "done" THEN WithResult(j, S[j], D[j], FALSE) ELSE S[j]]
  BY DEF WithResults
<1>3. I \subseteq DOMAIN S
  OBVIOUS
<1> HIDE DEF T, I
<1>4. ASSUME NEW j \in I
      PROVE  /\ T[j] \in Records /\ (Sound(j, S[j]) => Sound(j, T[j]))
             /\ D[j].state # "done" => T[j] = S[j]
  <2>1. j \in Jobs /\ S[j] \in Records /\ D[j] \in Runs
    BY <1>1, <1>3
  <2>2. CASE D[j].state = "done"
    <3> DEFINE r == WithResult(j, S[j], D[j], FALSE)
    <3>1. T[j] = r
      BY <1>2, <2>2
    <3>2. Ran(D[j])
      BY <2>1, RunsEnd
    <3>3. S[j] \in Records /\ j \in Jobs /\ FALSE \in BOOLEAN
      BY <2>1
    <3>4. r \in Records /\ r.at = S[j].at /\ ~(r.enabled /\ r.next = 0)
      BY <3>2, <3>3, WithResultLemma
    <3> HIDE DEF r
    <3> QED
      BY <2>2, <3>1, <3>4 DEF Sound
  <2>3. CASE D[j].state # "done"
    BY <1>2, <2>1, <2>3
  <2> QED
    BY <2>2, <2>3
<1>5. T \in [I -> Records]
  BY <1>2, <1>4
<1>6. IsStore(T) /\ DOMAIN T = I
  BY <1>1, <1>3, <1>5, StoreIs
<1>7. SoundStore(S) => SoundStore(T)
  BY <1>3, <1>4, <1>6 DEF SoundStore
<1> QED
  BY <1>3, <1>4, <1>6, <1>7 DEF T

\* The slots of deferred jobs.
LEMMA DeferredLemma ==
  ASSUME now \in Nat, NEW S, IsStore(S), NEW L
  PROVE  LET T == [j \in DOMAIN S |->
                     IF j \in L /\ S[j].enabled THEN [S[j] EXCEPT !.next = now + Stagger] ELSE S[j]] IN
         /\ IsStore(T) /\ DOMAIN T = DOMAIN S
         /\ SoundStore(S) => SoundStore(T)
         /\ \A j : Firm(S, j) => Firm(T, j)
         /\ \A j \in DOMAIN S : j \notin L => T[j] = S[j]
<1> DEFINE T == [j \in DOMAIN S |->
                   IF j \in L /\ S[j].enabled THEN [S[j] EXCEPT !.next = now + Stagger] ELSE S[j]]
<1>1. S \in [DOMAIN S -> Records] /\ DOMAIN S \subseteq Jobs
  BY StoreLemma
<1>2. now + Stagger \in Nat \ {0}
  BY Bounds
<1>3. ASSUME NEW r \in Records
      PROVE  LET u == [r EXCEPT !.next = now + Stagger] IN
             /\ u \in Records /\ u.next = now + Stagger /\ u.enabled = r.enabled
             /\ u.at = r.at /\ u.running = r.running
  BY <1>2, NextChanges DEF Records
<1>4. ASSUME NEW j \in DOMAIN S
      PROVE  /\ T[j] \in Records /\ (Sound(j, S[j]) => Sound(j, T[j]))
             /\ Lasts(S[j]) => Lasts(T[j])
             /\ j \notin L => T[j] = S[j]
  <2>1. CASE j \in L /\ S[j].enabled
    <3>1. T[j] = [S[j] EXCEPT !.next = now + Stagger]
      BY <2>1
    <3> QED
      BY <1>1, <1>2, <1>3, <2>1, <3>1 DEF Sound, Lasts, IsStuck
  <2>2. CASE ~(j \in L /\ S[j].enabled)
    BY <1>1, <2>2
  <2> QED
    BY <2>1, <2>2
<1>5. T \in [DOMAIN S -> Records]
  BY <1>4
<1>6. IsStore(T) /\ DOMAIN T = DOMAIN S
  BY <1>1, <1>5, StoreIs
<1> HIDE DEF T
<1>7. SoundStore(S) => SoundStore(T)
  BY <1>4, <1>6 DEF SoundStore
<1>8. \A j : Firm(S, j) => Firm(T, j)
  BY <1>4, <1>6 DEF Firm
<1> QED
  BY <1>4, <1>6, <1>7, <1>8 DEF T

-----------------------------------------------------------------------------
(* The invariant *)

\* Types of what is neither a store nor a history.
Control ==
  /\ now \in 1..MaxTime /\ kind \in Mixes
  /\ used \in SUBSET Jobs
  /\ current \in Services \union {NoService}
  /\ phase \in [Services -> {"off", "clear", "plan", "catchup", "last", "up", "failed"}]
  /\ skip \in [Services -> SUBSET Jobs] /\ later \in [Services -> SUBSET Jobs]
  /\ timer \in [Services -> BOOLEAN]
  /\ stage \in [Services -> {"idle", "select", "work", "end"}]
  /\ attached \in [Services -> BOOLEAN]
  /\ work \in [Services -> [Flows -> [Jobs -> Runs]]]
  /\ call \in Calls \union {NoCall}
  /\ requests \in 0..MaxRequests /\ troubles \in 0..MaxTroubles

\* A store in memory or on disk is of jobs that there were, and sound.
Proper(S) == IsStore(S) /\ SoundStore(S) /\ DOMAIN S \subseteq used
ProperStores ==
  /\ Proper(disk)
  /\ mem = [s \in Services |-> mem[s]] /\ \A s \in Services : mem[s] = NoStore \/ Proper(mem[s])

\* A service that is past a section has loaded the store.
Present ==
  /\ \A s \in Services :
       attached[s] \/ phase[s] \in {"plan", "catchup", "last", "up"} \/ stage[s] \in {"work", "end"}
         => mem[s] # NoStore
  /\ call # NoCall => mem[call.service] # NoStore

\* Without a current service nothing goes on.
Off ==
  current = NoService =>
    /\ call = NoCall
    /\ \A s \in Services :
         /\ ~timer[s] /\ stage[s] = "idle" /\ phase[s] = "off"
         /\ \A f \in Flows, j \in Jobs : work[s][f][j].state = "none"

Planned(s, f, j) == work[s][f][j].state # "none"
Called(j) == call # NoCall /\ call.job = j /\ call.state \in {"running", "done"}

\* Runs are of jobs that there were, and the manual run has a time.
Known ==
  /\ \A s \in Services, f \in Flows, j \in Jobs : Planned(s, f, j) => j \in used
  /\ call # NoCall => call.job \in used /\ (call.state # "queued" => call.started # 0)

\* A job that is busy is so in one place, and marked where the current service
\* looks before it starts a run.
Alone(j) ==
  /\ \A s, t \in Services, f, g \in Flows :
       Planned(s, f, j) /\ Planned(t, g, j) => s = t /\ f = g
  /\ Called(j) => \A s \in Services, f \in Flows : ~Planned(s, f, j)
Held(j) ==
  /\ Alone(j) /\ MarkedIn(disk, j)
  /\ current # NoService /\ mem[current] # NoStore => MarkedIn(mem[current], j)
Marks ==
  \A j \in Jobs : /\ Risky(j) => j \in excused
                  /\ Busy(j) /\ j \notin excused => Held(j)

\* When its timer is not set the current service has nothing to wait for, and
\* a tick will find nothing.
ArmedAt(s) ==
  phase[s] = "up" /\ ~timer[s] =>
    /\ stage[s] # "end" => ~HasWake(mem[s])
    /\ stage[s] = "select" => ~HasWake(disk)
Armed == \A s \in {current} \ ({NoService} \union behind) : ArmedAt(s)

Base == Control /\ ProperStores /\ Present /\ Off /\ Known
IInv == /\ Base /\ excused \in SUBSET Jobs /\ behind \in SUBSET Services
        /\ Marks /\ Armed

-----------------------------------------------------------------------------
(* Saving *)

\* A section of s saves S, or fails to.
Saves(s, S) == mem' = [mem EXCEPT ![s] = S] /\ disk' \in {disk, S}

LEMMA PersistSaves ==
  ASSUME NEW s, NEW S, Persist(s, S) \/ PersistFails(s, S)
  PROVE  Saves(s, S)
BY DEF Persist, PersistFails, Saves

LEMMA SavedMem ==
  ASSUME ProperStores, NEW s \in Services, NEW S, mem' = [mem EXCEPT ![s] = S]
  PROVE  /\ mem' = [t \in Services |-> mem'[t]]
         /\ mem'[s] = S /\ \A t \in Services : t # s => mem'[t] = mem[t]
<1>1. mem = [t \in Services |-> mem[t]]
  BY DEF ProperStores
<1> QED
  BY <1>1

LEMMA SavedStores ==
  ASSUME ProperStores, kind' = kind, used \subseteq used',
         NEW s \in Services, NEW S, Saves(s, S), IsStore(S), SoundStore(S), DOMAIN S \subseteq used'
  PROVE  ProperStores'
<1>1. /\ mem' = [t \in Services |-> mem'[t]]
      /\ mem'[s] = S /\ \A t \in Services : t # s => mem'[t] = mem[t]
  BY SavedMem DEF Saves
<1>2. ASSUME NEW T, Proper(T) PROVE Proper(T)'
  BY <1>2 DEF Proper, SoundStore, Sound
<1>3. Proper(S)'
  BY DEF Proper, SoundStore, Sound
<1>4. disk' \in {disk, S} /\ Proper(disk)
  BY DEF Saves, ProperStores
<1>5. Proper(disk)'
  <2>1. CASE disk' = disk
    BY <1>2, <1>4, <2>1 DEF Proper, SoundStore, Sound
  <2>2. CASE disk' = S
    BY <1>3, <2>2 DEF Proper, SoundStore, Sound
  <2> QED
    BY <1>4, <2>1, <2>2
<1>6. ASSUME NEW t \in Services PROVE mem'[t] = NoStore \/ Proper(mem[t])'
  <2>1. CASE t = s
    BY <1>1, <1>3, <2>1 DEF Proper, SoundStore, Sound
  <2>2. CASE t # s
    BY <1>1, <2>2 DEF ProperStores, Proper, SoundStore, Sound
  <2> QED
    BY <2>1, <2>2
<1> QED
  BY <1>1, <1>5, <1>6 DEF ProperStores

LEMMA SameStores ==
  ASSUME ProperStores, kind' = kind, used \subseteq used', UNCHANGED <<mem, disk>>
  PROVE  ProperStores'
BY DEF ProperStores, Proper, SoundStore, Sound

-----------------------------------------------------------------------------
(* Each action keeps the base of the invariant: steps that save nothing *)

LEMMA BaseParts ==
  ASSUME Base
  PROVE  Control /\ ProperStores /\ Present /\ Off /\ Known
BY DEF Base

\* A request, or a trouble.
LEMMA Counts ==
  ASSUME Control
  PROVE  /\ requests < MaxRequests /\ requests' = requests + 1 => requests' \in 0..MaxRequests
         /\ troubles < MaxTroubles /\ troubles' = troubles + 1 => troubles' \in 0..MaxTroubles
BY Bounds DEF Control

LEMMA BootBase ==
  ASSUME Base, NEW s \in Services, Boot(s)
  PROVE  Base'
<1>1. /\ UNCHANGED <<now, kind, disk, used, mem, attached, skip, later, timer, stage, work, call,
                     requests, troubles>>
      /\ current = NoService /\ current' = s /\ phase' = [phase EXCEPT ![s] = "clear"]
  BY DEF Boot, Enter, memory, ticking, bounds
<1>2. Control'
  BY <1>1 DEF Base, Control
<1>3. ProperStores'
  BY <1>1, SameStores DEF Base
<1>4. Present'
  BY <1>1 DEF Base, Present, Control
<1>5. Off'
  BY <1>1, Bounds DEF Off
<1>6. Known'
  BY <1>1 DEF Base, Known, Planned
<1> QED
  BY <1>2, <1>3, <1>4, <1>5, <1>6 DEF Base

LEMMA ReloadBase ==
  ASSUME Base, NEW s \in Services, Reload(s)
  PROVE  Base'
<1>1. /\ UNCHANGED <<now, kind, disk, used, mem, attached, skip, later, stage, work, call,
                     troubles>>
      /\ current # NoService /\ current' = s /\ phase' = [phase EXCEPT ![s] = "clear"]
      /\ timer' = [timer EXCEPT ![current] = FALSE]
      /\ requests < MaxRequests /\ requests' = requests + 1
  BY DEF Reload, Enter, memory, Request
<1>2. Control'
  <2>1. requests' \in 0..MaxRequests
    BY <1>1, Counts DEF Base
  <2> QED
    BY <1>1, <2>1 DEF Base, Control
<1>3. ProperStores'
  BY <1>1, SameStores DEF Base
<1>4. Present'
  BY <1>1 DEF Base, Present, Control
<1>5. Off'
  BY <1>1, Bounds DEF Off
<1>6. Known'
  BY <1>1 DEF Base, Known, Planned
<1> QED
  BY <1>2, <1>3, <1>4, <1>5, <1>6 DEF Base

LEMMA OnTimerBase ==
  ASSUME Base, NEW s \in Services, OnTimer(s)
  PROVE  Base'
<1>1. /\ UNCHANGED <<now, kind, disk, used, current, mem, attached, phase, skip, later, timer,
                     work, call, requests, troubles>>
      /\ timer[s]
      /\ stage' = [stage EXCEPT ![s] = IF stage[s] = "idle" THEN "select" ELSE stage[s]]
  BY DEF OnTimer, Reach, memory, starting, bounds
<1>2. Control'
  BY <1>1 DEF Base, Control
<1>3. ProperStores'
  BY <1>1, SameStores DEF Base
<1>4. Present'
  BY <1>1 DEF Base, Present, Control
<1>5. Off'
  BY <1>1 DEF Base, Off
<1>6. Known'
  BY <1>1 DEF Base, Known, Planned
<1> QED
  BY <1>2, <1>3, <1>4, <1>5, <1>6 DEF Base

LEMMA EndTickBase ==
  ASSUME Base, NEW s \in Services, EndTick(s)
  PROVE  Base'
<1>1. /\ UNCHANGED <<now, kind, disk, used, current, mem, attached, phase, skip, later,
                     work, call, requests, troubles>>
      /\ stage[s] = "end" /\ stage' = [stage EXCEPT ![s] = "idle"]
      /\ timer' = [timer EXCEPT ![s] = HasWake(mem[s])]
  BY DEF EndTick, Reach, ArmTimer, memory, starting, bounds
<1>2. HasWake(mem[s]) \in BOOLEAN
  BY DEF HasWake
<1>3. Control'
  <2> DEFINE b == HasWake(mem[s])
  <2>1. timer' = [timer EXCEPT ![s] = b] /\ b \in BOOLEAN
    BY <1>1, <1>2
  <2> HIDE DEF b
  <2> QED
    BY <1>1, <2>1 DEF Base, Control
<1>4. ProperStores'
  BY <1>1, SameStores DEF Base
<1>5. Present'
  BY <1>1 DEF Base, Present, Control
<1>6. Off'
  BY <1>1 DEF Base, Off
<1>7. Known'
  BY <1>1 DEF Base, Known, Planned
<1> QED
  BY <1>3, <1>4, <1>5, <1>6, <1>7 DEF Base

LEMMA ClockBase ==
  ASSUME Base, Clock
  PROVE  Base'
<1>1. /\ UNCHANGED <<kind, disk, used, current, mem, attached, phase, skip, later, timer, stage,
                     work, call, requests, troubles>>
      /\ now < MaxTime /\ now' = now + 1
  BY DEF Clock, service, memory, starting, ticking, bounds
<1>2. Control'
  BY <1>1, Bounds DEF Base, Control
<1>3. ProperStores'
  BY <1>1, SameStores DEF Base
<1>4. Present'
  BY <1>1 DEF Base, Present
<1>5. Off'
  BY <1>1 DEF Base, Off
<1>6. Known'
  BY <1>1 DEF Base, Known, Planned
<1> QED
  BY <1>2, <1>3, <1>4, <1>5, <1>6 DEF Base

LEMMA WorkChanges ==
  ASSUME work \in [Services -> [Flows -> [Jobs -> Runs]]],
         NEW s \in Services, NEW f \in Flows, NEW j \in Jobs, NEW r \in Runs,
         work' = [work EXCEPT ![s][f][j] = r], r.state # "none", work[s][f][j].state # "none"
  PROVE  /\ work' \in [Services -> [Flows -> [Jobs -> Runs]]]
         /\ \A t \in Services, g \in Flows, k \in Jobs : Planned(t, g, k)' <=> Planned(t, g, k)
BY DEF Planned

LEMMA SettleWork ==
  ASSUME Control, NEW s \in Services, NEW f \in Flows, NEW j \in Jobs, NEW o \in Outcomes,
         Settle(s, f, j, o)
  PROVE  /\ work' \in [Services -> [Flows -> [Jobs -> Runs]]]
         /\ \A t \in Services, g \in Flows, k \in Jobs : Planned(t, g, k)' <=> Planned(t, g, k)
<1> DEFINE r == [work[s][f][j] EXCEPT !.state = "done", !.ended = now, !.outcome = o]
<1>1. work[s][f][j] \in Runs /\ now \in 0..MaxTime
  BY DEF Control
<1>2. r \in Runs /\ r.state = "done"
  BY <1>1 DEF Runs
<1>3. work' = [work EXCEPT ![s][f][j] = r] /\ work[s][f][j].state = "running"
  BY DEF Settle
<1> HIDE DEF r
<1> QED
  BY <1>2, <1>3, WorkChanges DEF Control

LEMMA SettleBase ==
  ASSUME Base, NEW s \in Services, NEW f \in Flows, NEW j \in Jobs, NEW o \in Outcomes,
         Settle(s, f, j, o)
  PROVE  Base'
<1>1. /\ UNCHANGED <<now, kind, disk, used, current, mem, attached, phase, skip, later, timer,
                     stage, call, requests, troubles>>
      /\ work[s][f][j].state = "running"
  BY DEF Settle, memory, starting, ticking, bounds
<1>2. /\ work' \in [Services -> [Flows -> [Jobs -> Runs]]]
      /\ \A t \in Services, g \in Flows, k \in Jobs : Planned(t, g, k)' <=> Planned(t, g, k)
  BY SettleWork DEF Base
<1>3. Control'
  BY <1>1, <1>2 DEF Base, Control
<1>4. ProperStores'
  BY <1>1, SameStores DEF Base
<1>5. Present'
  BY <1>1 DEF Base, Present
<1>6. Off'
  BY <1>1 DEF Base, Off
<1>7. Known'
  BY <1>1, <1>2 DEF Base, Known
<1> QED
  BY <1>3, <1>4, <1>5, <1>6, <1>7 DEF Base

LEMMA SettleManualBase ==
  ASSUME Base, NEW o \in Outcomes, SettleManual(o)
  PROVE  Base'
<1>1. /\ UNCHANGED <<now, kind, disk, used, current, mem, attached, phase, skip, later, timer,
                     stage, work, requests, troubles>>
      /\ call # NoCall /\ call.state = "running"
      /\ call' = [call EXCEPT !.state = "done", !.ended = now, !.outcome = o]
  BY DEF SettleManual, service, memory, starting, ticking, bounds
<1>2. call \in Calls /\ now \in 0..MaxTime
  BY <1>1 DEF Base, Control
<1>3. call' \in Calls /\ call'.service = call.service /\ call'.job = call.job
      /\ call'.started = call.started
  BY <1>1, <1>2 DEF Calls
<1>4. Control'
  BY <1>1, <1>3 DEF Base, Control
<1>5. ProperStores'
  BY <1>1, SameStores DEF Base
<1>6. Present'
  BY <1>1, <1>3 DEF Base, Present
<1>7. Off'
  BY <1>1 DEF Base, Off
<1>8. Known'
  BY <1>1, <1>3 DEF Base, Known, Planned
<1> QED
  BY <1>4, <1>5, <1>6, <1>7, <1>8 DEF Base

LEMMA NoRunsAre ==
  NoRuns \in [Jobs -> Runs] /\ \A j \in Jobs : NoRuns[j].state = "none"
BY Bounds DEF NoRuns, NoRun, Runs

LEMMA CrashBase ==
  ASSUME Base, Crash
  PROVE  Base'
<1>1. /\ UNCHANGED <<now, kind, disk, used, requests>>
      /\ current' = NoService /\ troubles < MaxTroubles /\ troubles' = troubles + 1
      /\ mem' = [s \in Services |-> NoStore]
      /\ phase' = [s \in Services |-> "off"]
      /\ skip' = [s \in Services |-> {}] /\ later' = [s \in Services |-> {}]
      /\ timer' = [s \in Services |-> FALSE]
      /\ stage' = [s \in Services |-> "idle"]
      /\ attached' = [s \in Services |-> FALSE]
      /\ work' = [s \in Services |-> [f \in Flows |-> NoRuns]]
      /\ call' = NoCall
  BY DEF Crash, Trouble
<1>2. \A s \in Services, f \in Flows, j \in Jobs : work'[s][f][j].state = "none"
  BY <1>1, NoRunsAre
<1>3. Control'
  <2>1. work' \in [Services -> [Flows -> [Jobs -> Runs]]]
    BY <1>1, NoRunsAre
  <2>2. troubles' \in 0..MaxTroubles
    BY <1>1, Counts DEF Base
  <2> QED
    BY <1>1, <2>1, <2>2 DEF Base, Control
<1>4. ProperStores'
  BY <1>1 DEF Base, ProperStores, Proper, SoundStore, Sound
<1>5. Present'
  BY <1>1 DEF Present
<1>6. Off'
  BY <1>1, <1>2 DEF Off
<1>7. Known'
  BY <1>1, <1>2 DEF Known, Planned
<1> QED
  BY <1>3, <1>4, <1>5, <1>6, <1>7 DEF Base

-----------------------------------------------------------------------------
(* Sections *)

LEMMA ProperLoaded ==
  ASSUME Base, NEW s \in Services
  PROVE  Proper(Loaded(s)) /\ (mem[s] # NoStore => Proper(mem[s]) /\ Loaded(s) = mem[s])
BY DEF Base, ProperStores, Loaded

LEMMA ProperMaintained ==
  ASSUME Base, NEW S, Proper(S), NEW b
  PROVE  Proper(Maintained(S, b))
<1>1. kind \in Mixes /\ now \in Nat
  BY Bounds DEF Base, Control
<1> DEFINE T == Maintained(S, b)
<1>2. TendedStore(S, T)
  BY MaintainedIsTended
<1> HIDE DEF T
<1>3. IsStore(T) /\ DOMAIN T = DOMAIN S /\ (SoundStore(S) => SoundStore(T))
  BY <1>1, <1>2, TendedStoreLemma DEF Proper
<1>4. Proper(T)
  BY <1>3 DEF Proper
<1> QED
  BY <1>4 DEF T

LEMMA ProperRecomputed ==
  ASSUME Base, NEW S, IsStore(S), SoundStore(S)
  PROVE  /\ IsStore(RecomputeNextRuns(S)) /\ SoundStore(RecomputeNextRuns(S))
         /\ DOMAIN RecomputeNextRuns(S) = DOMAIN S
<1>1. kind \in Mixes /\ now \in Nat
  BY Bounds DEF Base, Control
<1> DEFINE T == RecomputeNextRuns(S)
<1>2. TendedStore(S, T)
  BY RecomputedIsTended
<1> HIDE DEF T
<1>3. IsStore(T) /\ DOMAIN T = DOMAIN S /\ (SoundStore(S) => SoundStore(T))
  BY <1>1, <1>2, TendedStoreLemma
<1> QED
  BY <1>3 DEF T

LEMMA ProperMarked ==
  ASSUME Base, NEW S, Proper(S), NEW J
  PROVE  Proper(Marked(S, J))
BY MarkedLemma DEF Proper, Base, Control

LEMMA ProperWithResults ==
  ASSUME Base, NEW S, Proper(S), NEW D \in [Jobs -> Runs]
  PROVE  Proper(WithResults(S, D))
BY WithResultsLemma DEF Proper, Base, Control

LEMMA Troubles ==
  ASSUME Control, NEW s, NEW S, Persist(s, S) \/ PersistFails(s, S)
  PROVE  troubles' \in 0..MaxTroubles
BY Counts DEF Control, Persist, PersistFails, Trouble

\* What Present needs to know of a section of s that saves.
LEMMA SavedPresent ==
  ASSUME Base, NEW s \in Services, NEW S, Saves(s, S), IsStore(S),
         \A t \in Services : t # s => /\ phase'[t] = phase[t] /\ stage'[t] = stage[t]
                                      /\ attached'[t] = attached[t],
         \/ call' = NoCall
         \/ call' # NoCall /\ call'.service = s
         \/ call # NoCall /\ call'.service = call.service
  PROVE  Present'
<1>1. mem'[s] = S /\ \A t \in Services : t # s => mem'[t] = mem[t]
  BY SavedMem DEF Saves, Base
<1>2. S # NoStore
  BY NoStoreLemma
<1>3. \A t \in Services : mem[t] # NoStore => mem'[t] # NoStore
  BY <1>1, <1>2
<1>4. call \in Calls \union {NoCall}
  BY DEF Base, Control
<1>5. call # NoCall => call.service \in Services /\ mem[call.service] # NoStore
  BY <1>4 DEF Calls, Base, Present
<1>6. call' # NoCall => mem'[call'.service] # NoStore
  BY <1>1, <1>2, <1>3, <1>5
<1>7. ASSUME NEW t \in Services,
             attached'[t] \/ phase'[t] \in {"plan", "catchup", "last", "up"}
               \/ stage'[t] \in {"work", "end"}
      PROVE  mem'[t] # NoStore
  <2>1. CASE t = s
    BY <1>1, <1>2, <2>1
  <2>2. CASE t # s
    BY <1>3, <1>7, <2>2 DEF Base, Present
  <2> QED
    BY <2>1, <2>2
<1> QED
  BY <1>6, <1>7 DEF Present

LEMMA ClearBase ==
  ASSUME Base, NEW s \in Services, Clear(s)
  PROVE  Base'
<1> DEFINE S == Loaded(s)
           T == [j \in DOMAIN S |-> [S[j] EXCEPT !.running = 0]]
           I == {j \in DOMAIN S : S[j].running # 0}
<1>1. /\ UNCHANGED <<now, kind, used, current, attached, later, timer, stage, work, call, requests>>
      /\ phase[s] = "clear" /\ skip' = [skip EXCEPT ![s] = I]
      /\ Persist(s, T) \/ PersistFails(s, T)
      /\ phase' \in {[phase EXCEPT ![s] = "plan"], [phase EXCEPT ![s] = "failed"]}
  BY DEF Clear, Enter, ticking
<1>2. Proper(S)
  BY ProperLoaded
<1>3. IsStore(T) /\ SoundStore(T) /\ DOMAIN T \subseteq used
  BY <1>2, ClearedLemma DEF Proper
<1>4. I \subseteq Jobs
  BY <1>2, StoreLemma DEF Proper
<1> HIDE DEF S, T, I
<1>5. Saves(s, T)
  BY <1>1, PersistSaves
<1>6. Control'
  BY <1>1, <1>4, Troubles DEF Base, Control
<1>7. ProperStores'
  BY <1>1, <1>3, <1>5, SavedStores DEF Base
<1>8. Present'
  <2>1. \A t \in Services : t # s => phase'[t] = phase[t]
    BY <1>1 DEF Base, Control
  <2> QED
    BY <1>1, <1>3, <1>5, <2>1, SavedPresent
<1>9. Off'
  BY <1>1 DEF Base, Off
<1>10. Known'
  BY <1>1 DEF Base, Known, Planned
<1> QED
  BY <1>6, <1>7, <1>8, <1>9, <1>10 DEF Base

LEMMA DueLemma ==
  ASSUME NEW J
  PROVE  /\ Due(J) \in [Jobs -> Runs]
         /\ \A j \in Jobs : Due(J)[j].state # "none" <=> j \in J
<1>1. NoRun \in Runs /\ NoRun.state = "none"
  BY Bounds DEF NoRun, Runs
<1>2. [NoRun EXCEPT !.state = "due"] \in Runs /\ [NoRun EXCEPT !.state = "due"].state = "due"
  BY <1>1 DEF Runs
<1>3. Due(J) = [j \in Jobs |-> IF j \in J THEN [NoRun EXCEPT !.state = "due"] ELSE NoRun]
  BY DEF Due
<1> QED
  BY <1>1, <1>2, <1>3

\* The runs of one flow are replaced.
LEMMA FlowChanges ==
  ASSUME Control, NEW s \in Services, NEW f \in Flows, NEW D \in [Jobs -> Runs],
         work' = [work EXCEPT ![s][f] = D]
  PROVE  /\ work' \in [Services -> [Flows -> [Jobs -> Runs]]]
         /\ \A j \in Jobs : Planned(s, f, j)' <=> D[j].state # "none"
         /\ \A t \in Services, g \in Flows, j \in Jobs :
              t # s \/ g # f => (Planned(t, g, j)' <=> Planned(t, g, j))
BY DEF Control, Planned

LEMMA PlanBase ==
  ASSUME Base, NEW s \in Services, Plan(s)
  PROVE  Base'
<1>1. UNCHANGED <<now, kind, used, current, attached, skip, timer, stage, call, requests>>
  BY DEF Plan, ticking
<1>2. phase[s] = "plan" /\ mem[s] # NoStore /\ current # NoService /\ Proper(mem[s])
  BY Bounds, ProperLoaded DEF Plan, Base, Present, Off
<1> DEFINE missed == {j \in DOMAIN mem[s] : IsMissed(j, mem[s][j]) /\ j \notin skip[s]}
<1>3. CASE phase' = [phase EXCEPT ![s] = "last"] /\ UNCHANGED <<disk, mem, troubles, later, work>>
  <2>1. Control'
    BY <1>1, <1>3 DEF Base, Control
  <2>2. ProperStores'
    BY <1>1, <1>3, SameStores DEF Base
  <2>3. Present'
    BY <1>1, <1>2, <1>3 DEF Base, Control, Present
  <2>4. Off' /\ Known'
    BY <1>1, <1>2, <1>3 DEF Base, Off, Known, Planned
  <2> QED
    BY <2>1, <2>2, <2>3, <2>4 DEF Base
<1>4. ASSUME NEW soon \in SUBSET missed, Persist(s, Marked(mem[s], soon)) \/ PersistFails(s, Marked(mem[s], soon)),
             \/ /\ phase' = [phase EXCEPT ![s] = "catchup"]
                /\ later' = [later EXCEPT ![s] = missed \ soon]
                /\ work' = [work EXCEPT ![s].start = Due(soon)]
             \/ phase' = [phase EXCEPT ![s] = "failed"] /\ UNCHANGED <<later, work>>
      PROVE  Base'
  <2> DEFINE T == Marked(mem[s], soon)
  <2>1. Proper(T)
    BY <1>2, ProperMarked
  <2>2. Saves(s, T) /\ troubles' \in 0..MaxTroubles
    BY <1>4, PersistSaves, Troubles DEF Base
  <2> HIDE DEF T
  <2>3. missed \subseteq DOMAIN mem[s] /\ DOMAIN mem[s] \subseteq Jobs /\ DOMAIN mem[s] \subseteq used
    BY <1>2, StoreLemma DEF Proper
  <2> HIDE DEF missed
  <2>4. later' \in [Services -> SUBSET Jobs]
    <3>1. missed \ soon \in SUBSET Jobs /\ later \in [Services -> SUBSET Jobs]
      BY <2>3 DEF Base, Control
    <3> QED
      BY <1>4, <3>1
  <2>5. /\ work' \in [Services -> [Flows -> [Jobs -> Runs]]]
        /\ \A t \in Services, g \in Flows, j \in Jobs : Planned(t, g, j)' => Planned(t, g, j) \/ j \in soon
    <3>1. CASE work' = [work EXCEPT ![s]["start"] = Due(soon)]
      <4>1. "start" \in Flows
        BY DEF Flows
      <4>2. Due(soon) \in [Jobs -> Runs] /\ \A j \in Jobs : Due(soon)[j].state # "none" <=> j \in soon
        BY DueLemma
      <4> QED
        BY <3>1, <4>1, <4>2, FlowChanges DEF Base
    <3>2. CASE UNCHANGED work
      BY <3>2 DEF Base, Control, Planned
    <3> QED
      BY <1>4, <3>1, <3>2
  <2>6. Control'
    BY <1>1, <1>4, <2>2, <2>4, <2>5 DEF Base, Control
  <2>7. ProperStores'
    BY <1>1, <2>1, <2>2, SavedStores DEF Base, Proper
  <2>8. Present'
    <3>1. \A t \in Services : t # s => phase'[t] = phase[t]
      BY <1>4 DEF Base, Control
    <3> QED
      BY <1>1, <2>1, <2>2, <3>1, SavedPresent DEF Proper
  <2>9. Off'
    BY <1>1, <1>2 DEF Off
  <2>10. Known'
    BY <1>1, <2>3, <2>5 DEF Base, Known
  <2> QED
    BY <2>6, <2>7, <2>8, <2>9, <2>10 DEF Base
<1> QED
  BY <1>3, <1>4 DEF Plan, Enter

\* The store that is saved when the results of a flow are applied.
LEMMA CaughtUp ==
  ASSUME Base, NEW s \in Services
  PROVE  LET S == WithResults(disk, work[s].start)
             deferred == [j \in DOMAIN S |->
                            IF j \in later[s] /\ S[j].enabled
                            THEN [S[j] EXCEPT !.next = now + Stagger] ELSE S[j]] IN
         Proper(S) /\ Proper(deferred) /\ Proper(Maintained(deferred, FALSE))
<1> DEFINE S == WithResults(disk, work[s].start)
           deferred == [j \in DOMAIN S |->
                          IF j \in later[s] /\ S[j].enabled
                          THEN [S[j] EXCEPT !.next = now + Stagger] ELSE S[j]]
<1>1. work[s].start \in [Jobs -> Runs]
  BY DEF Base, Control, Flows
<1>2. Proper(S)
  BY <1>1, ProperWithResults DEF Base, ProperStores
<1>3. now \in Nat
  BY Bounds DEF Base, Control
<1> HIDE DEF S
<1>4. Proper(deferred)
  BY <1>2, <1>3, DeferredLemma DEF Proper
<1> HIDE DEF deferred
<1>5. Proper(Maintained(deferred, FALSE))
  BY <1>4, ProperMaintained
<1> QED
  BY <1>2, <1>4, <1>5 DEF S, deferred

LEMMA FlowCleared ==
  ASSUME Control, NEW s \in Services, NEW f \in Flows, work' = [work EXCEPT ![s][f] = NoRuns]
  PROVE  /\ work' \in [Services -> [Flows -> [Jobs -> Runs]]]
         /\ \A j \in Jobs : ~Planned(s, f, j)'
         /\ \A t \in Services, g \in Flows, j \in Jobs :
              t # s \/ g # f => (Planned(t, g, j)' <=> Planned(t, g, j))
         /\ \A t \in Services, g \in Flows, j \in Jobs : Planned(t, g, j)' => Planned(t, g, j)
<1>1. NoRuns \in [Jobs -> Runs] /\ \A j \in Jobs : NoRuns[j].state = "none"
  BY NoRunsAre
<1>2. /\ work' \in [Services -> [Flows -> [Jobs -> Runs]]]
      /\ \A j \in Jobs : Planned(s, f, j)' <=> NoRuns[j].state # "none"
      /\ \A t \in Services, g \in Flows, j \in Jobs :
           t # s \/ g # f => (Planned(t, g, j)' <=> Planned(t, g, j))
  BY <1>1, FlowChanges
<1> QED
  BY <1>1, <1>2

LEMMA ApplyCatchupBase ==
  ASSUME Base, NEW s \in Services, ApplyCatchup(s)
  PROVE  Base'
<1> DEFINE S == WithResults(disk, work[s].start)
           deferred == [j \in DOMAIN S |->
                          IF j \in later[s] /\ S[j].enabled
                          THEN [S[j] EXCEPT !.next = now + Stagger] ELSE S[j]]
           T == Maintained(deferred, FALSE)
<1>1. /\ UNCHANGED <<now, kind, used, current, skip, later, timer, stage, call, requests>>
      /\ phase[s] = "catchup" /\ work' = [work EXCEPT ![s]["start"] = NoRuns]
      /\ attached' = [attached EXCEPT ![s] = FALSE]
      /\ Persist(s, T) \/ PersistFails(s, T)
      /\ phase' \in {[phase EXCEPT ![s] = "last"], [phase EXCEPT ![s] = "failed"]}
  BY DEF ApplyCatchup, Enter, ticking
<1>2. Proper(T)
  BY CaughtUp
<1> HIDE DEF T
<1>3. Saves(s, T) /\ troubles' \in 0..MaxTroubles
  BY <1>1, PersistSaves, Troubles DEF Base
<1>4. /\ work' \in [Services -> [Flows -> [Jobs -> Runs]]]
      /\ \A t \in Services, g \in Flows, j \in Jobs : Planned(t, g, j)' => Planned(t, g, j)
  <2>1. "start" \in Flows
    BY DEF Flows
  <2> QED
    BY <1>1, <2>1, FlowCleared DEF Base
<1>5. Control'
  BY <1>1, <1>3, <1>4 DEF Base, Control
<1>6. ProperStores'
  BY <1>1, <1>2, <1>3, SavedStores DEF Base, Proper
<1>7. Present'
  <2>1. \A t \in Services : t # s => phase'[t] = phase[t] /\ attached'[t] = attached[t]
    BY <1>1 DEF Base, Control
  <2> QED
    BY <1>1, <1>2, <1>3, <2>1, SavedPresent DEF Proper
<1>8. current # NoService
  BY <1>1 DEF Base, Off
<1>9. Off'
  BY <1>1, <1>8 DEF Off
<1>10. Known'
  BY <1>1, <1>4 DEF Base, Known
<1> QED
  BY <1>5, <1>6, <1>7, <1>9, <1>10 DEF Base

LEMMA HasWakeIsBoolean ==
  ASSUME NEW S
  PROVE  HasWake(S) \in BOOLEAN
BY DEF HasWake

LEMMA TimerArmed ==
  ASSUME Control, NEW s \in Services, NEW S, ArmTimer(s, S)
  PROVE  /\ timer' \in [Services -> BOOLEAN] /\ (timer'[s] <=> HasWake(S))
         /\ \A t \in Services : t # s => timer'[t] = timer[t]
<1> DEFINE b == HasWake(S)
<1>1. b \in BOOLEAN /\ timer' = [timer EXCEPT ![s] = b]
  BY HasWakeIsBoolean DEF ArmTimer
<1> HIDE DEF b
<1>2. /\ timer' \in [Services -> BOOLEAN] /\ timer'[s] = b
      /\ \A t \in Services : t # s => timer'[t] = timer[t]
  BY <1>1 DEF Control
<1> QED
  BY <1>2 DEF b

LEMMA FinishStartBase ==
  ASSUME Base, NEW s \in Services, FinishStart(s)
  PROVE  Base'
<1> DEFINE T == RecomputeNextRuns(disk)
<1>1. /\ UNCHANGED <<now, kind, used, current, skip, later, stage, work, call, requests>>
      /\ phase[s] = "last"
      /\ attached' = [attached EXCEPT ![s] = FALSE]
      /\ Persist(s, T) \/ PersistFails(s, T)
      /\ ArmTimer(s, T) \/ UNCHANGED timer
      /\ phase' \in {[phase EXCEPT ![s] = "up"], [phase EXCEPT ![s] = "failed"]}
  BY DEF FinishStart, Enter
<1>2. Proper(T)
  BY ProperRecomputed DEF Base, ProperStores, Proper
<1> HIDE DEF T
<1>3. Saves(s, T) /\ troubles' \in 0..MaxTroubles
  BY <1>1, PersistSaves, Troubles DEF Base
<1>4. timer' \in [Services -> BOOLEAN]
  BY <1>1, TimerArmed DEF Base, Control
<1>5. Control'
  BY <1>1, <1>3, <1>4 DEF Base, Control
<1>6. ProperStores'
  BY <1>1, <1>2, <1>3, SavedStores DEF Base, Proper
<1>7. Present'
  <2>1. \A t \in Services : t # s => phase'[t] = phase[t] /\ attached'[t] = attached[t]
    BY <1>1 DEF Base, Control
  <2> QED
    BY <1>1, <1>2, <1>3, <2>1, SavedPresent DEF Proper
<1>8. current # NoService
  BY <1>1 DEF Base, Off
<1>9. Off'
  BY <1>1, <1>8 DEF Off
<1>10. Known'
  BY <1>1 DEF Base, Known, Planned
<1> QED
  BY <1>5, <1>6, <1>7, <1>9, <1>10 DEF Base

\* What SelectDue saves.
Selected == LET due == {j \in DOMAIN disk : IsDue(disk[j])} IN
            IF due = {} THEN Maintained(disk, TRUE) ELSE Marked(disk, due)

LEMMA SelectDueBase ==
  ASSUME Base, NEW s \in Services, SelectDue(s)
  PROVE  Base'
<1> DEFINE due == {j \in DOMAIN disk : IsDue(disk[j])}
           T == Selected
<1>1. /\ UNCHANGED <<now, kind, used, current, phase, skip, later, timer, call, requests>>
      /\ stage[s] = "select" /\ attached' = [attached EXCEPT ![s] = TRUE]
      /\ Persist(s, T) \/ PersistFails(s, T)
      /\ work' = [work EXCEPT ![s]["tick"] = Due(due)] \/ work' = work
      /\ stage' \in {[stage EXCEPT ![s] = "work"], [stage EXCEPT ![s] = "end"]}
  BY DEF SelectDue, Selected, Reach, starting
<1>2. Proper(disk) /\ due \subseteq Jobs /\ due \subseteq used
  BY StoreLemma DEF Base, ProperStores, Proper
<1>3. Proper(T)
  BY <1>2, ProperMaintained, ProperMarked DEF Selected
<1> HIDE DEF T, due
<1>4. Saves(s, T) /\ troubles' \in 0..MaxTroubles
  BY <1>1, PersistSaves, Troubles DEF Base
<1>5. /\ work' \in [Services -> [Flows -> [Jobs -> Runs]]]
      /\ \A t \in Services, g \in Flows, j \in Jobs : Planned(t, g, j)' => Planned(t, g, j) \/ j \in due
  <2>1. CASE work' = [work EXCEPT ![s]["tick"] = Due(due)]
    <3>1. "tick" \in Flows
      BY DEF Flows
    <3>2. Due(due) \in [Jobs -> Runs] /\ \A j \in Jobs : Due(due)[j].state # "none" <=> j \in due
      BY DueLemma
    <3> QED
      BY <2>1, <3>1, <3>2, FlowChanges DEF Base
  <2>2. CASE work' = work
    BY <2>2 DEF Base, Control, Planned
  <2> QED
    BY <1>1, <2>1, <2>2
<1>6. Control'
  BY <1>1, <1>4, <1>5 DEF Base, Control
<1>7. ProperStores'
  BY <1>1, <1>3, <1>4, SavedStores DEF Base, Proper
<1>8. Present'
  <2>1. \A t \in Services : t # s => stage'[t] = stage[t] /\ attached'[t] = attached[t]
    BY <1>1 DEF Base, Control
  <2> QED
    BY <1>1, <1>3, <1>4, <2>1, SavedPresent DEF Proper
<1>9. current # NoService
  BY <1>1 DEF Base, Off
<1>10. Off'
  BY <1>1, <1>9 DEF Off
<1>11. Known'
  BY <1>1, <1>2, <1>5 DEF Base, Known
<1> QED
  BY <1>6, <1>7, <1>8, <1>10, <1>11 DEF Base

LEMMA TakeWork ==
  ASSUME Control, NEW s \in Services, NEW f \in Flows, NEW j \in Jobs, Take(s, f, j)
  PROVE  /\ work' \in [Services -> [Flows -> [Jobs -> Runs]]]
         /\ \A t \in Services, g \in Flows, k \in Jobs : Planned(t, g, k)' <=> Planned(t, g, k)
<1> DEFINE r == [work[s][f][j] EXCEPT !.state = "running", !.started = now]
<1>1. work[s][f][j] \in Runs /\ now \in 0..MaxTime
  BY DEF Control
<1>2. r \in Runs /\ r.state = "running"
  BY <1>1 DEF Runs
<1>3. work' = [work EXCEPT ![s][f][j] = r] /\ work[s][f][j].state = "due"
  BY DEF Take
<1> HIDE DEF r
<1> QED
  BY <1>2, <1>3, WorkChanges DEF Control

\* A worker marks the job in memory, or finds no object of its own to mark.
LEMMA TakeMem ==
  ASSUME Base, NEW s \in Services, NEW f \in Flows, NEW j \in Jobs, Take(s, f, j)
  PROVE  \/ UNCHANGED mem
         \/ LET T == [mem[s] EXCEPT ![j].running = now] IN
            /\ mem[s] # NoStore /\ Proper(mem[s]) /\ j \in DOMAIN mem[s]
            /\ mem' = [mem EXCEPT ![s] = T] /\ Proper(T)
<1>1. CASE f = "tick" /\ attached[s] /\ j \in DOMAIN mem[s]
  <2> DEFINE T == [mem[s] EXCEPT ![j].running = now]
  <2>1. mem[s] # NoStore
    BY <1>1 DEF Base, Present
  <2>2. Proper(mem[s])
    BY <2>1, ProperLoaded
  <2>3. now \in 0..MaxTime
    BY DEF Base, Control
  <2>4. Proper(T)
    BY <1>1, <2>2, <2>3, OneMarkedLemma DEF Proper
  <2>5. mem' = [mem EXCEPT ![s] = T]
    BY <1>1 DEF Take
  <2> QED
    BY <1>1, <2>1, <2>2, <2>4, <2>5
<1>2. CASE ~(f = "tick" /\ attached[s] /\ j \in DOMAIN mem[s])
  BY <1>2 DEF Take
<1> QED
  BY <1>1, <1>2

LEMMA TakeBase ==
  ASSUME Base, NEW s \in Services, NEW f \in Flows, NEW j \in Jobs, Take(s, f, j)
  PROVE  Base'
<1>1. /\ UNCHANGED <<now, kind, disk, used, current, attached, phase, skip, later, timer, stage,
                     call, requests, troubles>>
      /\ work[s][f][j].state = "due"
  BY DEF Take, starting, ticking, bounds
<1>2. /\ work' \in [Services -> [Flows -> [Jobs -> Runs]]]
      /\ \A t \in Services, g \in Flows, k \in Jobs : Planned(t, g, k)' <=> Planned(t, g, k)
  BY TakeWork DEF Base
<1>3. Control'
  BY <1>1, <1>2 DEF Base, Control
<1>4. ProperStores' /\ Present'
  <2>1. CASE UNCHANGED mem
    <3>1. ProperStores'
      BY <1>1, <2>1, SameStores DEF Base
    <3>2. Present'
      BY <1>1, <2>1 DEF Base, Present
    <3> QED
      BY <3>1, <3>2
  <2>2. ASSUME NEW T, mem' = [mem EXCEPT ![s] = T], Proper(T)
        PROVE  ProperStores' /\ Present'
    <3>1. Saves(s, T)
      BY <1>1, <2>2 DEF Saves
    <3>2. ProperStores'
      BY <1>1, <2>2, <3>1, SavedStores DEF Base, Proper
    <3>3. Present'
      BY <1>1, <2>2, <3>1, SavedPresent DEF Proper
    <3> QED
      BY <3>2, <3>3
  <2> QED
    BY <2>1, <2>2, TakeMem
<1>5. Off'
  BY <1>1 DEF Base, Off
<1>6. Known'
  BY <1>1, <1>2 DEF Base, Known
<1> QED
  BY <1>3, <1>4, <1>5, <1>6 DEF Base

LEMMA ApplyTickBase ==
  ASSUME Base, NEW s \in Services, ApplyTick(s)
  PROVE  Base'
<1> DEFINE S == WithResults(disk, work[s].tick)
           T == Maintained(S, FALSE)
<1>1. /\ UNCHANGED <<now, kind, used, current, phase, skip, later, timer, call, requests>>
      /\ stage[s] = "work" /\ work' = [work EXCEPT ![s]["tick"] = NoRuns]
      /\ attached' = [attached EXCEPT ![s] = FALSE]
      /\ Persist(s, T) \/ PersistFails(s, T)
      /\ stage' = [stage EXCEPT ![s] = "end"]
  BY DEF ApplyTick, Reach, starting
<1>2. Proper(T)
  <2>1. work[s].tick \in [Jobs -> Runs]
    BY DEF Base, Control, Flows
  <2>2. Proper(S)
    BY <2>1, ProperWithResults DEF Base, ProperStores
  <2> HIDE DEF S
  <2> QED
    BY <2>2, ProperMaintained
<1> HIDE DEF T
<1>3. Saves(s, T) /\ troubles' \in 0..MaxTroubles
  BY <1>1, PersistSaves, Troubles DEF Base
<1>4. /\ work' \in [Services -> [Flows -> [Jobs -> Runs]]]
      /\ \A t \in Services, g \in Flows, j \in Jobs : Planned(t, g, j)' => Planned(t, g, j)
  <2>1. "tick" \in Flows
    BY DEF Flows
  <2> QED
    BY <1>1, <2>1, FlowCleared DEF Base
<1>5. Control'
  BY <1>1, <1>3, <1>4 DEF Base, Control
<1>6. ProperStores'
  BY <1>1, <1>2, <1>3, SavedStores DEF Base, Proper
<1>7. Present'
  <2>1. \A t \in Services : t # s => stage'[t] = stage[t] /\ attached'[t] = attached[t]
    BY <1>1 DEF Base, Control
  <2> QED
    BY <1>1, <1>2, <1>3, <2>1, SavedPresent DEF Proper
<1>8. current # NoService
  BY <1>1 DEF Base, Off
<1>9. Off'
  BY <1>1, <1>8 DEF Off
<1>10. Known'
  BY <1>1, <1>4 DEF Base, Known
<1> QED
  BY <1>5, <1>6, <1>7, <1>9, <1>10 DEF Base

-----------------------------------------------------------------------------
(* Operations of the gateway *)

LEMMA SectionBase ==
  ASSUME Base, current # NoService, NEW S, IsStore(S), SoundStore(S), DOMAIN S \subseteq used',
         Section(S), used \subseteq used', used' \subseteq Jobs, requests' \in 0..MaxRequests
  PROVE  Base'
<1>1. /\ UNCHANGED <<now, kind, current, attached, phase, skip, later, stage, work, call>>
      /\ Persist(current, S) \/ PersistFails(current, S)
      /\ ArmTimer(current, S) \/ UNCHANGED timer
  BY DEF Section, starting
<1>2. current \in Services
  BY DEF Base, Control
<1>3. Saves(current, S) /\ troubles' \in 0..MaxTroubles
  BY <1>1, PersistSaves, Troubles DEF Base
<1>4. timer' \in [Services -> BOOLEAN]
  BY <1>1, <1>2, TimerArmed DEF Base, Control
<1>5. Control'
  BY <1>1, <1>3, <1>4 DEF Base, Control
<1>6. ProperStores'
  BY <1>1, <1>2, <1>3, SavedStores DEF Base
<1>7. Present'
  BY <1>1, <1>2, <1>3, SavedPresent
<1>8. Off'
  BY <1>1 DEF Off
<1>9. Known'
  BY <1>1 DEF Base, Known, Planned
<1> QED
  BY <1>5, <1>6, <1>7, <1>8, <1>9 DEF Base

LEMMA ProperLoadedAndRecomputed ==
  ASSUME Base, NEW s \in Services
  PROVE  Proper(LoadedAndRecomputed(s))
BY ProperRecomputed, ProperLoaded DEF Base, ProperStores, Proper, LoadedAndRecomputed

\* The store with a new job.
WithAdded(S, j, at) == [k \in DOMAIN S \union {j} |-> IF k = j THEN Created(j, at) ELSE S[k]]

LEMMA AddedLemma ==
  ASSUME Base, NEW S, Proper(S), NEW j \in Jobs, NEW at \in AtTimes \union {0},
         kind[j] = "at" => at # 0
  PROVE  /\ IsStore(WithAdded(S, j, at)) /\ SoundStore(WithAdded(S, j, at))
         /\ DOMAIN WithAdded(S, j, at) = DOMAIN S \union {j}
<1> DEFINE T == WithAdded(S, j, at)
<1>1. S \in [DOMAIN S -> Records] /\ DOMAIN S \subseteq Jobs /\ SoundStore(S)
  BY StoreLemma DEF Proper
<1>2. kind \in Mixes /\ now \in Nat
  BY Bounds DEF Base, Control
<1>3. Created(j, at) \in Records /\ Sound(j, Created(j, at))
  BY <1>2, CreatedLemma
<1>4. T = [k \in DOMAIN S \union {j} |-> IF k = j THEN Created(j, at) ELSE S[k]]
  BY DEF WithAdded
<1> HIDE DEF T
<1>5. ASSUME NEW k \in DOMAIN S \union {j}
      PROVE  T[k] \in Records /\ Sound(k, T[k])
  <2>1. CASE k = j
    <3>1. T[k] = Created(j, at)
      BY <1>4, <2>1
    <3> QED
      BY <1>3, <2>1, <3>1
  <2>2. CASE k # j
    <3>1. T[k] = S[k] /\ k \in DOMAIN S
      BY <1>4, <1>5, <2>2
    <3> QED
      BY <1>1, <3>1 DEF SoundStore
  <2> QED
    BY <2>1, <2>2
<1>6. T \in [DOMAIN S \union {j} -> Records]
  BY <1>4, <1>5
<1>7. IsStore(T) /\ DOMAIN T = DOMAIN S \union {j}
  BY <1>1, <1>6, StoreIs
<1>8. SoundStore(T)
  BY <1>5, <1>7 DEF SoundStore
<1> QED
  BY <1>7, <1>8 DEF T

LEMMA AddBase ==
  ASSUME Base, NEW j \in Jobs, NEW at \in AtTimes \union {0}, Add(j, at)
  PROVE  Base'
<1> DEFINE S == LoadedAndRecomputed(current)
           T == WithAdded(S, j, at)
<1>1. /\ current # NoService /\ j \notin used /\ used' = used \union {j}
      /\ at = 0 <=> kind[j] # "at"
      /\ requests < MaxRequests /\ requests' = requests + 1
      /\ Section(RecomputeNextRuns(T))
  BY DEF Add, Request, WithAdded
<1>2. current \in Services
  BY <1>1 DEF Base, Control
<1>3. Proper(S)
  BY <1>2, ProperLoadedAndRecomputed
<1> HIDE DEF S
<1>4. IsStore(T) /\ SoundStore(T) /\ DOMAIN T = DOMAIN S \union {j}
  BY <1>1, <1>3, AddedLemma
<1> HIDE DEF T
<1> DEFINE U == RecomputeNextRuns(T)
<1>5. IsStore(U) /\ SoundStore(U) /\ DOMAIN U = DOMAIN S \union {j}
  BY <1>4, ProperRecomputed
<1>6. Section(U)
  BY <1>1
<1> HIDE DEF U
<1>7. requests' \in 0..MaxRequests
  BY <1>1, Counts DEF Base
<1>8. DOMAIN U \subseteq used' /\ used' \subseteq Jobs /\ used \subseteq used'
  BY <1>1, <1>3, <1>5 DEF Proper, Base, Control
<1> QED
  BY <1>1, <1>5, <1>6, <1>7, <1>8, SectionBase

LEMMA UpdatedLemma ==
  ASSUME Base, NEW S, Proper(S), NEW j \in DOMAIN S, NEW at \in AtTimes \union {0},
         kind[j] = "at" => at # 0, NEW patch \in {"enable", "disable", "schedule", "other"}
  PROVE  Proper([S EXCEPT ![j] = Patched(j, @, patch, at)])
<1> DEFINE p == Patched(j, S[j], patch, at)
           T == [S EXCEPT ![j] = p]
<1>1. S \in [DOMAIN S -> Records] /\ DOMAIN S \subseteq Jobs /\ SoundStore(S) /\ DOMAIN S \subseteq used
  BY StoreLemma DEF Proper
<1>2. kind \in Mixes /\ now \in Nat
  BY Bounds DEF Base, Control
<1>3. S[j] \in Records /\ Sound(j, S[j]) /\ j \in Jobs
  BY <1>1 DEF SoundStore
<1>4. p \in Records /\ Sound(j, p)
  BY <1>2, <1>3, PatchedLemma
<1> HIDE DEF p
<1>5. T \in [DOMAIN S -> Records] /\ \A k \in DOMAIN S : T[k] = IF k = j THEN p ELSE S[k]
  BY <1>1, <1>4
<1> HIDE DEF T
<1>6. IsStore(T) /\ DOMAIN T = DOMAIN S
  BY <1>1, <1>5, StoreIs
<1>7. SoundStore(T)
  BY <1>1, <1>4, <1>5, <1>6 DEF SoundStore
<1> QED
  BY <1>1, <1>6, <1>7 DEF Proper, T, p

LEMMA UpdateBase ==
  ASSUME Base, NEW j \in Jobs, NEW at \in AtTimes \union {0},
         NEW patch \in {"enable", "disable", "schedule", "other"}, Update(j, patch, at)
  PROVE  Base'
<1> DEFINE S == Loaded(current)
           T == [S EXCEPT ![j] = Patched(j, @, patch, at)]
<1>1. /\ current # NoService /\ j \in DOMAIN S /\ used' = used
      /\ at = 0 <=> kind[j] # "at"
      /\ requests < MaxRequests /\ requests' = requests + 1
      /\ Section(T)
  BY DEF Update, Request
<1>2. current \in Services /\ used \subseteq Jobs
  BY <1>1 DEF Base, Control
<1>3. Proper(S)
  BY <1>2, ProperLoaded
<1> HIDE DEF S
<1>4. Proper(T)
  BY <1>1, <1>3, UpdatedLemma
<1> HIDE DEF T
<1>5. requests' \in 0..MaxRequests
  BY <1>1, Counts DEF Base
<1> QED
  BY <1>1, <1>2, <1>4, <1>5, SectionBase DEF Proper

LEMMA RestrictedLemma ==
  ASSUME Base, NEW S, Proper(S), NEW D \in SUBSET DOMAIN S
  PROVE  Proper([k \in D |-> S[k]])
<1> DEFINE T == [k \in D |-> S[k]]
<1>1. S \in [DOMAIN S -> Records] /\ DOMAIN S \subseteq Jobs /\ SoundStore(S) /\ DOMAIN S \subseteq used
  BY StoreLemma DEF Proper
<1>2. T \in [D -> Records] /\ D \subseteq Jobs
  BY <1>1
<1>3. IsStore(T) /\ DOMAIN T = D
  BY <1>2, StoreIs
<1>4. SoundStore(T)
  BY <1>1, <1>3 DEF SoundStore
<1> QED
  BY <1>1, <1>3, <1>4 DEF Proper

LEMMA RemoveBase ==
  ASSUME Base, NEW j \in Jobs, Remove(j)
  PROVE  Base'
<1> DEFINE S == LoadedAndRecomputed(current)
           T == [k \in DOMAIN S \ {j} |-> S[k]]
<1>1. /\ current # NoService /\ used' = used
      /\ requests < MaxRequests /\ requests' = requests + 1
      /\ Section(T)
  BY DEF Remove, Request
<1>2. current \in Services /\ used \subseteq Jobs
  BY <1>1 DEF Base, Control
<1>3. Proper(S)
  BY <1>2, ProperLoadedAndRecomputed
<1> HIDE DEF S
<1>4. Proper(T)
  BY <1>3, RestrictedLemma
<1> HIDE DEF T
<1>5. requests' \in 0..MaxRequests
  BY <1>1, Counts DEF Base
<1> QED
  BY <1>1, <1>2, <1>4, <1>5, SectionBase DEF Proper

LEMMA ReadBase ==
  ASSUME Base, Read
  PROVE  Base'
<1> DEFINE S == Loaded(current)
           T == Maintained(S, FALSE)
<1>1. /\ UNCHANGED <<now, kind, used, current, attached, phase, skip, later, timer, stage, work,
                     call, requests>>
      /\ current # NoService
      /\ Persist(current, T) \/ PersistFails(current, T)
  BY DEF Read, starting, ticking
<1>2. current \in Services
  BY <1>1 DEF Base, Control
<1>3. Proper(S)
  BY <1>2, ProperLoaded
<1> HIDE DEF S
<1>4. Proper(T)
  BY <1>3, ProperMaintained
<1> HIDE DEF T
<1>5. Saves(current, T) /\ troubles' \in 0..MaxTroubles
  BY <1>1, PersistSaves, Troubles DEF Base
<1>6. Control'
  BY <1>1, <1>5 DEF Base, Control
<1>7. ProperStores'
  BY <1>1, <1>2, <1>4, <1>5, SavedStores DEF Base, Proper
<1>8. Present'
  BY <1>1, <1>2, <1>4, <1>5, SavedPresent DEF Proper
<1>9. Off'
  BY <1>1 DEF Off
<1>10. Known'
  BY <1>1 DEF Base, Known, Planned
<1> QED
  BY <1>6, <1>7, <1>8, <1>9, <1>10 DEF Base

-----------------------------------------------------------------------------
(* The manual run *)

LEMMA CallFields ==
  ASSUME NEW c \in Calls
  PROVE  /\ c.service \in Services /\ c.job \in Jobs /\ c.forced \in BOOLEAN
         /\ c.state \in {"queued", "ready", "running", "done"}
         /\ c.started \in 0..MaxTime /\ c.ended \in 0..MaxTime /\ c.outcome \in Outcomes \union {"ok"}
BY DEF Calls

LEMMA EnqueueRunBase ==
  ASSUME Base, NEW j \in Jobs, NEW forced \in BOOLEAN, EnqueueRun(j, forced)
  PROVE  Base'
<1> DEFINE S == Maintained(Loaded(current), FALSE)
           c == [service |-> current, job |-> j, forced |-> forced, state |-> "queued",
                 started |-> 0, ended |-> 0, outcome |-> "ok"]
<1>1. /\ UNCHANGED <<now, kind, disk, used, current, attached, phase, skip, later, timer, stage,
                     work, troubles>>
      /\ current # NoService /\ requests < MaxRequests /\ requests' = requests + 1
      /\ mem' = [mem EXCEPT ![current] = S]
      /\ call' = IF Preflight(S, j, forced) THEN c ELSE NoCall
  BY DEF EnqueueRun, Request, starting, ticking
<1>2. current \in Services
  BY <1>1 DEF Base, Control
<1>3. Proper(S)
  BY <1>2, ProperLoaded, ProperMaintained
<1>4. Preflight(S, j, forced) => j \in DOMAIN S
  BY DEF Preflight
<1> HIDE DEF S
<1>5. Saves(current, S)
  BY <1>1 DEF Saves
<1>6. c \in Calls
  BY <1>2, Bounds DEF Calls
<1>7. call' = NoCall \/ (call' = c /\ j \in used)
  BY <1>1, <1>3, <1>4 DEF Proper
<1>8. c.service = current /\ c.state = "queued" /\ c.job = j
  OBVIOUS
<1> HIDE DEF c
<1>9. Control'
  <2>1. requests' \in 0..MaxRequests
    BY <1>1, Counts DEF Base
  <2> QED
    BY <1>1, <1>6, <1>7, <2>1 DEF Base, Control
<1>10. ProperStores'
  BY <1>1, <1>2, <1>3, <1>5, SavedStores DEF Base, Proper
<1>11. Present'
  BY <1>1, <1>2, <1>3, <1>5, <1>7, <1>8, SavedPresent DEF Proper
<1>12. Off'
  BY <1>1 DEF Off
<1>13. Known'
  BY <1>1, <1>7, <1>8 DEF Base, Known, Planned
<1> QED
  BY <1>9, <1>10, <1>11, <1>12, <1>13 DEF Base

\* While a manual run is queued or in progress its service has a store.
LEMMA CallerHasStore ==
  ASSUME Base, call # NoCall
  PROVE  /\ call \in Calls /\ call.service \in Services /\ mem[call.service] # NoStore
         /\ Proper(mem[call.service]) /\ current # NoService
<1>1. call \in Calls /\ call.service \in Services
  BY CallFields DEF Base, Control
<1>2. mem[call.service] # NoStore /\ current # NoService
  BY DEF Base, Present, Off
<1> QED
  BY <1>1, <1>2, ProperLoaded

LEMMA PrepareBase ==
  ASSUME Base, Prepare
  PROVE  Base'
<1> DEFINE s == call.service
           S == Maintained(Loaded(s), FALSE)
           c == [call EXCEPT !.state = "ready", !.started = now]
<1>1. /\ UNCHANGED <<now, kind, disk, used, current, attached, phase, skip, later, timer, stage,
                     work, requests, troubles>>
      /\ call # NoCall /\ call.state = "queued"
      /\ mem' = [mem EXCEPT ![s] = S]
      /\ call' = c \/ call' = NoCall
  BY DEF Prepare, starting, ticking, bounds
<1>2. call \in Calls /\ s \in Services /\ current # NoService
  BY <1>1, CallerHasStore
<1>3. Proper(S)
  BY <1>2, ProperLoaded, ProperMaintained
<1> HIDE DEF S
<1>4. Saves(s, S)
  BY <1>1 DEF Saves
<1>5. c \in Calls /\ c.service = s /\ c.job = call.job /\ c.state = "ready" /\ c.started = now
  <2>1. now \in 0..MaxTime
    BY DEF Base, Control
  <2> QED
    BY <1>2, <2>1 DEF Calls
<1> HIDE DEF c
<1>6. Control'
  BY <1>1, <1>5 DEF Base, Control
<1>7. ProperStores'
  BY <1>1, <1>2, <1>3, <1>4, SavedStores DEF Base, Proper
<1>8. Present'
  BY <1>1, <1>2, <1>3, <1>4, <1>5, SavedPresent DEF Proper
<1>9. Off'
  BY <1>1, <1>2 DEF Off
<1>10. Known'
  <2>1. now # 0
    BY DEF Base, Control
  <2> QED
    BY <1>1, <1>5, <2>1 DEF Base, Known, Planned
<1> QED
  BY <1>6, <1>7, <1>8, <1>9, <1>10 DEF Base

LEMMA ReserveBase ==
  ASSUME Base, Reserve
  PROVE  Base'
<1> DEFINE s == call.service
           j == call.job
           S == [mem[s] EXCEPT ![j].running = call.started]
           c == [call EXCEPT !.state = "running"]
<1>1. /\ UNCHANGED <<now, kind, used, current, attached, phase, skip, later, timer, stage, work,
                     requests>>
      /\ call # NoCall /\ call.state = "ready"
      /\ call' = c \/ call' = NoCall
      /\ \/ j \in DOMAIN mem[s] /\ (Persist(s, S) \/ PersistFails(s, S))
         \/ call' = NoCall /\ UNCHANGED <<disk, mem, troubles>>
  BY DEF Reserve, starting, ticking
<1>2. call \in Calls /\ s \in Services /\ current # NoService /\ Proper(mem[s])
  BY <1>1, CallerHasStore
<1>3. call.started \in 0..MaxTime /\ call.started # 0 /\ j \in used
  BY <1>1, <1>2, CallFields DEF Base, Known
<1>4. j \in DOMAIN mem[s] => Proper(S)
  BY <1>2, <1>3, OneMarkedLemma DEF Proper
<1> HIDE DEF S
<1>5. c \in Calls /\ c.service = s /\ c.job = j /\ c.started = call.started
  BY <1>2 DEF Calls
<1> HIDE DEF c
<1>6. CASE j \in DOMAIN mem[s] /\ (Persist(s, S) \/ PersistFails(s, S))
  <2>1. Saves(s, S) /\ troubles' \in 0..MaxTroubles
    BY <1>6, PersistSaves, Troubles DEF Base
  <2>2. Control'
    BY <1>1, <1>5, <2>1 DEF Base, Control
  <2>3. ProperStores'
    BY <1>1, <1>2, <1>4, <1>6, <2>1, SavedStores DEF Base, Proper
  <2>4. Present'
    BY <1>1, <1>2, <1>4, <1>5, <1>6, <2>1, SavedPresent DEF Proper
  <2>5. Off'
    BY <1>1, <1>2 DEF Off
  <2>6. Known'
    BY <1>1, <1>3, <1>5 DEF Base, Known, Planned
  <2> QED
    BY <2>2, <2>3, <2>4, <2>5, <2>6 DEF Base
<1>7. CASE call' = NoCall /\ UNCHANGED <<disk, mem, troubles>>
  <2>1. Control'
    BY <1>1, <1>7 DEF Base, Control
  <2>2. ProperStores'
    BY <1>1, <1>7, SameStores DEF Base
  <2>3. Present'
    BY <1>1, <1>7 DEF Base, Present
  <2>4. Off' /\ Known'
    BY <1>1, <1>2, <1>7 DEF Base, Off, Known, Planned
  <2> QED
    BY <2>1, <2>2, <2>3, <2>4 DEF Base
<1> QED
  BY <1>1, <1>6, <1>7

\* The store on disk with the result of the manual run, and without a job that
\* the result deletes.
Merged ==
  LET r == WithResult(call.job, mem[call.service][call.job], call, call.forced) IN
  IF Deletes(call.job, call) THEN [k \in DOMAIN disk \ {call.job} |-> disk[k]]
  ELSE [k \in DOMAIN disk |-> IF k = call.job THEN [r EXCEPT !.at = disk[call.job].at] ELSE disk[k]]

LEMMA AtChanges ==
  ASSUME NEW r \in Records, NEW a \in {0} \union AtTimes
  PROVE  LET u == [r EXCEPT !.at = a] IN
         u \in Records /\ u.at = a /\ u.enabled = r.enabled /\ u.next = r.next
BY DEF Records

LEMMA MergedLemma ==
  ASSUME Base, call # NoCall, call.job \in DOMAIN mem[call.service]
  PROVE  /\ Proper(Merged) /\ DOMAIN Merged \subseteq DOMAIN disk
         /\ \A k \in DOMAIN Merged : k # call.job => Merged[k] = disk[k]
<1> DEFINE s == call.service
           j == call.job
           r == WithResult(j, mem[s][j], call, call.forced)
           T == Merged
<1>1. call \in Calls /\ s \in Services /\ Proper(mem[s]) /\ Proper(disk)
  BY CallerHasStore DEF Base, ProperStores
<1>2. /\ disk \in [DOMAIN disk -> Records] /\ DOMAIN disk \subseteq Jobs /\ DOMAIN disk \subseteq used
      /\ SoundStore(disk)
  BY <1>1, StoreLemma DEF Proper
<1>3. mem[s][j] \in Records /\ j \in Jobs /\ kind \in Mixes /\ call.forced \in BOOLEAN /\ Ran(call)
  BY <1>1, StoreLemma, CallFields DEF Proper, Base, Control, Ran
<1>4. r \in Records /\ ~(r.enabled /\ r.next = 0)
  BY <1>3, WithResultLemma
<1>5. CASE Deletes(j, call)
  <2>1. T = [k \in DOMAIN disk \ {j} |-> disk[k]]
    BY <1>5 DEF Merged
  <2>2. DOMAIN disk \ {j} \in SUBSET DOMAIN disk
    OBVIOUS
  <2>3. Proper([k \in DOMAIN disk \ {j} |-> disk[k]])
    BY <1>1, <2>2, RestrictedLemma
  <2> QED
    BY <2>1, <2>3
<1>6. CASE ~Deletes(j, call)
  <2>1. T = [k \in DOMAIN disk |-> IF k = j THEN [r EXCEPT !.at = disk[j].at] ELSE disk[k]]
    BY <1>6 DEF Merged
  <2> HIDE DEF T, r
  <2>2. ASSUME NEW k \in DOMAIN disk
        PROVE  T[k] \in Records /\ Sound(k, T[k]) /\ (k # j => T[k] = disk[k])
    <3>1. CASE k = j
      <4>1. disk[j] \in Records /\ Sound(j, disk[j])
        BY <1>2, <3>1 DEF SoundStore
      <4>2. disk[j].at \in {0} \union AtTimes
        BY <4>1 DEF Records
      <4>3. LET u == [r EXCEPT !.at = disk[j].at] IN
            u \in Records /\ u.at = disk[j].at /\ u.enabled = r.enabled /\ u.next = r.next
        BY <1>4, <4>2, AtChanges
      <4>4. T[k] = [r EXCEPT !.at = disk[j].at]
        BY <2>1, <3>1
      <4>5. T[k] \in Records /\ T[k].at = disk[j].at /\ ~(T[k].enabled /\ T[k].next = 0)
        BY <1>4, <4>3, <4>4
      <4> QED
        BY <3>1, <4>1, <4>5 DEF Sound
    <3>2. CASE k # j
      <4>1. T[k] = disk[k]
        BY <2>1, <3>2
      <4> QED
        BY <1>2, <3>2, <4>1 DEF SoundStore
    <3> QED
      BY <3>1, <3>2
  <2>3. T \in [DOMAIN disk -> Records]
    BY <2>1, <2>2
  <2>4. IsStore(T) /\ DOMAIN T = DOMAIN disk
    BY <1>2, <2>3, StoreIs
  <2>5. SoundStore(T)
    BY <2>2, <2>4 DEF SoundStore
  <2>6. Proper(T) /\ DOMAIN T \subseteq DOMAIN disk
    BY <1>2, <2>4, <2>5 DEF Proper
  <2> QED
    BY <2>2, <2>4, <2>6 DEF T
<1> QED
  BY <1>5, <1>6

LEMMA FinishManualBase ==
  ASSUME Base, FinishManual
  PROVE  Base'
<1> DEFINE s == call.service
           j == call.job
           T == Maintained(Merged, TRUE)
<1>1. /\ UNCHANGED <<now, kind, used, current, phase, skip, later, stage, work, requests>>
      /\ call # NoCall /\ call' = NoCall
      /\ \/ UNCHANGED <<disk, mem, attached, timer, troubles>>
         \/ /\ j \in DOMAIN mem[s]
            /\ attached' = [attached EXCEPT ![s] = FALSE]
            /\ Persist(s, T) \/ PersistFails(s, T)
            /\ ArmTimer(s, T) \/ UNCHANGED timer
  BY DEF FinishManual, Merged, starting, memory
<1>2. call \in Calls /\ s \in Services /\ current # NoService
  BY <1>1, CallerHasStore
<1>3. CASE UNCHANGED <<disk, mem, attached, timer, troubles>>
  <2>1. Control'
    BY <1>1, <1>3 DEF Base, Control
  <2>2. ProperStores'
    BY <1>1, <1>3, SameStores DEF Base
  <2>3. Present'
    BY <1>1, <1>3 DEF Base, Present
  <2>4. Off' /\ Known'
    BY <1>1, <1>2, <1>3 DEF Base, Off, Known, Planned
  <2> QED
    BY <2>1, <2>2, <2>3, <2>4 DEF Base
<1>4. CASE /\ j \in DOMAIN mem[s]
           /\ attached' = [attached EXCEPT ![s] = FALSE]
           /\ Persist(s, T) \/ PersistFails(s, T)
           /\ ArmTimer(s, T) \/ UNCHANGED timer
  <2>1. Proper(T)
    BY <1>1, <1>4, MergedLemma, ProperMaintained
  <2> HIDE DEF T
  <2>2. Saves(s, T) /\ troubles' \in 0..MaxTroubles
    BY <1>4, PersistSaves, Troubles DEF Base
  <2>3. timer' \in [Services -> BOOLEAN]
    BY <1>2, <1>4, TimerArmed DEF Base, Control
  <2>4. Control'
    BY <1>1, <1>2, <1>4, <2>2, <2>3 DEF Base, Control
  <2>5. ProperStores'
    BY <1>1, <1>2, <2>1, <2>2, SavedStores DEF Base, Proper
  <2>6. Present'
    <3>1. \A t \in Services : t # s => attached'[t] = attached[t]
      BY <1>4 DEF Base, Control
    <3> QED
      BY <1>1, <1>2, <2>1, <2>2, <3>1, SavedPresent DEF Proper
  <2>7. Off' /\ Known'
    BY <1>1, <1>2 DEF Base, Off, Known, Planned
  <2> QED
    BY <2>4, <2>5, <2>6, <2>7 DEF Base
<1> QED
  BY <1>1, <1>3, <1>4

\* The base holds in the beginning, and every step keeps it.
LEMMA BaseInit ==
  ASSUME Init
  PROVE  Base
<1>1. Control
  <2>1. kind \in Mixes /\ used \in SUBSET Jobs /\ now \in 1..MaxTime
    BY Bounds, CronAssumption DEF Init, CronAssumption
  <2>2. work \in [Services -> [Flows -> [Jobs -> Runs]]]
    BY NoRunsAre DEF Init, NoRuns
  <2>3. requests \in 0..MaxRequests /\ troubles \in 0..MaxTroubles
    BY Bounds DEF Init
  <2> QED
    BY <2>1, <2>2, <2>3 DEF Init, Control
<1>2. ProperStores
  <2>1. PICK at \in AtTimes : disk = [j \in used |-> Created(j, IF kind[j] = "at" THEN at ELSE 0)]
    BY DEF Init
  <2>2. kind \in Mixes /\ now \in Nat /\ used \subseteq Jobs
    BY <1>1, Bounds DEF Control
  <2>3. ASSUME NEW j \in used
        PROVE  disk[j] \in Records /\ Sound(j, disk[j])
    <3> DEFINE a == IF kind[j] = "at" THEN at ELSE 0
    <3>1. disk[j] = Created(j, a) /\ j \in Jobs
      BY <2>1, <2>2
    <3>2. a \in AtTimes \union {0} /\ (kind[j] = "at" => a # 0)
      BY Bounds
    <3> HIDE DEF a
    <3> QED
      BY <2>2, <3>1, <3>2, CreatedLemma
  <2>4. disk \in [used -> Records]
    BY <2>1, <2>3
  <2>5. IsStore(disk) /\ DOMAIN disk = used
    BY <2>2, <2>4, StoreIs
  <2>6. Proper(disk)
    BY <2>3, <2>5 DEF Proper, SoundStore
  <2> QED
    BY <2>6 DEF Init, ProperStores
<1>3. Present
  BY DEF Init, Present
<1>4. \A s \in Services, f \in Flows, j \in Jobs : work[s][f][j].state = "none"
  BY DEF Init, NoRun
<1>5. Off /\ Known
  BY <1>4 DEF Init, Off, Known, Planned
<1> QED
  BY <1>1, <1>2, <1>3, <1>5 DEF Base

LEMMA BaseStep ==
  ASSUME Base, Step
  PROVE  Base'
<1>1. "tick" \in Flows /\ "start" \in Flows
  BY DEF Flows
<1>2. ASSUME NEW s \in Services, StartStep(s) PROVE Base'
  BY <1>1, <1>2, ClearBase, PlanBase, ApplyCatchupBase, FinishStartBase, TakeBase, SettleBase
     DEF StartStep
<1>3. ASSUME NEW s \in Services, TickStep(s) PROVE Base'
  BY <1>1, <1>3, OnTimerBase, SelectDueBase, ApplyTickBase, EndTickBase, TakeBase, SettleBase
     DEF TickStep
<1>4. CASE ManualStep
  BY <1>4, PrepareBase, ReserveBase, FinishManualBase, SettleManualBase DEF ManualStep
<1>5. CASE Operation
  BY <1>5, ReadBase, AddBase, UpdateBase, RemoveBase, EnqueueRunBase DEF Operation
<1> QED
  BY <1>2, <1>3, <1>4, <1>5, BootBase, ReloadBase, CrashBase, ClockBase DEF Step

-----------------------------------------------------------------------------
(* A job that is busy stays marked *)

LEMMA BusyIs ==
  ASSUME NEW j
  PROVE  /\ Busy(j) <=> Called(j) \/ \E s \in Services, f \in Flows : Planned(s, f, j)
         /\ Busy(j)' <=> Called(j)' \/ \E s \in Services, f \in Flows : Planned(s, f, j)'
BY DEF Busy, Called, Planned

\* What a job's marker is worth while nothing has put the job at risk.
Calm(j) == ~Risky(j) /\ (Busy(j) => Held(j))

LEMMA CalmIs ==
  ASSUME Base, NEW j \in Jobs, Calm(j), Busy(j)
  PROVE  /\ Alone(j) /\ MarkedIn(disk, j) /\ Firm(disk, j)
         /\ current \in Services
         /\ mem[current] # NoStore => MarkedIn(mem[current], j) /\ Firm(mem[current], j)
         /\ Firm(Loaded(current), j)
         /\ \A s \in Services : phase[s] # "clear"
         /\ \A s \in Services :
              timer[s] \/ stage[s] # "idle" \/ phase[s] \in {"plan", "catchup", "last"} => s = current
         /\ call # NoCall => call.service = current
<1>1. Alone(j) /\ MarkedIn(disk, j)
  BY DEF Calm, Held
<1>2. current \in Services
  <2>1. Off => current # NoService
    BY BusyIs DEF Off, Called, Planned
  <2> QED
    BY <2>1 DEF Base, Control
<1>3. mem[current] # NoStore => MarkedIn(mem[current], j)
  BY <1>2, Bounds DEF Calm, Held
<1>4. ASSUME NEW S \in Copies, j \in DOMAIN S
      PROVE  S[j].enabled /\ S[j].running \notin 1..(now - StuckAfter - 1)
  BY <1>4 DEF Calm, Risky
<1>5. ASSUME NEW S \in Copies, Proper(S), MarkedIn(S, j)
      PROVE  Firm(S, j)
  <2> SUFFICES ASSUME j \in DOMAIN S PROVE Lasts(S[j])
    BY DEF Firm
  <2>1. S[j] \in Records
    BY <1>5, StoreLemma DEF Proper
  <2>2. S[j].enabled /\ S[j].running # 0 /\ S[j].running \notin 1..(now - StuckAfter - 1)
    BY <1>4, <1>5 DEF MarkedIn
  <2>3. S[j].running \in Nat /\ now \in Nat /\ StuckAfter \in Nat
    BY <2>1, Fields, Bounds DEF Base, Control
  <2>4. ~(now - S[j].running > StuckAfter)
    BY <2>2, <2>3
  <2> QED
    BY <2>2, <2>4 DEF Lasts, IsStuck
<1>6. Firm(disk, j)
  BY <1>1, <1>5 DEF Copies, Base, ProperStores
<1>7. mem[current] # NoStore => Firm(mem[current], j)
  BY <1>2, <1>3, <1>5 DEF Copies, Base, ProperStores
<1>8. Firm(Loaded(current), j)
  BY <1>6, <1>7 DEF Loaded
<1>9. \A s \in Services : phase[s] # "clear" /\ (s # current => ~AtWork(s))
  BY DEF Calm, Risky
<1>10. \A s \in Services : phase[s] \in {"plan", "catchup", "last"} => s = current
  BY <1>9 DEF AtWork
<1>11. call # NoCall => call.service = current
  BY <1>9, CallerHasStore DEF AtWork
<1> QED
  BY <1>1, <1>2, <1>3, <1>6, <1>7, <1>8, <1>9, <1>10, <1>11 DEF AtWork

LEMMA CalmAfter ==
  ASSUME NEW j, Busy(j)', ~Risky(j)'
  PROVE  /\ \A s \in Services : phase'[s] # "clear"
         /\ \A s \in Services :
              /\ stage'[s] # "idle" \/ phase'[s] \in {"plan", "catchup", "last"} => s = current'
              /\ call' # NoCall /\ call'.service = s => s = current'
         /\ \A s \in Services : mem'[s] # NoStore /\ j \in DOMAIN mem'[s] => mem'[s][j].enabled
<1>1. \A s \in Services : phase'[s] # "clear" /\ (s # current' => ~AtWork(s)')
  BY DEF Risky
<1>2. \A s \in Services : phase'[s] \in {"plan", "catchup", "last"} => s = current'
  BY <1>1 DEF AtWork
<1>3. ASSUME NEW s \in Services, mem'[s] # NoStore, j \in DOMAIN mem'[s]
      PROVE  mem'[s][j].enabled
  <2>1. mem'[s] \in Copies'
    BY <1>3 DEF Copies
  <2> QED
    BY <1>3, <2>1 DEF Risky
<1> QED
  BY <1>1, <1>2, <1>3 DEF AtWork

LEMMA AloneStays ==
  ASSUME NEW j, Alone(j), Called(j)' => Called(j),
         \A s \in Services, f \in Flows : Planned(s, f, j)' => Planned(s, f, j)
  PROVE  Alone(j)'
BY DEF Alone

\* A step that starts no run and saves, if it does, what keeps the marker.
LEMMA QuietStep ==
  ASSUME Base, NEW j \in Jobs, Calm(j), Busy(j)', current' = current,
         Called(j)' => Called(j),
         \A s \in Services, f \in Flows : Planned(s, f, j)' => Planned(s, f, j),
         Busy(j) => \/ UNCHANGED <<mem, disk>>
                    \/ \E T : Saves(current, T) /\ MarkedIn(T, j)
  PROVE  Held(j)'
<1>1. Busy(j)
  BY BusyIs
<1>2. /\ Alone(j) /\ MarkedIn(disk, j) /\ current \in Services
      /\ mem[current] # NoStore => MarkedIn(mem[current], j)
  BY <1>1, CalmIs
<1>3. Alone(j)'
  BY <1>2, AloneStays
<1>4. MarkedIn(disk', j) /\ (mem'[current] # NoStore => MarkedIn(mem'[current], j))
  <2>1. CASE UNCHANGED <<mem, disk>>
    BY <1>2, <2>1
  <2>2. ASSUME NEW T, Saves(current, T), MarkedIn(T, j)
        PROVE  MarkedIn(disk', j) /\ (mem'[current] # NoStore => MarkedIn(mem'[current], j))
    <3>1. mem'[current] = T /\ disk' \in {disk, T}
      BY <1>2, <2>2, SavedMem DEF Saves, Base
    <3> QED
      BY <1>2, <2>2, <3>1
  <2> QED
    BY <1>1, <2>1, <2>2
<1> QED
  BY <1>3, <1>4 DEF Held, MarkedIn

\* A step that starts a run saves the marker.
LEMMA StartingStep ==
  ASSUME Base, current' = current, current \in Services, NEW j \in Jobs, Alone(j)', NEW T,
         mem' = [mem EXCEPT ![current] = T], disk' = T, MarkedIn(T, j)
  PROVE  Held(j)'
<1>1. mem'[current] = T
  BY SavedMem DEF Base
<1> QED
  BY <1>1 DEF Held, MarkedIn

LEMMA TendedMarks ==
  ASSUME Base, NEW S, Proper(S), NEW j, Firm(S, j)
  PROVE  /\ \A b : Firm(Maintained(S, b), j) /\ MarkedIn(Maintained(S, b), j)
         /\ Firm(RecomputeNextRuns(S), j) /\ MarkedIn(RecomputeNextRuns(S), j)
<1>1. kind \in Mixes /\ now \in Nat /\ IsStore(S)
  BY Bounds DEF Base, Control, Proper
<1>2. ASSUME NEW T, TendedStore(S, T) PROVE Firm(T, j) /\ MarkedIn(T, j)
  BY <1>1, <1>2, TendedStoreLemma
<1>3. \A b : TendedStore(S, Maintained(S, b))
  BY MaintainedIsTended
<1>4. TendedStore(S, RecomputeNextRuns(S))
  BY RecomputedIsTended
<1>5. \A b : Firm(Maintained(S, b), j) /\ MarkedIn(Maintained(S, b), j)
  BY <1>2, <1>3
<1>6. Firm(RecomputeNextRuns(S), j) /\ MarkedIn(RecomputeNextRuns(S), j)
  BY <1>2, <1>4
<1> QED
  BY <1>5, <1>6

LEMMA StartOfService ==
  ASSUME Base, NEW s \in Services, Boot(s) \/ Reload(s) \/ Clear(s),
         NEW j \in Jobs, Calm(j), Busy(j)', ~Risky(j)'
  PROVE  Held(j)'
<1>1. CASE Boot(s) \/ Reload(s)
  <2>1. phase' = [phase EXCEPT ![s] = "clear"]
    BY <1>1 DEF Boot, Reload, Enter
  <2>2. phase'[s] = "clear"
    BY <2>1 DEF Base, Control
  <2> QED
    BY <2>2, CalmAfter
<1>2. CASE Clear(s)
  <2>1. phase[s] = "clear" /\ UNCHANGED <<work, call>>
    BY <1>2 DEF Clear
  <2>2. Busy(j)
    BY <2>1 DEF Busy
  <2> QED
    BY <2>1, <2>2, CalmIs
<1> QED
  BY <1>1, <1>2

LEMMA PlanMarks ==
  ASSUME Base, NEW s \in Services, Plan(s), NEW j \in Jobs, Calm(j), Busy(j)', ~Risky(j)'
  PROVE  Held(j)'
<1>1. UNCHANGED <<current, call>> /\ phase[s] = "plan" /\ mem[s] # NoStore
  BY DEF Plan, Base, Present
<1>2. Called(j)' <=> Called(j)
  BY <1>1 DEF Called
<1> DEFINE missed == {k \in DOMAIN mem[s] : IsMissed(k, mem[s][k]) /\ k \notin skip[s]}
<1>3. CASE UNCHANGED <<disk, mem, troubles, later, work>>
  <2>1. \A t \in Services, f \in Flows : Planned(t, f, j)' => Planned(t, f, j)
    BY <1>3 DEF Planned
  <2> QED
    BY <1>1, <1>2, <1>3, <2>1, QuietStep
<1>4. ASSUME NEW soon \in SUBSET missed, Persist(s, Marked(mem[s], soon)) \/ PersistFails(s, Marked(mem[s], soon)),
             \/ /\ phase' = [phase EXCEPT ![s] = "catchup"]
                /\ work' = [work EXCEPT ![s].start = Due(soon)]
                /\ Persist(s, Marked(mem[s], soon))
             \/ phase' = [phase EXCEPT ![s] = "failed"] /\ UNCHANGED work
      PROVE  Held(j)'
  <2> DEFINE T == Marked(mem[s], soon)
  <2>1. Saves(s, T)
    BY <1>4, PersistSaves
  <2>2. Proper(mem[s]) /\ now \in 1..MaxTime
    BY <1>1, ProperLoaded DEF Base, Control
  <2>3. MarkedIn(mem[s], j) \/ j \in soon => MarkedIn(T, j)
    BY <2>2, MarkedLemma DEF Proper
  <2>4. j \in soon => j \in DOMAIN mem[s] /\ mem[s][j].running = 0
    BY DEF IsMissed
  <2>5. Persist(s, T) => disk' = T /\ mem' = [mem EXCEPT ![s] = T]
    BY DEF Persist
  <2>6. work' = [work EXCEPT ![s]["start"] = Due(soon)] =>
          /\ Planned(s, "start", j)' => j \in soon
          /\ \A t \in Services, f \in Flows : Planned(t, f, j)' => Planned(t, f, j) \/ (t = s /\ f = "start" /\ j \in soon)
    <3> DEFINE D == Due(soon)
    <3>1. "start" \in Flows /\ Control
      BY DEF Flows, Base
    <3>2. D \in [Jobs -> Runs] /\ (D[j].state # "none" <=> j \in soon)
      BY DueLemma
    <3> HIDE DEF D, T, missed
    <3>3. SUFFICES ASSUME work' = [work EXCEPT ![s]["start"] = D]
          PROVE  /\ Planned(s, "start", j)' => j \in soon
                 /\ \A t \in Services, f \in Flows : Planned(t, f, j)' => Planned(t, f, j) \/ (t = s /\ f = "start" /\ j \in soon)
      BY DEF D
    <3>4. /\ Planned(s, "start", j)' <=> D[j].state # "none"
          /\ \A t \in Services, g \in Flows : t # s \/ g # "start" => (Planned(t, g, j)' <=> Planned(t, g, j))
      BY <3>1, <3>2, <3>3, FlowChanges
    <3> QED
      BY <3>2, <3>4
  <2> HIDE DEF T, missed
  <2>7. CASE Busy(j)
    <3>1. s = current /\ MarkedIn(mem[s], j)
      BY <1>1, <2>7, CalmIs
    <3>2. j \notin soon
      BY <2>4, <3>1 DEF MarkedIn
    <3>3. \A t \in Services, f \in Flows : Planned(t, f, j)' => Planned(t, f, j)
      <4>1. CASE UNCHANGED work
        BY <4>1 DEF Planned
      <4>2. CASE work' = [work EXCEPT ![s]["start"] = Due(soon)]
        BY <2>6, <3>2, <4>2
      <4> QED
        BY <1>4, <4>1, <4>2
    <3>4. Saves(current, T) /\ MarkedIn(T, j)
      BY <2>1, <2>3, <3>1
    <3> QED
      BY <1>1, <1>2, <3>3, <3>4, QuietStep
  <2>8. CASE ~Busy(j)
    <3>1. ~Called(j)' /\ \A t \in Services, f \in Flows : ~Planned(t, f, j)
      BY <1>2, <2>8, BusyIs
    <3>2. PICK t \in Services, f \in Flows : Planned(t, f, j)'
      BY <3>1, BusyIs
    <3>3. ~(UNCHANGED work)
      BY <3>1, <3>2 DEF Planned
    <3>4. /\ phase' = [phase EXCEPT ![s] = "catchup"]
          /\ work' = [work EXCEPT ![s]["start"] = Due(soon)]
          /\ Persist(s, T)
      BY <1>4, <3>3 DEF T
    <3>5. phase'[s] = "catchup"
      BY <3>4 DEF Base, Control
    <3>6. s = current
      BY <1>1, <3>5, CalmAfter
    <3>7. j \in soon
      BY <2>6, <3>1, <3>2, <3>4
    <3>8. Alone(j)'
      BY <2>6, <3>1, <3>4 DEF Alone
    <3> QED
      BY <1>1, <2>3, <2>5, <3>4, <3>6, <3>7, <3>8, StartingStep
  <2> QED
    BY <2>7, <2>8
<1> QED
  BY <1>3, <1>4 DEF Plan, Enter

\* Results are applied to the store on disk; runs that are not among them keep
\* their marker.
LEMMA ResultsMarks ==
  ASSUME Base, NEW s \in Services, NEW f \in Flows, NEW j \in Jobs, Firm(disk, j), ~Planned(s, f, j)
  PROVE  Proper(WithResults(disk, work[s][f])) /\ Firm(WithResults(disk, work[s][f]), j)
<1> DEFINE D == work[s][f]
           S == WithResults(disk, D)
<1>1. D \in [Jobs -> Runs] /\ kind \in Mixes /\ Proper(disk) /\ D[j].state # "done"
  BY DEF Base, Control, ProperStores, Planned
<1> HIDE DEF D
<1>2. Proper(S)
  BY <1>1, ProperWithResults
<1>3. DOMAIN S \subseteq DOMAIN disk /\ (j \in DOMAIN S => S[j] = disk[j])
  BY <1>1, WithResultsLemma DEF Proper
<1> HIDE DEF S
<1>4. Firm(S, j)
  BY <1>3 DEF Firm
<1> QED
  BY <1>2, <1>4 DEF S, D

\* A flow ends: the job was not in it, or it is no longer busy.
LEMMA FlowEnds ==
  ASSUME Base, NEW s \in Services, NEW f \in Flows, NEW j \in Jobs, Calm(j), Busy(j)',
         work' = [work EXCEPT ![s][f] = NoRuns], call' = call
  PROVE  /\ Busy(j) /\ Alone(j) /\ ~Planned(s, f, j)
         /\ Called(j)' <=> Called(j)
         /\ \A t \in Services, g \in Flows : Planned(t, g, j)' => Planned(t, g, j)
<1>1. /\ \A t \in Services, g \in Flows : Planned(t, g, j)' => Planned(t, g, j)
      /\ ~Planned(s, f, j)'
  BY FlowCleared DEF Base
<1>2. Called(j)' <=> Called(j)
  BY DEF Called
<1>3. Busy(j)
  BY <1>1, <1>2, BusyIs
<1>4. Alone(j)
  BY <1>3 DEF Calm, Held
<1>5. ASSUME Planned(s, f, j) PROVE FALSE
  <2>1. ~Called(j)
    BY <1>4, <1>5 DEF Alone
  <2>2. PICK t \in Services, g \in Flows : Planned(t, g, j)'
    BY <1>2, <2>1, BusyIs
  <2>3. t = s /\ g = f
    BY <1>1, <1>4, <1>5, <2>2 DEF Alone
  <2> QED
    BY <1>1, <2>2, <2>3
<1> QED
  BY <1>1, <1>2, <1>3, <1>4, <1>5

LEMMA ApplyCatchupMarks ==
  ASSUME Base, NEW s \in Services, ApplyCatchup(s), NEW j \in Jobs, Calm(j), Busy(j)', ~Risky(j)'
  PROVE  Held(j)'
<1> DEFINE S == WithResults(disk, work[s]["start"])
           deferred == [k \in DOMAIN S |->
                          IF k \in later[s] /\ S[k].enabled
                          THEN [S[k] EXCEPT !.next = now + Stagger] ELSE S[k]]
           T == Maintained(deferred, FALSE)
<1>1. /\ UNCHANGED <<current, call>> /\ phase[s] = "catchup"
      /\ work' = [work EXCEPT ![s]["start"] = NoRuns]
      /\ Persist(s, T) \/ PersistFails(s, T)
  BY DEF ApplyCatchup
<1>2. "start" \in Flows /\ now \in Nat
  BY Bounds DEF Flows, Base, Control
<1>3. /\ Busy(j) /\ ~Planned(s, "start", j) /\ (Called(j)' <=> Called(j))
      /\ \A t \in Services, g \in Flows : Planned(t, g, j)' => Planned(t, g, j)
  BY <1>1, <1>2, FlowEnds
<1>4. s = current /\ Firm(disk, j)
  BY <1>1, <1>3, CalmIs
<1>5. Proper(S) /\ Firm(S, j)
  BY <1>2, <1>3, <1>4, ResultsMarks
<1> HIDE DEF S
<1>6. Firm(deferred, j)
  BY <1>2, <1>5, DeferredLemma DEF Proper
<1>7. Proper(deferred)
  BY <1>2, <1>5, DeferredLemma DEF Proper
<1> HIDE DEF deferred
<1>8. MarkedIn(T, j)
  BY <1>6, <1>7, TendedMarks
<1> HIDE DEF T
<1>9. Saves(s, T)
  BY <1>1, PersistSaves
<1> QED
  BY <1>1, <1>3, <1>4, <1>8, <1>9, QuietStep

LEMMA ApplyTickMarks ==
  ASSUME Base, NEW s \in Services, ApplyTick(s), NEW j \in Jobs, Calm(j), Busy(j)', ~Risky(j)'
  PROVE  Held(j)'
<1> DEFINE S == WithResults(disk, work[s]["tick"])
           T == Maintained(S, FALSE)
<1>1. /\ UNCHANGED <<current, call>> /\ stage[s] = "work"
      /\ work' = [work EXCEPT ![s]["tick"] = NoRuns]
      /\ Persist(s, T) \/ PersistFails(s, T)
  BY DEF ApplyTick
<1>2. "tick" \in Flows
  BY DEF Flows
<1>3. /\ Busy(j) /\ ~Planned(s, "tick", j) /\ (Called(j)' <=> Called(j))
      /\ \A t \in Services, g \in Flows : Planned(t, g, j)' => Planned(t, g, j)
  BY <1>1, <1>2, FlowEnds
<1>4. s = current /\ Firm(disk, j)
  BY <1>1, <1>3, CalmIs
<1>5. Proper(S) /\ Firm(S, j)
  BY <1>2, <1>3, <1>4, ResultsMarks
<1> HIDE DEF S
<1>6. MarkedIn(T, j)
  BY <1>5, TendedMarks
<1> HIDE DEF T
<1>7. Saves(s, T)
  BY <1>1, PersistSaves
<1> QED
  BY <1>1, <1>3, <1>4, <1>6, <1>7, QuietStep

\* Steps that leave runs as they are.
LEMMA SameRuns ==
  ASSUME UNCHANGED <<work, call>>, NEW j, Busy(j)'
  PROVE  /\ Busy(j) /\ (Called(j)' <=> Called(j))
         /\ \A t \in Services, g \in Flows : Planned(t, g, j)' => Planned(t, g, j)
BY DEF Busy, Called, Planned

LEMMA FinishStartMarks ==
  ASSUME Base, NEW s \in Services, FinishStart(s), NEW j \in Jobs, Calm(j), Busy(j)', ~Risky(j)'
  PROVE  Held(j)'
<1> DEFINE T == RecomputeNextRuns(disk)
<1>1. /\ UNCHANGED <<current, work, call>> /\ phase[s] = "last"
      /\ Persist(s, T) \/ PersistFails(s, T)
  BY DEF FinishStart
<1>2. /\ Busy(j) /\ (Called(j)' <=> Called(j))
      /\ \A t \in Services, g \in Flows : Planned(t, g, j)' => Planned(t, g, j)
  BY <1>1, SameRuns
<1>3. s = current /\ Firm(disk, j) /\ Proper(disk)
  BY <1>1, <1>2, CalmIs DEF Base, ProperStores
<1>4. MarkedIn(T, j) /\ Saves(s, T)
  BY <1>1, <1>3, TendedMarks, PersistSaves
<1> HIDE DEF T
<1> QED
  BY <1>1, <1>2, <1>3, <1>4, QuietStep

LEMMA SelectDueMarks ==
  ASSUME Base, NEW s \in Services, SelectDue(s), NEW j \in Jobs, Calm(j), Busy(j)', ~Risky(j)'
  PROVE  Held(j)'
<1> DEFINE due == {k \in DOMAIN disk : IsDue(disk[k])}
           T == Selected
<1>1. /\ UNCHANGED <<current, call>> /\ stage[s] = "select"
      /\ \/ /\ Persist(s, T)
            /\ stage' = [stage EXCEPT ![s] = IF due = {} THEN "end" ELSE "work"]
            /\ work' = [work EXCEPT ![s]["tick"] = Due(due)]
         \/ PersistFails(s, T) /\ UNCHANGED work
  BY DEF SelectDue, Selected, Reach
<1>2. Proper(disk) /\ now \in 1..MaxTime
  BY DEF Base, ProperStores, Control
<1>3. (Firm(disk, j) /\ MarkedIn(disk, j)) \/ j \in due => MarkedIn(T, j)
  <2>1. CASE due = {}
    <3>1. T = Maintained(disk, TRUE)
      BY <2>1 DEF Selected
    <3> QED
      BY <1>2, <2>1, <3>1, TendedMarks
  <2>2. CASE due # {}
    <3>1. T = Marked(disk, due)
      BY <2>2 DEF Selected
    <3> QED
      BY <1>2, <3>1, MarkedLemma DEF Proper
  <2> QED
    BY <2>1, <2>2
<1>4. j \in due => j \in DOMAIN disk /\ disk[j].running = 0
  BY DEF IsDue
<1>5. Persist(s, T) => disk' = T /\ mem' = [mem EXCEPT ![s] = T]
  BY DEF Persist
<1>6. work' = [work EXCEPT ![s]["tick"] = Due(due)] =>
        \A t \in Services, f \in Flows : Planned(t, f, j)' => Planned(t, f, j) \/ (t = s /\ f = "tick" /\ j \in due)
  <2> DEFINE D == Due(due)
  <2>1. "tick" \in Flows /\ Control
    BY DEF Flows, Base
  <2>2. D \in [Jobs -> Runs] /\ (D[j].state # "none" <=> j \in due)
    BY DueLemma
  <2> HIDE DEF D, due
  <2>3. SUFFICES ASSUME work' = [work EXCEPT ![s]["tick"] = D]
        PROVE  \A t \in Services, f \in Flows : Planned(t, f, j)' => Planned(t, f, j) \/ (t = s /\ f = "tick" /\ j \in due)
    BY DEF D
  <2>4. /\ Planned(s, "tick", j)' <=> D[j].state # "none"
        /\ \A t \in Services, g \in Flows : t # s \/ g # "tick" => (Planned(t, g, j)' <=> Planned(t, g, j))
    BY <2>1, <2>2, <2>3, FlowChanges
  <2> QED
    BY <2>2, <2>4
<1>7. Saves(s, T)
  BY <1>1, PersistSaves
<1>8. Called(j)' <=> Called(j)
  BY <1>1 DEF Called
<1> HIDE DEF T, due
<1>9. CASE Busy(j)
  <2>1. s = current /\ MarkedIn(disk, j) /\ Firm(disk, j)
    BY <1>1, <1>9, CalmIs
  <2>2. j \notin due
    BY <1>4, <2>1 DEF MarkedIn
  <2>3. \A t \in Services, f \in Flows : Planned(t, f, j)' => Planned(t, f, j)
    <3>1. CASE UNCHANGED work
      BY <3>1 DEF Planned
    <3>2. CASE work' = [work EXCEPT ![s]["tick"] = Due(due)]
      BY <1>6, <2>2, <3>2
    <3> QED
      BY <1>1, <3>1, <3>2
  <2> QED
    BY <1>1, <1>3, <1>7, <1>8, <2>1, <2>3, QuietStep
<1>10. CASE ~Busy(j)
  <2>1. ~Called(j)' /\ \A t \in Services, f \in Flows : ~Planned(t, f, j)
    BY <1>8, <1>10, BusyIs
  <2>2. PICK t \in Services, f \in Flows : Planned(t, f, j)'
    BY <2>1, BusyIs
  <2>3. ~(UNCHANGED work)
    BY <2>1, <2>2 DEF Planned
  <2>4. /\ Persist(s, T)
        /\ stage' = [stage EXCEPT ![s] = IF due = {} THEN "end" ELSE "work"]
        /\ work' = [work EXCEPT ![s]["tick"] = Due(due)]
    BY <1>1, <2>3
  <2>5. j \in due
    BY <1>6, <2>1, <2>2, <2>4
  <2>6. stage'[s] = "work"
    BY <2>4, <2>5 DEF Base, Control
  <2>7. s = current
    BY <1>1, <2>6, CalmAfter
  <2>8. Alone(j)'
    BY <1>6, <2>1, <2>4 DEF Alone
  <2> QED
    BY <1>1, <1>3, <1>5, <2>4, <2>5, <2>7, <2>8, StartingStep
<1> QED
  BY <1>9, <1>10

LEMMA TakeMarks ==
  ASSUME Base, NEW s \in Services, NEW f \in Flows, NEW k \in Jobs, Take(s, f, k),
         NEW j \in Jobs, Calm(j), Busy(j)', ~Risky(j)'
  PROVE  Held(j)'
<1>1. UNCHANGED <<current, disk, call>>
  BY DEF Take
<1>2. \A t \in Services, g \in Flows : Planned(t, g, j)' => Planned(t, g, j)
  BY TakeWork DEF Base
<1>3. Called(j)' <=> Called(j)
  BY <1>1 DEF Called
<1>4. Busy(j)
  BY <1>2, <1>3, BusyIs
<1>5. /\ Alone(j) /\ MarkedIn(disk, j) /\ current \in Services
      /\ mem[current] # NoStore => MarkedIn(mem[current], j)
  BY <1>4, CalmIs
<1>6. Alone(j)'
  BY <1>2, <1>3, <1>5, AloneStays
<1>7. mem'[current] # NoStore => MarkedIn(mem'[current], j)
  <2>1. CASE UNCHANGED mem
    BY <1>5, <2>1
  <2>2. CASE LET T == [mem[s] EXCEPT ![k].running = now] IN
             /\ mem[s] # NoStore /\ Proper(mem[s]) /\ k \in DOMAIN mem[s]
             /\ mem' = [mem EXCEPT ![s] = T] /\ Proper(T)
    <3> DEFINE T == [mem[s] EXCEPT ![k].running = now]
    <3>1. now \in 0..MaxTime /\ now # 0
      BY DEF Base, Control
    <3>2. MarkedIn(mem[s], j) => MarkedIn(T, j)
      BY <2>2, <3>1, OneMarkedLemma DEF Proper
    <3>3. mem' = [mem EXCEPT ![s] = T]
      BY <2>2
    <3> HIDE DEF T
    <3>4. mem'[s] = T /\ \A t \in Services : t # s => mem'[t] = mem[t]
      BY <3>3, SavedMem DEF Base
    <3> QED
      BY <1>5, <2>2, <3>2, <3>4
  <2> QED
    BY <2>1, <2>2, TakeMem
<1> QED
  BY <1>1, <1>5, <1>6, <1>7 DEF Held, MarkedIn

\* Steps that save nothing, and plan nothing.
LEMMA IdleMarks ==
  ASSUME Base, NEW j \in Jobs, Calm(j), Busy(j)',
         \/ Clock
         \/ \E s \in Services : OnTimer(s) \/ EndTick(s)
         \/ \E s \in Services, f \in Flows, k \in Jobs, o \in Outcomes : Settle(s, f, k, o)
         \/ \E o \in Outcomes : SettleManual(o)
  PROVE  Held(j)'
<1>1. UNCHANGED <<current, disk, mem>>
  BY DEF Clock, OnTimer, EndTick, Settle, SettleManual, service, memory
<1>2. /\ Called(j)' => Called(j)
      /\ \A t \in Services, g \in Flows : Planned(t, g, j)' => Planned(t, g, j)
  <2>1. CASE Clock \/ \E s \in Services : OnTimer(s) \/ EndTick(s)
    <3>1. UNCHANGED <<work, call>>
      BY <2>1 DEF Clock, OnTimer, EndTick, service
    <3> QED
      BY <3>1 DEF Called, Planned
  <2>2. ASSUME NEW s \in Services, NEW f \in Flows, NEW k \in Jobs, NEW o \in Outcomes, Settle(s, f, k, o)
        PROVE  /\ Called(j)' => Called(j)
               /\ \A t \in Services, g \in Flows : Planned(t, g, j)' => Planned(t, g, j)
    <3>1. call' = call
      BY <2>2 DEF Settle
    <3> QED
      BY <2>2, <3>1, SettleWork DEF Base, Called
  <2>3. ASSUME NEW o \in Outcomes, SettleManual(o)
        PROVE  /\ Called(j)' => Called(j)
               /\ \A t \in Services, g \in Flows : Planned(t, g, j)' => Planned(t, g, j)
    <3>1. /\ call # NoCall /\ call.state = "running" /\ work' = work
          /\ call' = [call EXCEPT !.state = "done", !.ended = now, !.outcome = o]
      BY <2>3 DEF SettleManual, service
    <3>2. call'.job = call.job
      BY <3>1, CallerHasStore DEF Calls
    <3> QED
      BY <3>1, <3>2 DEF Called, Planned
  <2> QED
    BY <2>1, <2>2, <2>3
<1> QED
  BY <1>1, <1>2, QuietStep

LEMMA SectionMarks ==
  ASSUME Base, NEW S, Section(S), NEW j \in Jobs, Calm(j), Busy(j)', Busy(j) => MarkedIn(S, j)
  PROVE  Held(j)'
<1>1. UNCHANGED <<current, work, call>> /\ Saves(current, S)
  BY PersistSaves DEF Section
<1>2. /\ Busy(j) /\ (Called(j)' <=> Called(j))
      /\ \A t \in Services, g \in Flows : Planned(t, g, j)' => Planned(t, g, j)
  BY <1>1, SameRuns
<1> QED
  BY <1>1, <1>2, QuietStep

LEMMA LoadedMarks ==
  ASSUME Base, NEW j \in Jobs, Calm(j), Busy(j)
  PROVE  /\ Proper(LoadedAndRecomputed(current)) /\ Firm(LoadedAndRecomputed(current), j)
         /\ Proper(Loaded(current)) /\ Firm(Loaded(current), j)
<1>1. /\ current \in Services /\ Firm(disk, j) /\ Proper(disk) /\ Firm(Loaded(current), j)
      /\ mem[current] # NoStore => Firm(mem[current], j)
  BY CalmIs DEF Base, ProperStores
<1>2. Firm(RecomputeNextRuns(disk), j)
  BY <1>1, TendedMarks
<1>3. Firm(LoadedAndRecomputed(current), j)
  BY <1>1, <1>2 DEF LoadedAndRecomputed
<1> QED
  BY <1>1, <1>3, ProperLoadedAndRecomputed, ProperLoaded

LEMMA AddMarks ==
  ASSUME Base, NEW k \in Jobs, NEW at \in AtTimes \union {0}, Add(k, at),
         NEW j \in Jobs, Calm(j), Busy(j)', ~Risky(j)'
  PROVE  Held(j)'
<1> DEFINE S == LoadedAndRecomputed(current)
           T == WithAdded(S, k, at)
           U == RecomputeNextRuns(T)
<1>1. /\ k \notin used /\ Section(U) /\ (kind[k] = "at" => at # 0)
  BY DEF Add, WithAdded
<1>2. ASSUME Busy(j) PROVE MarkedIn(U, j)
  <2>1. Proper(S) /\ Firm(S, j)
    BY <1>2, LoadedMarks
  <2> HIDE DEF S
  <2>2. j # k
    BY <1>1, <1>2, BusyIs DEF Base, Known, Called
  <2>3. IsStore(T) /\ SoundStore(T) /\ DOMAIN T = DOMAIN S \union {k}
    BY <1>1, <2>1, AddedLemma
  <2>4. j \in DOMAIN T => j \in DOMAIN S /\ T[j] = S[j]
    BY <2>2, <2>3 DEF WithAdded
  <2> HIDE DEF T
  <2>5. Firm(T, j)
    BY <2>1, <2>4 DEF Firm
  <2>6. kind \in Mixes /\ now \in Nat
    BY Bounds DEF Base, Control
  <2>7. TendedStore(T, U)
    BY RecomputedIsTended
  <2> HIDE DEF U
  <2> QED
    BY <2>3, <2>5, <2>6, <2>7, TendedStoreLemma
<1> HIDE DEF U
<1> QED
  BY <1>1, <1>2, SectionMarks

LEMMA UpdateMarks ==
  ASSUME Base, NEW k \in Jobs, NEW at \in AtTimes \union {0},
         NEW patch \in {"enable", "disable", "schedule", "other"}, Update(k, patch, at),
         NEW j \in Jobs, Calm(j), Busy(j)', ~Risky(j)'
  PROVE  Held(j)'
<1> DEFINE S == Loaded(current)
           p == Patched(k, S[k], patch, at)
           T == [S EXCEPT ![k] = p]
<1>1. /\ current # NoService /\ k \in DOMAIN S /\ Section(T) /\ (kind[k] = "at" => at # 0)
  BY DEF Update
<1>2. current \in Services
  BY <1>1 DEF Base, Control
<1>3. Proper(S)
  BY <1>2, ProperLoaded
<1>4. S \in [DOMAIN S -> Records] /\ k \in Jobs
  BY <1>3, StoreLemma DEF Proper
<1>5. kind \in Mixes /\ now \in Nat
  BY Bounds DEF Base, Control
<1>6. p \in Records /\ (p.enabled => p.running = S[k].running)
  <2>1. S[k] \in Records
    BY <1>1, <1>4
  <2> QED
    BY <1>1, <1>4, <1>5, <2>1, PatchedLemma
<1>7. Proper(T)
  BY <1>1, <1>3, UpdatedLemma
<1>8. DOMAIN T = DOMAIN S /\ T[k] = p /\ \A i \in DOMAIN S : i # k => T[i] = S[i]
  BY <1>1, <1>4
<1>9. Busy(j) => Firm(S, j)
  BY LoadedMarks
<1> HIDE DEF T, p, S
<1>10. mem' = [mem EXCEPT ![current] = T]
  BY <1>1, PersistSaves DEF Section, Saves
<1>11. mem'[current] = T
  BY <1>2, <1>10, SavedMem DEF Base
<1>12. T # NoStore
  BY <1>7, NoStoreLemma DEF Proper
<1>13. j \in DOMAIN T => T[j].enabled
  BY <1>2, <1>11, <1>12, CalmAfter
<1>14. Busy(j) => MarkedIn(T, j)
  BY <1>6, <1>8, <1>9, <1>13 DEF MarkedIn, Firm, Lasts
<1> QED
  BY <1>1, <1>14, SectionMarks

LEMMA RemoveMarks ==
  ASSUME Base, NEW k \in Jobs, Remove(k), NEW j \in Jobs, Calm(j), Busy(j)', ~Risky(j)'
  PROVE  Held(j)'
<1> DEFINE S == LoadedAndRecomputed(current)
           T == [i \in DOMAIN S \ {k} |-> S[i]]
<1>1. Section(T)
  BY DEF Remove
<1>2. ASSUME Busy(j) PROVE MarkedIn(T, j)
  <2>1. Firm(S, j)
    BY <1>2, LoadedMarks
  <2> QED
    BY <2>1 DEF Firm, MarkedIn, Lasts
<1> HIDE DEF T
<1> QED
  BY <1>1, <1>2, SectionMarks

LEMMA ReadMarks ==
  ASSUME Base, Read, NEW j \in Jobs, Calm(j), Busy(j)', ~Risky(j)'
  PROVE  Held(j)'
<1> DEFINE S == Loaded(current)
           T == Maintained(S, FALSE)
<1>1. UNCHANGED <<current, work, call>> /\ Saves(current, T)
  BY PersistSaves DEF Read
<1>2. /\ Busy(j) /\ (Called(j)' <=> Called(j))
      /\ \A t \in Services, g \in Flows : Planned(t, g, j)' => Planned(t, g, j)
  BY <1>1, SameRuns
<1>3. Proper(S) /\ Firm(S, j)
  BY <1>2, LoadedMarks
<1>4. MarkedIn(T, j)
  BY <1>3, TendedMarks
<1> QED
  BY <1>1, <1>2, <1>4, QuietStep

LEMMA EnqueueRunMarks ==
  ASSUME Base, NEW k \in Jobs, NEW forced \in BOOLEAN, EnqueueRun(k, forced),
         NEW j \in Jobs, Calm(j), Busy(j)', ~Risky(j)'
  PROVE  Held(j)'
<1> DEFINE S == Loaded(current)
           T == Maintained(S, FALSE)
<1>1. /\ UNCHANGED <<current, disk, work>> /\ mem' = [mem EXCEPT ![current] = T]
      /\ call' = NoCall \/ call'.state = "queued"
  BY DEF EnqueueRun
<1>2. Saves(current, T)
  BY <1>1 DEF Saves
<1>3. ~Called(j)' /\ \A t \in Services, g \in Flows : Planned(t, g, j)' => Planned(t, g, j)
  BY <1>1 DEF Called, Planned
<1>4. Busy(j) => MarkedIn(T, j)
  BY LoadedMarks, TendedMarks
<1> QED
  BY <1>1, <1>2, <1>3, <1>4, QuietStep

LEMMA PrepareMarks ==
  ASSUME Base, Prepare, NEW j \in Jobs, Calm(j), Busy(j)', ~Risky(j)'
  PROVE  Held(j)'
<1> DEFINE T == Maintained(Loaded(call.service), FALSE)
<1>1. /\ UNCHANGED <<current, disk, work>> /\ mem' = [mem EXCEPT ![call.service] = T]
      /\ call # NoCall /\ call.state = "queued"
      /\ call' = NoCall \/ call' = [call EXCEPT !.state = "ready", !.started = now]
  BY DEF Prepare
<1>2. call' = NoCall \/ call'.state = "ready"
  BY <1>1, CallerHasStore DEF Calls
<1>3. ~Called(j)' /\ \A t \in Services, g \in Flows : Planned(t, g, j)' => Planned(t, g, j)
  BY <1>1, <1>2 DEF Called, Planned
<1>4. ASSUME Busy(j) PROVE Saves(current, T) /\ MarkedIn(T, j)
  <2>1. call.service = current
    BY <1>1, <1>4, CalmIs
  <2> QED
    BY <1>1, <1>4, <2>1, LoadedMarks, TendedMarks DEF Saves
<1> HIDE DEF T
<1> QED
  BY <1>1, <1>3, <1>4, QuietStep

LEMMA ReserveMarks ==
  ASSUME Base, Reserve, NEW j \in Jobs, Calm(j), Busy(j)', ~Risky(j)'
  PROVE  Held(j)'
<1> DEFINE s == call.service
           k == call.job
           T == [mem[s] EXCEPT ![k].running = call.started]
           c == [call EXCEPT !.state = "running"]
<1>1. /\ UNCHANGED <<current, work>> /\ call # NoCall /\ call.state = "ready"
      /\ \/ /\ k \in DOMAIN mem[s] /\ mem[s][k].running = 0
            /\ \/ Persist(s, T) /\ call' = c
               \/ PersistFails(s, T) /\ call' = NoCall
         \/ call' = NoCall /\ UNCHANGED <<disk, mem>>
  BY DEF Reserve
<1>2. call \in Calls /\ s \in Services /\ Proper(mem[s]) /\ mem[s] # NoStore
  BY <1>1, CallerHasStore
<1>3. call.started \in 0..MaxTime /\ call.started # 0
  BY <1>1, <1>2, CallFields DEF Base, Known
<1>4. k \in DOMAIN mem[s] => MarkedIn(T, k) /\ (MarkedIn(mem[s], j) => MarkedIn(T, j))
  BY <1>2, <1>3, OneMarkedLemma DEF Proper
<1>5. c \in Calls /\ c.service = s /\ c.job = k /\ c # NoCall
  BY <1>2, CronAssumption DEF Calls, CronAssumption
<1>6. Persist(s, T) => disk' = T /\ mem' = [mem EXCEPT ![s] = T]
  BY DEF Persist
<1>7. Persist(s, T) \/ PersistFails(s, T) => Saves(s, T)
  BY PersistSaves
<1>8. \A t \in Services, g \in Flows : Planned(t, g, j)' <=> Planned(t, g, j)
  BY <1>1 DEF Planned
<1>9. ~Called(j)
  BY <1>1 DEF Called
<1> HIDE DEF T, c
<1>10. CASE Busy(j)
  <2>1. s = current /\ MarkedIn(mem[s], j)
    BY <1>1, <1>2, <1>10, CalmIs
  <2>2. Called(j)' => call' = c /\ k = j /\ mem[s][k].running = 0 /\ k \in DOMAIN mem[s]
    BY <1>1, <1>5 DEF Called
  <2>3. ~Called(j)'
    BY <2>1, <2>2 DEF MarkedIn
  <2>4. UNCHANGED <<mem, disk>> \/ (Saves(current, T) /\ MarkedIn(T, j))
    BY <1>1, <1>4, <1>7, <2>1
  <2> QED
    BY <1>1, <1>8, <2>3, <2>4, QuietStep
<1>11. CASE ~Busy(j)
  <2>1. Called(j)' /\ \A t \in Services, g \in Flows : ~Planned(t, g, j)'
    BY <1>8, <1>11, BusyIs
  <2>2. call' = c /\ k = j /\ k \in DOMAIN mem[s] /\ Persist(s, T)
    BY <1>1, <1>5, <2>1 DEF Called
  <2>3. s = current
    BY <1>1, <1>2, <1>5, <2>2, CalmAfter
  <2>4. Alone(j)'
    BY <2>1 DEF Alone
  <2> QED
    BY <1>1, <1>2, <1>4, <1>6, <2>2, <2>3, <2>4, StartingStep
<1> QED
  BY <1>10, <1>11

LEMMA FinishManualMarks ==
  ASSUME Base, FinishManual, NEW j \in Jobs, Calm(j), Busy(j)', ~Risky(j)'
  PROVE  Held(j)'
<1> DEFINE s == call.service
           T == Maintained(Merged, TRUE)
<1>1. /\ UNCHANGED <<current, work>> /\ call # NoCall /\ call.state = "done" /\ call' = NoCall
      /\ \/ UNCHANGED <<disk, mem>>
         \/ call.job \in DOMAIN mem[s] /\ (Persist(s, T) \/ PersistFails(s, T))
  BY DEF FinishManual, Merged, memory
<1>2. ~Called(j)' /\ \A t \in Services, g \in Flows : Planned(t, g, j)' <=> Planned(t, g, j)
  BY <1>1 DEF Called, Planned
<1>3. Busy(j) /\ ~Called(j)
  <2>1. PICK t \in Services, g \in Flows : Planned(t, g, j)
    BY <1>2, BusyIs
  <2>2. Busy(j)
    BY <2>1, BusyIs
  <2> QED
    BY <2>1, <2>2 DEF Calm, Held, Alone
<1>4. j # call.job /\ s = current /\ Firm(disk, j)
  BY <1>1, <1>3, CalmIs DEF Called
<1>5. ASSUME call.job \in DOMAIN mem[s] PROVE MarkedIn(T, j)
  <2>1. /\ Proper(Merged) /\ DOMAIN Merged \subseteq DOMAIN disk
        /\ \A k \in DOMAIN Merged : k # call.job => Merged[k] = disk[k]
    BY <1>1, <1>5, MergedLemma
  <2>2. Firm(Merged, j)
    BY <1>4, <2>1 DEF Firm
  <2> QED
    BY <2>1, <2>2, TendedMarks
<1> HIDE DEF T
<1>6. UNCHANGED <<mem, disk>> \/ (Saves(current, T) /\ MarkedIn(T, j))
  BY <1>1, <1>4, <1>5, PersistSaves
<1> QED
  BY <1>1, <1>2, <1>6, QuietStep

LEMMA CrashMarks ==
  ASSUME Base, Crash, NEW j \in Jobs
  PROVE  ~Busy(j)'
<1>1. Off' /\ current' = NoService
  BY CrashBase DEF Base, Crash
<1> QED
  BY <1>1, BusyIs DEF Off, Called, Planned

LEMMA HeldStep ==
  ASSUME Base, Step, NEW j \in Jobs, Calm(j), Busy(j)', ~Risky(j)'
  PROVE  Held(j)'
<1>1. "tick" \in Flows /\ "start" \in Flows
  BY DEF Flows
<1>2. ASSUME NEW s \in Services, StartStep(s) PROVE Held(j)'
  BY <1>1, <1>2, StartOfService, PlanMarks, ApplyCatchupMarks, FinishStartMarks, TakeMarks, IdleMarks
     DEF StartStep
<1>3. ASSUME NEW s \in Services, TickStep(s) PROVE Held(j)'
  BY <1>1, <1>3, IdleMarks, SelectDueMarks, ApplyTickMarks, TakeMarks DEF TickStep
<1>4. CASE ManualStep
  BY <1>4, PrepareMarks, ReserveMarks, FinishManualMarks, IdleMarks DEF ManualStep
<1>5. CASE Operation
  BY <1>5, ReadMarks, AddMarks, UpdateMarks, RemoveMarks, EnqueueRunMarks DEF Operation
<1> QED
  BY <1>2, <1>3, <1>4, <1>5, StartOfService, CrashMarks, IdleMarks DEF Step

LEMMA MarksStep ==
  ASSUME IInv, Next
  PROVE  Marks' /\ excused' \in SUBSET Jobs
<1>1. Base /\ Step /\ Marks /\ excused' = {j \in Jobs : (j \in excused /\ current' # NoService) \/ Risky(j)'}
  BY DEF IInv, Next
<1>2. Base'
  BY <1>1, BaseStep
<1>3. ASSUME NEW j \in Jobs
      PROVE  (Risky(j)' => j \in excused') /\ (Busy(j)' /\ j \notin excused' => Held(j)')
  <2>1. Risky(j)' => j \in excused'
    BY <1>1
  <2>2. ASSUME Busy(j)', j \notin excused'
        PROVE  Held(j)'
    <3>1. current' # NoService
      BY <1>2, <2>2, BusyIs DEF Base, Off, Called, Planned
    <3>2. j \notin excused /\ ~Risky(j)'
      BY <1>1, <2>1, <2>2, <3>1
    <3>3. Calm(j)
      BY <1>1, <3>2 DEF Marks, Calm
    <3> QED
      BY <1>1, <2>2, <3>2, <3>3, HeldStep
  <2> QED
    BY <2>1, <2>2
<1> QED
  BY <1>1, <1>3 DEF Marks

-----------------------------------------------------------------------------
(* The timer of the current service *)

\* The timer, the stage and the jobs to wait for stay as they are.
LEMMA QuietArmed ==
  ASSUME NEW s, ArmedAt(s), phase'[s] = "up" => phase[s] = "up",
         timer'[s] = timer[s], stage'[s] = stage[s],
         phase[s] = "up" /\ HasWake(mem'[s]) => HasWake(mem[s]),
         disk' = disk \/ disk' = mem'[s]
  PROVE  ArmedAt(s)'
BY DEF ArmedAt, HasWake

\* The timer is set for the store that is saved.
LEMMA SetArmed ==
  ASSUME NEW s, timer'[s] <=> HasWake(mem'[s]), stage'[s] = "select" => disk' = mem'[s]
  PROVE  ArmedAt(s)'
BY DEF ArmedAt, HasWake

LEMMA MissesNot ==
  ASSUME NEW s, ~Misses(s)
  PROVE  (troubles' = troubles \/ mem'[s] = mem[s]) /\ (disk' = disk \/ disk' = mem'[s])
BY DEF Misses

\* A step of another service, or one that concerns neither stores nor timers.
LEMMA ForeignArmed ==
  ASSUME NEW s, ArmedAt(s), ~Misses(s), phase'[s] = phase[s], timer'[s] = timer[s],
         stage'[s] = stage[s], mem'[s] = mem[s]
  PROVE  ArmedAt(s)'
BY MissesNot, QuietArmed

LEMMA SavedByOther ==
  ASSUME Base, NEW s \in Services, NEW t \in Services, t # s, NEW S,
         Persist(t, S) \/ PersistFails(t, S)
  PROVE  mem'[s] = mem[s]
BY SavedMem DEF Persist, PersistFails, Base

LEMMA SavedHere ==
  ASSUME Base, NEW s \in Services, NEW S
  PROVE  /\ Persist(s, S) => mem'[s] = S /\ disk' = S
         /\ PersistFails(s, S) => mem'[s] = S /\ disk' = disk /\ troubles' # troubles
<1>1. mem' = [mem EXCEPT ![s] = S] => mem'[s] = S
  BY SavedMem DEF Base
<1>2. troubles' = troubles + 1 => troubles' # troubles
  BY Bounds DEF Base, Control
<1> QED
  BY <1>1, <1>2 DEF Persist, PersistFails, Trouble

\* Maintenance finds no new work.
LEMMA TendedWakes ==
  ASSUME Base, NEW S, Proper(S)
  PROVE  /\ \A b : HasWake(Maintained(S, b)) => HasWake(S)
         /\ HasWake(RecomputeNextRuns(S)) => HasWake(S)
<1>1. kind \in Mixes /\ now \in Nat /\ IsStore(S) /\ SoundStore(S)
  BY Bounds DEF Base, Control, Proper
<1>2. ASSUME NEW T, TendedStore(S, T), HasWake(T) PROVE HasWake(S)
  BY <1>1, <1>2, TendedStoreLemma
<1>3. ASSUME NEW b PROVE HasWake(Maintained(S, b)) => HasWake(S)
  BY <1>2, MaintainedIsTended
<1>4. HasWake(RecomputeNextRuns(S)) => HasWake(S)
  BY <1>2, RecomputedIsTended
<1> QED
  BY <1>3, <1>4

\* What is asked of an action.
LEMMA ClearArmed ==
  ASSUME Base, NEW s \in Services, NEW t \in Services,
         Clear(t) \/ Plan(t) \/ ApplyCatchup(t), ArmedAt(s), ~Misses(s)
  PROVE  ArmedAt(s)'
<1>1. /\ UNCHANGED <<timer, stage>>
      /\ phase[t] # "up"
      /\ \E p \in {"plan", "catchup", "last", "failed"} : phase' = [phase EXCEPT ![t] = p]
  BY DEF Clear, Plan, ApplyCatchup, Enter, ticking
<1>2. UNCHANGED mem \/ \E S : Persist(t, S) \/ PersistFails(t, S)
  BY DEF Clear, Plan, ApplyCatchup
<1>3. CASE t = s
  <2>1. phase'[s] # "up"
    BY <1>1, <1>3 DEF Base, Control
  <2> QED
    BY <2>1 DEF ArmedAt
<1>4. CASE t # s
  <2>1. phase'[s] = phase[s]
    BY <1>1, <1>4 DEF Base, Control
  <2>2. mem'[s] = mem[s]
    BY <1>2, <1>4, SavedByOther
  <2> QED
    BY <1>1, <2>1, <2>2, ForeignArmed
<1> QED
  BY <1>3, <1>4

LEMMA FinishStartArms ==
  ASSUME Base, NEW s \in Services, FinishStart(s)
  PROVE  ArmedAt(s)'
<1> DEFINE T == RecomputeNextRuns(disk)
<1>1. \/ Persist(s, T) /\ ArmTimer(s, T)
      \/ phase' = [phase EXCEPT ![s] = "failed"]
  BY DEF FinishStart, Enter
<1> HIDE DEF T
<1>2. CASE Persist(s, T) /\ ArmTimer(s, T)
  <2>1. mem'[s] = T /\ disk' = T
    BY <1>2, SavedHere
  <2>2. timer'[s] <=> HasWake(T)
    BY <1>2, TimerArmed DEF Base
  <2>3. timer'[s] <=> HasWake(mem'[s])
    BY <2>1, <2>2
  <2> QED
    BY <2>1, <2>3, SetArmed
<1>3. CASE phase' = [phase EXCEPT ![s] = "failed"]
  <2>1. phase'[s] = "failed"
    BY <1>3 DEF Base, Control
  <2> QED
    BY <2>1 DEF ArmedAt
<1> QED
  BY <1>1, <1>2, <1>3

LEMMA FinishStartArmed ==
  ASSUME Base, NEW s \in Services, NEW t \in Services, FinishStart(t), ArmedAt(s), ~Misses(s)
  PROVE  ArmedAt(s)'
<1>1. CASE t # s
  <2> DEFINE T == RecomputeNextRuns(disk)
  <2>1. /\ stage' = stage
        /\ Persist(t, T) \/ PersistFails(t, T)
        /\ ArmTimer(t, T) \/ UNCHANGED timer
        /\ \E p \in {"up", "failed"} : phase' = [phase EXCEPT ![t] = p]
    BY DEF FinishStart, Enter
  <2> HIDE DEF T
  <2>2. phase'[s] = phase[s] /\ mem'[s] = mem[s]
    BY <1>1, <2>1, SavedByOther DEF Base, Control
  <2>3. timer'[s] = timer[s]
    BY <1>1, <2>1, TimerArmed DEF Base
  <2> QED
    BY <2>1, <2>2, <2>3, ForeignArmed
<1> QED
  BY <1>1, FinishStartArms

LEMMA EndTickArms ==
  ASSUME Base, NEW s \in Services, EndTick(s)
  PROVE  ArmedAt(s)'
<1>1. /\ UNCHANGED <<disk, mem>> /\ stage' = [stage EXCEPT ![s] = "idle"]
      /\ ArmTimer(s, mem[s])
  BY DEF EndTick, Reach, memory
<1>2. stage'[s] = "idle"
  BY <1>1 DEF Base, Control
<1>3. timer'[s] <=> HasWake(mem[s])
  BY <1>1, TimerArmed DEF Base
<1> QED
  BY <1>1, <1>2, <1>3, SetArmed

LEMMA TickArmed ==
  ASSUME Base, NEW s \in Services, NEW t \in Services,
         OnTimer(t) \/ SelectDue(t) \/ ApplyTick(t) \/ EndTick(t), ArmedAt(s), ~Misses(s)
  PROVE  ArmedAt(s)'
<1>1. CASE t # s
  <2>1. phase' = phase
    BY DEF OnTimer, SelectDue, ApplyTick, EndTick, starting
  <2>2. UNCHANGED mem \/ \E S : Persist(t, S) \/ PersistFails(t, S)
    BY DEF OnTimer, SelectDue, ApplyTick, EndTick, memory
  <2>3. mem'[s] = mem[s]
    BY <1>1, <2>2, SavedByOther
  <2>4. timer' = timer \/ \E S : ArmTimer(t, S)
    BY DEF OnTimer, SelectDue, ApplyTick, EndTick
  <2>5. timer'[s] = timer[s]
    BY <1>1, <2>4, TimerArmed DEF Base
  <2>6. \E g : stage' = [stage EXCEPT ![t] = g]
    <3>1. SelectDue(t) => \E g : stage' = [stage EXCEPT ![t] = g]
      BY DEF SelectDue, Reach
    <3>2. OnTimer(t) \/ ApplyTick(t) \/ EndTick(t) => \E g : stage' = [stage EXCEPT ![t] = g]
      BY DEF OnTimer, ApplyTick, EndTick, Reach
    <3> QED
      BY <3>1, <3>2
  <2>7. stage'[s] = stage[s]
    BY <1>1, <2>6 DEF Base, Control
  <2> QED
    BY <2>1, <2>3, <2>5, <2>7, ForeignArmed
<1>2. CASE OnTimer(s)
  <2>1. timer'[s] /\ phase' = phase
    BY <1>2 DEF OnTimer, starting
  <2> QED
    BY <2>1 DEF ArmedAt
<1>3. CASE SelectDue(s)
  <2> DEFINE due == {j \in DOMAIN disk : IsDue(disk[j])}
  <2>1. /\ UNCHANGED <<timer, phase>> /\ stage[s] = "select"
        /\ \/ stage' = [stage EXCEPT ![s] = IF due = {} THEN "end" ELSE "work"]
           \/ stage' = [stage EXCEPT ![s] = "end"]
    BY <1>3 DEF SelectDue, Reach, starting
  <2>2. ~HasWake(disk) => due = {}
    BY DEF HasWake, IsDue
  <2> HIDE DEF due
  <2>3. ~HasWake(disk) => stage'[s] = "end"
    BY <2>1, <2>2 DEF Base, Control
  <2> QED
    BY <2>1, <2>3 DEF ArmedAt
<1>4. CASE ApplyTick(s)
  <2>1. stage' = [stage EXCEPT ![s] = "end"]
    BY <1>4 DEF ApplyTick, Reach
  <2>2. stage'[s] = "end"
    BY <2>1 DEF Base, Control
  <2> QED
    BY <2>2 DEF ArmedAt
<1> QED
  BY <1>1, <1>2, <1>3, <1>4, EndTickArms

LEMMA TakeArmed ==
  ASSUME Base, NEW s \in Services, NEW t \in Services, NEW f \in Flows, NEW j \in Jobs, Take(t, f, j),
         ArmedAt(s), ~Misses(s)
  PROVE  ArmedAt(s)'
<1>1. UNCHANGED <<disk, phase, timer, stage>>
  BY DEF Take, starting, ticking
<1>2. HasWake(mem'[s]) => HasWake(mem[s])
  <2>1. CASE UNCHANGED mem
    BY <2>1
  <2>2. CASE LET T == [mem[t] EXCEPT ![j].running = now] IN
             /\ mem[t] # NoStore /\ Proper(mem[t]) /\ j \in DOMAIN mem[t]
             /\ mem' = [mem EXCEPT ![t] = T] /\ Proper(T)
    <3> DEFINE T == [mem[t] EXCEPT ![j].running = now]
    <3>1. now \in 0..MaxTime
      BY DEF Base, Control
    <3>2. HasWake(T) <=> HasWake(mem[t])
      BY <2>2, <3>1, OneMarkedLemma DEF Proper
    <3>3. mem' = [mem EXCEPT ![t] = T]
      BY <2>2
    <3> HIDE DEF T
    <3>4. mem'[t] = T /\ (s # t => mem'[s] = mem[s])
      BY <3>3, SavedMem DEF Base
    <3> QED
      BY <3>2, <3>4
  <2> QED
    BY <2>1, <2>2, TakeMem
<1> QED
  BY <1>1, <1>2, QuietArmed

LEMMA IdleArmed ==
  ASSUME Base, NEW s \in Services, ArmedAt(s), ~Misses(s),
         \/ Clock
         \/ \E t \in Services, f \in Flows, k \in Jobs, o \in Outcomes : Settle(t, f, k, o)
         \/ \E o \in Outcomes : SettleManual(o)
  PROVE  ArmedAt(s)'
<1>1. UNCHANGED <<disk, mem, phase, timer, stage>>
  BY DEF Clock, Settle, SettleManual, service, memory, starting, ticking
<1> QED
  BY <1>1, ForeignArmed

\* A section that sets the timer for what it saves, or fails.
LEMMA SavesArmed ==
  ASSUME Base, NEW s \in Services, NEW t \in Services, NEW S, ArmedAt(s), ~Misses(s),
         UNCHANGED <<phase, stage>>,
         (Persist(t, S) /\ ArmTimer(t, S)) \/ (PersistFails(t, S) /\ UNCHANGED timer)
  PROVE  ArmedAt(s)'
<1>1. CASE t # s
  <2>1. mem'[s] = mem[s] /\ timer'[s] = timer[s]
    BY <1>1, SavedByOther, TimerArmed DEF Base
  <2> QED
    BY <2>1, ForeignArmed
<1>2. CASE t = s /\ Persist(s, S) /\ ArmTimer(s, S)
  <2>1. mem'[s] = S /\ disk' = S
    BY <1>2, SavedHere
  <2>2. timer'[s] <=> HasWake(S)
    BY <1>2, TimerArmed DEF Base
  <2>3. timer'[s] <=> HasWake(mem'[s])
    BY <2>1, <2>2
  <2> QED
    BY <2>1, <2>3, SetArmed
<1>3. CASE t = s /\ PersistFails(s, S) /\ UNCHANGED timer
  <2>1. troubles' # troubles
    BY <1>3, SavedHere
  <2>2. mem'[s] = mem[s]
    BY <2>1, MissesNot
  <2> QED
    BY <1>3, <2>2, ForeignArmed
<1> QED
  BY <1>1, <1>2, <1>3

\* A section of t that saves S, in which nothing new wakes, and leaves the timer.
LEMMA KeepsArmed ==
  ASSUME Base, NEW s \in Services, NEW t \in Services, NEW S, ArmedAt(s), ~Misses(s),
         UNCHANGED <<phase, stage, timer>>, mem' = [mem EXCEPT ![t] = S],
         mem[t] # NoStore => (HasWake(S) => HasWake(mem[t]))
  PROVE  ArmedAt(s)'
<1>1. mem'[t] = S /\ (s # t => mem'[s] = mem[s])
  BY SavedMem DEF Base
<1>2. phase[s] = "up" => mem[s] # NoStore
  BY DEF Base, Present
<1>3. phase[s] = "up" /\ HasWake(mem'[s]) => HasWake(mem[s])
  BY <1>1, <1>2
<1> QED
  BY <1>3, MissesNot, QuietArmed

LEMMA LoadedWakes ==
  ASSUME Base, NEW t \in Services, mem[t] # NoStore
  PROVE  HasWake(Maintained(Loaded(t), FALSE)) => HasWake(mem[t])
<1>1. Proper(mem[t]) /\ Loaded(t) = mem[t]
  BY ProperLoaded
<1> QED
  BY <1>1, TendedWakes

LEMMA OperationArmed ==
  ASSUME Base, current \in Services, Operation, NEW s \in Services, ArmedAt(s), ~Misses(s)
  PROVE  ArmedAt(s)'
<1>1. ASSUME NEW S, Section(S) PROVE ArmedAt(s)'
  <2>1. /\ UNCHANGED <<phase, stage>>
        /\ (Persist(current, S) /\ ArmTimer(current, S)) \/ (PersistFails(current, S) /\ UNCHANGED timer)
    BY <1>1 DEF Section, starting
  <2> QED
    BY <2>1, SavesArmed
<1>2. mem[current] # NoStore =>
        (HasWake(Maintained(Loaded(current), FALSE)) => HasWake(mem[current]))
  BY LoadedWakes
<1>3. CASE Read
  <2>1. /\ UNCHANGED <<phase, stage, timer>>
        /\ mem' = [mem EXCEPT ![current] = Maintained(Loaded(current), FALSE)]
    BY <1>3 DEF Read, starting, ticking, Persist, PersistFails
  <2> QED
    BY <1>2, <2>1, KeepsArmed
<1>4. ASSUME NEW j \in Jobs, NEW at \in AtTimes \union {0}, Add(j, at) PROVE ArmedAt(s)'
  BY <1>1, <1>4 DEF Add
<1>5. ASSUME NEW j \in Jobs, NEW at \in AtTimes \union {0},
             NEW patch \in {"enable", "disable", "schedule", "other"}, Update(j, patch, at)
      PROVE  ArmedAt(s)'
  BY <1>1, <1>5 DEF Update
<1>6. ASSUME NEW j \in Jobs, Remove(j) PROVE ArmedAt(s)'
  BY <1>1, <1>6 DEF Remove
<1>7. ASSUME NEW j \in Jobs, NEW forced \in BOOLEAN, EnqueueRun(j, forced) PROVE ArmedAt(s)'
  <2>1. /\ UNCHANGED <<phase, stage, timer>>
        /\ mem' = [mem EXCEPT ![current] = Maintained(Loaded(current), FALSE)]
    BY <1>7 DEF EnqueueRun, starting, ticking
  <2> QED
    BY <1>2, <2>1, KeepsArmed
<1> QED
  BY <1>3, <1>4, <1>5, <1>6, <1>7 DEF Operation

LEMMA ManualArmed ==
  ASSUME Base, Prepare \/ Reserve \/ FinishManual, NEW s \in Services, ArmedAt(s), ~Misses(s)
  PROVE  ArmedAt(s)'
<1> DEFINE t == call.service
<1>1. call # NoCall
  BY DEF Prepare, Reserve, FinishManual
<1>2. t \in Services /\ mem[t] # NoStore /\ Proper(mem[t])
  BY <1>1, CallerHasStore
<1>3. CASE Prepare
  <2>1. /\ UNCHANGED <<phase, stage, timer>>
        /\ mem' = [mem EXCEPT ![t] = Maintained(Loaded(t), FALSE)]
    BY <1>3 DEF Prepare, starting, ticking
  <2> QED
    BY <1>2, <2>1, LoadedWakes, KeepsArmed
<1>4. CASE Reserve
  <2> DEFINE T == [mem[t] EXCEPT ![call.job].running = call.started]
  <2>1. /\ UNCHANGED <<phase, stage, timer>>
        /\ \/ UNCHANGED mem
           \/ call.job \in DOMAIN mem[t] /\ mem' = [mem EXCEPT ![t] = T]
    BY <1>4 DEF Reserve, starting, ticking, Persist, PersistFails
  <2>2. call.started \in 0..MaxTime
    BY <1>1, CallerHasStore, CallFields
  <2>3. call.job \in DOMAIN mem[t] => (HasWake(T) => HasWake(mem[t]))
    BY <1>2, <2>2, OneMarkedLemma DEF Proper
  <2> HIDE DEF T
  <2>4. CASE UNCHANGED mem
    BY <2>1, <2>4, ForeignArmed
  <2>5. CASE call.job \in DOMAIN mem[t] /\ mem' = [mem EXCEPT ![t] = T]
    BY <1>2, <2>1, <2>3, <2>5, KeepsArmed
  <2> QED
    BY <2>1, <2>4, <2>5
<1>5. CASE FinishManual
  <2> DEFINE T == Maintained(Merged, TRUE)
  <2>1. /\ UNCHANGED <<phase, stage>>
        /\ \/ UNCHANGED <<mem, timer>>
           \/ (Persist(t, T) /\ ArmTimer(t, T)) \/ (PersistFails(t, T) /\ UNCHANGED timer)
    BY <1>5 DEF FinishManual, Merged, starting, memory
  <2> HIDE DEF T
  <2>2. CASE UNCHANGED <<mem, timer>>
    BY <2>1, <2>2, ForeignArmed
  <2>3. CASE (Persist(t, T) /\ ArmTimer(t, T)) \/ (PersistFails(t, T) /\ UNCHANGED timer)
    BY <1>2, <2>1, <2>3, SavesArmed
  <2> QED
    BY <2>1, <2>2, <2>3
<1> QED
  BY <1>3, <1>4, <1>5

\* Only the end of a tick and the end of start() set the timer whatever was
\* missed before.
LEMMA RearmsIs ==
  ASSUME Base, Step, NEW s \in Services, Rearms(s), current' # NoService
  PROVE  EndTick(s) \/ FinishStart(s)
<1>1. (stage[s] = "end" /\ stage'[s] = "idle") \/ (phase[s] = "last" /\ phase'[s] = "up")
  BY DEF Rearms
<1>2. ASSUME NEW t \in Services, NEW g, stage' = [stage EXCEPT ![t] = g], UNCHANGED phase,
             g # "idle"
      PROVE  FALSE
  BY <1>1, <1>2 DEF Base, Control
<1>3. ASSUME NEW t \in Services, NEW p, phase' = [phase EXCEPT ![t] = p], UNCHANGED stage,
             p # "up"
      PROVE  FALSE
  BY <1>1, <1>3 DEF Base, Control
<1>4. ~UNCHANGED <<phase, stage>>
  BY <1>1
<1>5. ASSUME NEW t \in Services, Boot(t) \/ Reload(t) PROVE FALSE
  <2>1. UNCHANGED stage /\ phase' = [phase EXCEPT ![t] = "clear"]
    BY <1>5 DEF Boot, Reload, Enter, ticking
  <2> QED
    BY <1>3, <2>1
<1>6. ASSUME NEW t \in Services, Clear(t) \/ Plan(t) \/ ApplyCatchup(t) PROVE FALSE
  <2>1. UNCHANGED stage /\ \E p \in {"plan", "catchup", "last", "failed"} : phase' = [phase EXCEPT ![t] = p]
    BY <1>6 DEF Clear, Plan, ApplyCatchup, Enter, ticking
  <2> QED
    BY <1>3, <2>1
<1>7. ASSUME NEW t \in Services, FinishStart(t) PROVE t = s
  <2>1. UNCHANGED stage /\ \E p : phase' = [phase EXCEPT ![t] = p]
    BY <1>7 DEF FinishStart, Enter
  <2> QED
    BY <1>1, <2>1 DEF Base, Control
<1>8. ASSUME NEW t \in Services, OnTimer(t) \/ SelectDue(t) \/ ApplyTick(t) PROVE FALSE
  <2>1. UNCHANGED phase
    BY <1>8 DEF OnTimer, SelectDue, ApplyTick, starting
  <2>2. CASE OnTimer(t)
    <3>1. stage' = [stage EXCEPT ![t] = IF stage[t] = "idle" THEN "select" ELSE stage[t]]
      BY <2>2 DEF OnTimer, Reach
    <3> DEFINE g == IF stage[t] = "idle" THEN "select" ELSE stage[t]
    <3>2. stage' = [stage EXCEPT ![t] = g] /\ g # "idle"
      BY <3>1
    <3> HIDE DEF g
    <3> QED
      BY <1>2, <2>1, <3>2
  <2>3. CASE SelectDue(t)
    <3>1. \E g \in {"work", "end"} : stage' = [stage EXCEPT ![t] = g]
      BY <2>3 DEF SelectDue, Reach
    <3> QED
      BY <1>2, <2>1, <3>1
  <2>4. CASE ApplyTick(t)
    BY <1>2, <2>1, <2>4 DEF ApplyTick, Reach
  <2> QED
    BY <1>8, <2>2, <2>3, <2>4
<1>9. ASSUME NEW t \in Services, EndTick(t) PROVE t = s
  <2>1. UNCHANGED phase /\ stage' = [stage EXCEPT ![t] = "idle"]
    BY <1>9 DEF EndTick, Reach, starting
  <2> QED
    BY <1>1, <2>1 DEF Base, Control
<1>10. ASSUME NEW t \in Services, NEW f \in Flows, NEW j \in Jobs,
              Take(t, f, j) \/ \E o \in Outcomes : Settle(t, f, j, o)
       PROVE  FALSE
  BY <1>4, <1>10 DEF Take, Settle, starting, ticking
<1>11. "tick" \in Flows /\ "start" \in Flows
  BY DEF Flows
<1>12. ASSUME NEW t \in Services, StartStep(t) PROVE FinishStart(s)
  BY <1>6, <1>7, <1>10, <1>11, <1>12 DEF StartStep
<1>13. ASSUME NEW t \in Services, TickStep(t) PROVE EndTick(s)
  BY <1>8, <1>9, <1>10, <1>11, <1>13 DEF TickStep
<1>14. CASE ManualStep
  <2>1. Prepare \/ Reserve => UNCHANGED <<phase, stage>>
    BY DEF Prepare, Reserve, starting, ticking
  <2>2. FinishManual => UNCHANGED <<phase, stage>>
    BY DEF FinishManual, starting
  <2>3. (\E o \in Outcomes : SettleManual(o)) => UNCHANGED <<phase, stage>>
    BY DEF SettleManual, service, starting, ticking
  <2> QED
    BY <1>4, <1>14, <2>1, <2>2, <2>3 DEF ManualStep
<1>15. CASE Operation
  <2>1. \A S : Section(S) => UNCHANGED <<phase, stage>>
    BY DEF Section, starting
  <2>2. ASSUME NEW j \in Jobs, NEW at, NEW patch, Add(j, at) \/ Update(j, patch, at) \/ Remove(j)
        PROVE  FALSE
    BY <1>4, <2>1, <2>2 DEF Add, Update, Remove
  <2>3. ASSUME NEW j \in Jobs, NEW forced, EnqueueRun(j, forced) PROVE FALSE
    BY <1>4, <2>3 DEF EnqueueRun, starting, ticking
  <2>4. ~Read
    BY <1>4 DEF Read, starting, ticking
  <2> QED
    BY <1>15, <2>2, <2>3, <2>4 DEF Operation
<1>16. ~Crash
  BY DEF Crash
<1>17. ~Clock
  BY <1>4 DEF Clock, service, starting, ticking
<1> QED
  BY <1>5, <1>12, <1>13, <1>14, <1>15, <1>16, <1>17 DEF Step

LEMMA ArmedStep ==
  ASSUME IInv, Next
  PROVE  Armed' /\ behind' \in SUBSET Services
<1>1. Base /\ Step /\ Armed
      /\ behind' = {s \in {current'} \ {NoService} : (s \in behind /\ ~Rearms(s)) \/ Misses(s)}
  BY DEF IInv, Next
<1>2. Base'
  BY <1>1, BaseStep
<1>3. current' \in Services \union {NoService}
  BY <1>2 DEF Base, Control
<1>4. ASSUME NEW s \in {current'} \ ({NoService} \union behind')
      PROVE  ArmedAt(s)'
  <2>1. s = current' /\ s \in Services /\ current' # NoService
    BY <1>3
  <2>2. ~Misses(s) /\ (s \notin behind \/ Rearms(s))
    BY <1>1, <2>1
  <2>3. CASE Rearms(s)
    BY <1>1, <2>1, <2>3, RearmsIs, EndTickArms, FinishStartArms
  <2>4. ASSUME NEW t \in Services, Boot(t) \/ Reload(t) PROVE ArmedAt(s)'
    <3>1. current' = t /\ phase' = [phase EXCEPT ![t] = "clear"]
      BY <2>4 DEF Boot, Reload, Enter
    <3>2. phase'[s] = "clear"
      BY <1>1, <2>1, <3>1 DEF Base, Control
    <3> QED
      BY <3>2 DEF ArmedAt
  <2>5. CASE s \notin behind /\ current' = current
    <3>1. ArmedAt(s) /\ current \in Services
      BY <1>1, <2>1, <2>5 DEF Armed
    <3>2. "tick" \in Flows /\ "start" \in Flows
      BY DEF Flows
    <3>3. ASSUME NEW t \in Services, StartStep(t) PROVE ArmedAt(s)'
      BY <1>1, <2>1, <2>2, <3>1, <3>2, <3>3, ClearArmed, FinishStartArmed, TakeArmed, IdleArmed DEF StartStep
    <3>4. ASSUME NEW t \in Services, TickStep(t) PROVE ArmedAt(s)'
      BY <1>1, <2>1, <2>2, <3>1, <3>2, <3>4, TickArmed, TakeArmed, IdleArmed DEF TickStep
    <3>5. CASE ManualStep
      BY <1>1, <2>1, <2>2, <3>1, <3>5, ManualArmed, IdleArmed DEF ManualStep
    <3>6. CASE Operation
      BY <1>1, <2>1, <2>2, <3>1, <3>6, OperationArmed
    <3>7. ~Crash
      BY <2>1 DEF Crash
    <3> QED
      BY <1>1, <2>1, <2>2, <2>4, <3>1, <3>3, <3>4, <3>5, <3>6, <3>7, IdleArmed DEF Step
  <2>6. CASE current' # current
    <3>1. ASSUME NEW t \in Services, StartStep(t) \/ TickStep(t) PROVE current' = current
      BY <3>1 DEF StartStep, TickStep, Clear, Plan, ApplyCatchup, FinishStart, Take, Settle, OnTimer,
                  SelectDue, ApplyTick, EndTick
    <3>2. ManualStep => current' = current
      BY DEF ManualStep, Prepare, Reserve, FinishManual, SettleManual
    <3>3. Operation => current' = current
      BY DEF Operation, Read, Add, Update, Remove, EnqueueRun, Section
    <3>4. ~Crash /\ (Clock => current' = current)
      BY <2>1 DEF Crash, Clock
    <3> QED
      BY <1>1, <2>4, <2>6, <3>1, <3>2, <3>3, <3>4 DEF Step
  <2> QED
    BY <2>2, <2>3, <2>5, <2>6
<1>5. behind' \in SUBSET Services
  BY <1>1, <1>3
<1> QED
  BY <1>4, <1>5 DEF Armed

-----------------------------------------------------------------------------
(* The invariant holds *)

LEMMA InitLemma == Init => IInv
<1> SUFFICES ASSUME Init PROVE IInv
  OBVIOUS
<1>1. Base
  BY BaseInit
<1>2. current = NoService /\ excused = {} /\ behind = {}
  BY DEF Init
<1>3. \A j \in Jobs : ~Busy(j)
  BY <1>1, <1>2, BusyIs DEF Base, Off, Called, Planned
<1>4. Marks
  BY <1>3 DEF Marks, Risky
<1>5. Armed
  BY <1>2 DEF Armed
<1> QED
  BY <1>1, <1>2, <1>4, <1>5 DEF IInv

LEMMA StutterLemma ==
  ASSUME IInv, UNCHANGED vars
  PROVE  IInv'
<1>1. UNCHANGED <<now, kind, disk, used, current, mem, attached, phase, skip, later, timer, stage,
                  work, call, requests, troubles, excused, behind>>
  BY DEF vars, service, memory, starting, ticking, bounds
<1>2. Base'
  <2>1. ProperStores'
    BY <1>1, SameStores DEF IInv, Base
  <2>2. Control' /\ Present' /\ Off'
    BY <1>1 DEF IInv, Base, Control, Present, Off
  <2>3. Known'
    BY <1>1 DEF IInv, Base, Known, Planned
  <2> QED
    BY <2>1, <2>2, <2>3 DEF Base
<1>3. ASSUME NEW j \in Jobs
      PROVE  (Busy(j)' <=> Busy(j)) /\ (Risky(j)' => Risky(j)) /\ (Held(j) => Held(j)')
  <2>1. Busy(j)' <=> Busy(j)
    BY <1>1 DEF Busy
  <2>2. Copies' = Copies
    BY <1>1 DEF Copies
  <2>3. Risky(j)' => Risky(j)
    BY <1>1, <2>1, <2>2 DEF Risky, AtWork
  <2>4. Held(j) => Held(j)'
    BY <1>1 DEF Held, Alone, Planned, Called, MarkedIn
  <2> QED
    BY <2>1, <2>3, <2>4
<1>4. Marks'
  BY <1>1, <1>3 DEF IInv, Marks
<1>5. Armed'
  BY <1>1 DEF IInv, Armed, ArmedAt, HasWake
<1> QED
  BY <1>1, <1>2, <1>4, <1>5 DEF IInv

LEMMA InductionLemma == IInv /\ [Next]_vars => IInv'
<1> SUFFICES ASSUME IInv, [Next]_vars PROVE IInv'
  OBVIOUS
<1>1. CASE Next
  <2>1. Base'
    BY <1>1, BaseStep DEF IInv, Next
  <2> QED
    BY <1>1, <2>1, MarksStep, ArmedStep DEF IInv
<1> QED
  BY <1>1, StutterLemma

\* Stores stay sound, services that wait have loaded one, a job that is busy is so
\* in one place and marked wherever the current service looks for the marker, and
\* a timer that is not set has nothing to wait for.
THEOREM Invariance == Spec => []IInv
<1>1. Init => IInv
  BY InitLemma
<1>2. IInv /\ [Next]_vars => IInv'
  BY InductionLemma
<1> QED
  BY <1>1, <1>2, PTL DEF Spec

-----------------------------------------------------------------------------
(* One run at a time *)

LEMMA TypeLemma ==
  ASSUME IInv
  PROVE  TypeOK
BY DEF IInv, Base, Control, ProperStores, Proper, TypeOK

LEMMA AtMostOne ==
  ASSUME NEW S, \A p, q \in S : p = q
  PROVE  Cardinality(S) <= 1
<1>1. CASE S = {}
  BY <1>1, FS_EmptySet
<1>2. CASE S # {}
  <2>1. PICK p \in S : TRUE
    BY <1>2
  <2>2. S \in SUBSET {p}
    BY <2>1
  <2>3. IsFiniteSet({p}) /\ Cardinality({p}) = 1
    BY FS_Singleton
  <2>4. Cardinality(S) <= Cardinality({p})
    BY <2>2, <2>3, FS_Subset
  <2> QED
    BY <2>3, <2>4
<1> QED
  BY <1>1, <1>2

LEMMA OneRunLemma ==
  ASSUME IInv
  PROVE  OneRunAtATime
<1>1. ASSUME NEW j \in Jobs \ excused
      PROVE  Cardinality(InProgress(j)) <= 1 /\ (ManualInProgress(j) => InProgress(j) = {})
  <2>1. \A p \in InProgress(j) : p[1] \in Services /\ p[2] \in Flows /\ p = <<p[1], p[2]>> /\ Planned(p[1], p[2], j)
    BY DEF InProgress, Planned
  <2>2. Busy(j) => Alone(j)
    BY DEF IInv, Marks, Held
  <2>3. InProgress(j) # {} => Busy(j)
    BY <2>1, BusyIs
  <2>4. ASSUME NEW p \in InProgress(j), NEW q \in InProgress(j) PROVE p = q
    <3>1. Alone(j)
      BY <2>2, <2>3
    <3>2. p[1] = q[1] /\ p[2] = q[2]
      BY <2>1, <3>1 DEF Alone
    <3> QED
      BY <2>1, <3>2
  <2>5. Cardinality(InProgress(j)) <= 1
    BY <2>4, AtMostOne
  <2>6. ASSUME ManualInProgress(j) PROVE InProgress(j) = {}
    <3>1. Called(j)
      BY <2>6 DEF ManualInProgress, Called
    <3>2. Alone(j)
      BY <2>2, <3>1, BusyIs
    <3> QED
      BY <2>1, <3>1, <3>2 DEF Alone
  <2> QED
    BY <2>5, <2>6
<1> QED
  BY <1>1, TypeLemma DEF OneRunAtATime

\* Whatever ticks, catch-ups, manual runs, edits, crashes and reloads do between
\* two sections, no job runs twice at a time, unless its marker was lifted.
THEOREM OneRun == Spec => []OneRunAtATime
<1>1. IInv => OneRunAtATime
  BY OneRunLemma
<1> QED
  BY <1>1, Invariance, PTL

-----------------------------------------------------------------------------
(* The scheduler goes on *)

LEMMA GoesOnLemma ==
  ASSUME IInv
  PROVE  SchedulerGoesOn
<1> SUFFICES ASSUME NEW s \in {current} \ ({NoService} \union behind),
                    phase[s] = "up", stage[s] # "end", HasWake(mem[s])
             PROVE  timer[s]
  BY DEF SchedulerGoesOn
<1> QED
  BY DEF IInv, Armed, ArmedAt

\* The timer of the current service is set while a job of its store has a next
\* run, but when a write of its own failed, or another service wrote the file,
\* since the timer was set last.
THEOREM SchedulerRuns == Spec => []SchedulerGoesOn
<1>1. IInv => SchedulerGoesOn
  BY GoesOnLemma
<1> QED
  BY <1>1, Invariance, PTL

-----------------------------------------------------------------------------
(* Slots that are due *)

\* Maintenance does not move the slot of a job before the job has run.
LEMMA MaintainedSlots ==
  ASSUME Base, NEW S, Proper(S), NEW j \in DOMAIN S, Wakes(S[j])
  PROVE  /\ Maintained(S, FALSE)[j].next = S[j].next
         /\ \/ Maintained(S, TRUE)[j].next = S[j].next
            \/ Maintained(S, TRUE)[j].last >= S[j].next
<1> DEFINE n == Normalized(S[j])
<1>1. kind \in Mixes /\ now \in Nat /\ j \in Jobs /\ S[j] \in Records
  BY StoreLemma, Bounds DEF Base, Control, Proper
<1>2. \A b : Maintained(S, b)[j] = Tended(j, S[j], b /\ now >= n.next /\ Executed(n))
  BY DEF Maintained, Tended
<1>3. n.next = S[j].next /\ n.last = S[j].last
  BY <1>1, NormalizedLemma DEF Wakes
<1>4. Executed(n) => S[j].last >= S[j].next
  BY <1>3 DEF Executed
<1> HIDE DEF n
<1>5. \A stale : /\ ~stale => Tended(j, S[j], stale).next = S[j].next
                 /\ Tended(j, S[j], stale).last = S[j].last
  BY <1>1, TendedRecord
<1>6. Maintained(S, FALSE)[j].next = S[j].next
  BY <1>2, <1>5
<1>7. CASE now >= n.next /\ Executed(n)
  <2>1. Maintained(S, TRUE)[j].last = S[j].last
    BY <1>2, <1>5
  <2> QED
    BY <1>4, <1>6, <1>7, <2>1
<1>8. CASE ~(now >= n.next /\ Executed(n))
  <2>1. Maintained(S, TRUE)[j].next = S[j].next
    BY <1>2, <1>5, <1>8
  <2> QED
    BY <1>6, <2>1
<1> QED
  BY <1>7, <1>8

\* The slot of j is where it was, or j has run.
SlotKept(j) == disk'[j].next = disk[j].next \/ disk'[j].last >= disk[j].next

\* The job is due in every copy of the store, and nothing is about to run it or to
\* defer it.
Awaited(j) ==
  /\ j \in DOMAIN disk /\ Wakes(disk[j])
  /\ \A S \in Copies : j \in DOMAIN S => S[j].enabled /\ S[j].next = disk[j].next
  /\ ~Busy(j) /\ \A s \in Services : j \notin later[s]

LEMMA AwaitedLoaded ==
  ASSUME Base, NEW j, Awaited(j), NEW s \in Services, j \in DOMAIN Loaded(s)
  PROVE  Wakes(Loaded(s)[j]) /\ Loaded(s)[j].next = disk[j].next
<1>1. Loaded(s) \in Copies
  BY DEF Loaded, Copies
<1>2. Loaded(s)[j].enabled /\ Loaded(s)[j].next = disk[j].next /\ disk[j].next # 0
  BY <1>1 DEF Awaited, Wakes
<1> QED
  BY <1>2 DEF Wakes

LEMMA AwaitedResults ==
  ASSUME Base, NEW j, Awaited(j), NEW s \in Services, NEW f \in Flows,
         j \in DOMAIN WithResults(disk, work[s][f])
  PROVE  /\ Proper(WithResults(disk, work[s][f])) /\ j \in Jobs
         /\ WithResults(disk, work[s][f])[j] = disk[j]
<1> DEFINE D == work[s][f]
<1>1. D \in [Jobs -> Runs] /\ kind \in Mixes /\ Proper(disk)
  BY DEF Base, Control, ProperStores
<1>2. j \in Jobs
  BY <1>1, StoreLemma DEF Awaited, Proper
<1>3. D[j].state # "done"
  BY BusyIs DEF Awaited, Planned
<1> HIDE DEF D
<1>4. WithResults(disk, D)[j] = disk[j]
  BY <1>1, <1>3, WithResultsLemma DEF Proper, D
<1> QED
  BY <1>1, <1>2, <1>4, ProperWithResults DEF D

LEMMA SlotStart ==
  ASSUME Base, NEW j, Awaited(j), j \in DOMAIN disk', NEW s \in Services,
         Clear(s) \/ Plan(s) \/ ApplyCatchup(s) \/ FinishStart(s),
         ~(phase[s] = "last" /\ phase'[s] = "up")
  PROVE  SlotKept(j)
<1>1. CASE disk' = disk
  BY <1>1 DEF SlotKept
<1>2. CASE Clear(s) /\ disk' # disk
  <2> DEFINE S == Loaded(s)
  <2>1. disk' = [k \in DOMAIN S |-> [S[k] EXCEPT !.running = 0]]
    BY <1>2 DEF Clear, Persist, PersistFails
  <2>2. IsStore(S)
    BY ProperLoaded DEF Proper
  <2>3. j \in DOMAIN S
    BY <2>1
  <2>4. disk'[j].next = S[j].next
    BY <2>1, <2>2, <2>3, ClearedLemma
  <2> QED
    BY <2>3, <2>4, AwaitedLoaded DEF SlotKept
<1>3. CASE Plan(s) /\ disk' # disk
  <2>1. PICK soon : disk' = Marked(mem[s], soon)
    BY <1>3 DEF Plan, Persist, PersistFails
  <2>2. mem[s] # NoStore
    BY <1>3 DEF Plan, Base, Present
  <2>3. IsStore(mem[s]) /\ Loaded(s) = mem[s] /\ now \in 1..MaxTime
    BY <2>2, ProperLoaded DEF Proper, Base, Control
  <2>4. DOMAIN disk' = DOMAIN mem[s] /\ \A k \in DOMAIN mem[s] : disk'[k].next = mem[s][k].next
    BY <2>1, <2>3, MarkedLemma
  <2> QED
    BY <2>3, <2>4, AwaitedLoaded DEF SlotKept
<1>4. CASE ApplyCatchup(s) /\ disk' # disk
  <2> DEFINE S == WithResults(disk, work[s]["start"])
             deferred == [k \in DOMAIN S |->
                            IF k \in later[s] /\ S[k].enabled
                            THEN [S[k] EXCEPT !.next = now + Stagger] ELSE S[k]]
             T == Maintained(deferred, FALSE)
  <2>1. disk' = T
    BY <1>4 DEF ApplyCatchup, Persist, PersistFails
  <2>2. "start" \in Flows /\ now \in Nat
    BY Bounds DEF Flows, Base, Control
  <2>3. DOMAIN T = DOMAIN deferred /\ DOMAIN deferred = DOMAIN S
    BY DEF Maintained
  <2>4. j \in DOMAIN S
    BY <2>1, <2>3
  <2>5. Proper(S) /\ S[j] = disk[j]
    BY <2>2, <2>4, AwaitedResults
  <2>6. deferred[j] = S[j]
    BY <2>4 DEF Awaited
  <2> HIDE DEF S
  <2>7. Proper(deferred)
    BY <2>2, <2>5, DeferredLemma DEF Proper
  <2>8. j \in DOMAIN deferred /\ deferred[j] = disk[j]
    BY <2>3, <2>4, <2>5, <2>6
  <2>9. Wakes(deferred[j])
    BY <2>8 DEF Awaited
  <2> HIDE DEF deferred
  <2>10. T[j].next = deferred[j].next
    BY <2>7, <2>8, <2>9, MaintainedSlots
  <2> QED
    BY <2>1, <2>8, <2>10 DEF SlotKept
<1>5. CASE FinishStart(s) /\ disk' # disk
  <2>1. phase[s] = "last" /\ phase' = [phase EXCEPT ![s] = "up"]
    BY <1>5 DEF FinishStart, PersistFails, Enter
  <2>2. phase'[s] = "up"
    BY <2>1 DEF Base, Control
  <2> QED
    BY <2>1, <2>2
<1> QED
  BY <1>1, <1>2, <1>3, <1>4, <1>5

LEMMA SlotTick ==
  ASSUME Base, NEW j, Awaited(j), j \in DOMAIN disk', NEW s \in Services,
         OnTimer(s) \/ SelectDue(s) \/ ApplyTick(s) \/ EndTick(s)
  PROVE  SlotKept(j)
<1>1. CASE disk' = disk
  BY <1>1 DEF SlotKept
<1>2. CASE SelectDue(s) /\ disk' # disk
  <2> DEFINE due == {k \in DOMAIN disk : IsDue(disk[k])}
  <2>1. disk' = IF due = {} THEN Maintained(disk, TRUE) ELSE Marked(disk, due)
    BY <1>2 DEF SelectDue, Persist, PersistFails
  <2>2. Proper(disk) /\ j \in DOMAIN disk /\ now \in 1..MaxTime
    BY DEF Base, ProperStores, Awaited, Control
  <2> HIDE DEF due
  <2>3. CASE disk' = Maintained(disk, TRUE)
    BY <2>2, <2>3, MaintainedSlots DEF Awaited, SlotKept
  <2>4. CASE disk' = Marked(disk, due)
    BY <2>2, <2>4, MarkedLemma DEF Proper, SlotKept
  <2> QED
    BY <2>1, <2>3, <2>4
<1>3. CASE ApplyTick(s) /\ disk' # disk
  <2> DEFINE S == WithResults(disk, work[s]["tick"])
             T == Maintained(S, FALSE)
  <2>1. disk' = T
    BY <1>3 DEF ApplyTick, Persist, PersistFails
  <2>2. "tick" \in Flows
    BY DEF Flows
  <2>3. DOMAIN T = DOMAIN S
    BY DEF Maintained
  <2>4. j \in DOMAIN S
    BY <2>1, <2>3
  <2>5. Proper(S) /\ S[j] = disk[j]
    BY <2>2, <2>4, AwaitedResults
  <2>6. Wakes(S[j])
    BY <2>5 DEF Awaited
  <2> HIDE DEF S
  <2>7. T[j].next = S[j].next
    BY <2>4, <2>5, <2>6, MaintainedSlots
  <2> QED
    BY <2>1, <2>5, <2>7 DEF SlotKept
<1>4. OnTimer(s) \/ EndTick(s) => disk' = disk
  BY DEF OnTimer, EndTick
<1> QED
  BY <1>1, <1>2, <1>3, <1>4

LEMMA SlotManual ==
  ASSUME Base, NEW j, Awaited(j), j \in DOMAIN disk', Prepare \/ Reserve \/ FinishManual
  PROVE  SlotKept(j)
<1> DEFINE s == call.service
<1>1. CASE disk' = disk
  BY <1>1 DEF SlotKept
<1>2. /\ call # NoCall /\ s \in Services /\ mem[s] # NoStore /\ Proper(mem[s])
      /\ call.started \in 0..MaxTime
  BY CallerHasStore, CallFields DEF Prepare, Reserve, FinishManual
<1>3. CASE Reserve /\ disk' # disk
  <2> DEFINE T == [mem[s] EXCEPT ![call.job].running = call.started]
  <2>1. disk' = T /\ call.job \in DOMAIN mem[s]
    BY <1>3 DEF Reserve, Persist, PersistFails
  <2>2. DOMAIN T = DOMAIN mem[s] /\ \A k \in DOMAIN mem[s] : T[k].next = mem[s][k].next
    BY <1>2, <2>1, OneMarkedLemma DEF Proper
  <2> HIDE DEF T
  <2>3. Loaded(s) = mem[s]
    BY <1>2, ProperLoaded
  <2> QED
    BY <1>2, <2>1, <2>2, <2>3, AwaitedLoaded DEF SlotKept
<1>4. CASE FinishManual /\ disk' # disk
  <2> DEFINE T == Maintained(Merged, TRUE)
  <2>1. disk' = T /\ call.job \in DOMAIN mem[s] /\ call.state = "done"
    BY <1>4 DEF FinishManual, Merged, Persist, PersistFails
  <2>2. j # call.job
    BY <1>2, <2>1, BusyIs DEF Awaited, Called
  <2>3. Proper(Merged) /\ \A k \in DOMAIN Merged : k # call.job => Merged[k] = disk[k]
    BY <1>2, <2>1, MergedLemma
  <2>4. j \in DOMAIN Merged
    BY <2>1 DEF Maintained
  <2>5. Merged[j] = disk[j] /\ Wakes(Merged[j])
    BY <2>2, <2>3, <2>4 DEF Awaited
  <2>6. T[j].next = Merged[j].next \/ T[j].last >= Merged[j].next
    BY <2>3, <2>4, <2>5, MaintainedSlots
  <2> QED
    BY <2>1, <2>5, <2>6 DEF SlotKept
<1>5. Prepare => disk' = disk
  BY DEF Prepare
<1> QED
  BY <1>1, <1>3, <1>4, <1>5

LEMMA SlotRead ==
  ASSUME Base, NEW j, Awaited(j), j \in DOMAIN disk', Read
  PROVE  SlotKept(j)
<1> DEFINE S == Loaded(current)
           T == Maintained(S, FALSE)
<1>1. CASE disk' = disk
  BY <1>1 DEF SlotKept
<1>2. CASE disk' # disk
  <2>1. disk' = T /\ current # NoService
    BY <1>2 DEF Read, Persist, PersistFails
  <2>2. current \in Services
    BY <2>1 DEF Base, Control
  <2>3. j \in DOMAIN S
    BY <2>1 DEF Maintained
  <2>4. Proper(S) /\ Wakes(S[j]) /\ S[j].next = disk[j].next
    BY <2>2, <2>3, ProperLoaded, AwaitedLoaded
  <2> HIDE DEF S
  <2>5. T[j].next = disk[j].next
    BY <2>3, <2>4, MaintainedSlots
  <2> QED
    BY <2>1, <2>5 DEF SlotKept
<1> QED
  BY <1>1, <1>2

LEMMA SlotStep ==
  ASSUME Base, Step, NEW j, Awaited(j), j \in DOMAIN disk', requests' = requests,
         \A s \in Services : ~(phase[s] = "last" /\ phase'[s] = "up")
  PROVE  SlotKept(j)
<1>1. requests' # requests + 1
  BY Bounds DEF Base, Control
<1>2. ~\E s \in Services : Reload(s)
  BY <1>1 DEF Reload, Request
<1>3. ASSUME disk' = disk PROVE SlotKept(j)
  BY <1>3 DEF SlotKept
<1>4. ASSUME NEW s \in Services, NEW f \in Flows, NEW k \in Jobs,
             Take(s, f, k) \/ \E o \in Outcomes : Settle(s, f, k, o)
      PROVE  SlotKept(j)
  BY <1>3, <1>4 DEF Take, Settle
<1>5. "tick" \in Flows /\ "start" \in Flows
  BY DEF Flows
<1>6. ASSUME NEW s \in Services, StartStep(s) PROVE SlotKept(j)
  BY <1>4, <1>5, <1>6, SlotStart DEF StartStep
<1>7. ASSUME NEW s \in Services, TickStep(s) PROVE SlotKept(j)
  BY <1>4, <1>5, <1>7, SlotTick DEF TickStep
<1>8. CASE ManualStep
  BY <1>3, <1>8, SlotManual DEF ManualStep, SettleManual
<1>9. CASE Operation
  <2>1. Read
    BY <1>1, <1>9 DEF Operation, Add, Update, Remove, EnqueueRun, Request
  <2> QED
    BY <2>1, SlotRead
<1>10. CASE (\E s \in Services : Boot(s)) \/ Crash \/ Clock
  BY <1>3, <1>10 DEF Boot, Crash, Clock
<1> QED
  BY <1>2, <1>6, <1>7, <1>8, <1>9, <1>10 DEF Step

LEMMA DueLaterLemma ==
  ASSUME IInv, Next, NEW j \in DOMAIN disk \intersect DOMAIN disk',
         DueEverywhere(j), disk[j].next \in 1..now, disk'[j].next > disk[j].next
  PROVE  \/ disk'[j].last >= disk[j].next \/ Busy(j)
         \/ requests' # requests
         \/ \E s \in Services : j \in later[s] \/ (phase[s] = "last" /\ phase'[s] = "up")
<1>1. Base /\ Step
  BY DEF IInv, Next
<1> SUFFICES ASSUME ~Busy(j), requests' = requests,
                    \A s \in Services : j \notin later[s] /\ ~(phase[s] = "last" /\ phase'[s] = "up")
             PROVE  disk'[j].last >= disk[j].next
  OBVIOUS
<1>2. disk[j].enabled /\ disk[j].next # 0 /\ disk[j].next \in Nat
  <2>1. disk \in Copies
    BY DEF Copies
  <2>2. disk[j].enabled
    BY <2>1 DEF DueEverywhere
  <2>3. now \in Nat
    BY <1>1, Bounds DEF Base, Control
  <2> QED
    BY <2>2, <2>3
<1>3. Awaited(j)
  BY <1>2 DEF Awaited, Wakes, DueEverywhere
<1>4. SlotKept(j)
  BY <1>1, <1>3, SlotStep
<1>5. disk'[j].next # disk[j].next
  BY <1>2
<1> QED
  BY <1>4, <1>5 DEF SlotKept

\* A slot that is due in the file and in every memory is not moved to a later time
\* before its job has run, whatever maintenance, ticks, catch-ups and failed
\* writes do, but by a request, a deferral or the end of start().
THEOREM DueKept == Spec => DueSlotsAreKept
<1>1. IInv /\ [Next]_vars =>
        [\A j \in DOMAIN disk \intersect DOMAIN disk' :
           DueEverywhere(j) /\ disk[j].next \in 1..now /\ disk'[j].next > disk[j].next
             => \/ disk'[j].last >= disk[j].next \/ Busy(j)
                \/ requests' # requests
                \/ \E s \in Services : j \in later[s] \/ (phase[s] = "last" /\ phase'[s] = "up")]_vars
  BY DueLaterLemma
<1> QED
  BY <1>1, Invariance, PTL DEF Spec, DueSlotsAreKept
=============================================================================
