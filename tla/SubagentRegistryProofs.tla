---------------------- MODULE SubagentRegistryProofs ----------------------
(***************************************************************************)
(* Proofs about SubagentRegistry, for any runs, sessions and requesters and *)
(* any number of retries, captures and troubles.                           *)
(***************************************************************************)
EXTENDS SubagentRegistry, TLAPS

-----------------------------------------------------------------------------
(* One run *)

\* What is said of a run below: its entries in the map and in the file, how far
\* it is, and what has happened to it.
View(z) == [entry |-> runs[z], saved |-> disk[z],
            flow |-> memory[z].flow, freezing |-> memory[z].freezing,
            steering |-> memory[z].steering, told |-> announced[z],
            used |-> z \in used, killed |-> z \in killed,
            replaced |-> z \in replaced, cut |-> z \in cut]

\* Nothing was told of the run, and nothing is being told.
Idle(v) == v.told = 0 /\ v.flow = "none"

\* The marks of an entry keep every path away from announcing it.
Settled(e) == e.ended /\ (e.handled \/ e.completed) /\ e.suppress # "killed"

\* A kill closes the entry; retries are counted of a run that has ended; an
\* entry whose retries are used up is completed, or being given up.
Sound(v, e) ==
  /\ e.suppress = "killed" => e.ended /\ e.handled /\ e.completed
  /\ ~e.ended \/ e.suppress = "killed" => e.retries = 0
  /\ e.retries >= MaxRetries => v.flow # "announcing" /\ (e.completed \/ v.flow = "giving up")

\* An entry, in the map or in the file, of a run.
Fits(v, e) ==
  e # NoRun => /\ Sound(v, e)
               /\ Idle(v) \/ Settled(e)
               /\ v.steering => v.killed \/ e.suppress = "steer-restart"
               /\ v.used /\ ~v.replaced

\* A run is told of once, and what was replaced or is steered is not told of.
Told(v) ==
  /\ v.told <= 1
  /\ v.flow = "announcing" => v.told = 0
  /\ v.steering \/ v.replaced => v.killed \/ Idle(v)
  /\ ~v.used => Idle(v) /\ ~v.steering /\ ~v.replaced /\ v.freezing = 0

\* The entry in the map has ended when its result is captured, and has a flow
\* when it is handled and open.
Flowing(v) ==
  v.entry # NoRun =>
    /\ v.freezing > 0 => v.entry.ended
    /\ v.entry.handled /\ ~v.entry.completed /\ ~v.cut => v.flow # "none"

Good(v) == Told(v) /\ Flowing(v) /\ Fits(v, v.entry) /\ Fits(v, v.saved)

IInv == TypeOK /\ \A z \in RunIds : Good(View(z))

-----------------------------------------------------------------------------
(* What a step does to one run *)

\* An entry keeps its marks, or is completed.
Kept(e, f) ==
  /\ e # NoRun /\ f # NoRun
  /\ (f.ended <=> e.ended) /\ (f.handled <=> e.handled) /\ (e.completed => f.completed)
  /\ f.suppress = e.suppress /\ f.retries = e.retries

\* ..., or is deleted.
Left(e, f) == f = NoRun \/ Kept(e, f)

\* An entry is handled now: its announcement begins.
Begins(e, f) ==
  /\ e # NoRun /\ f # NoRun
  /\ e.ended /\ ~e.handled /\ ~e.completed /\ e.suppress # "steer-restart"
  /\ f.ended /\ f.handled /\ ~f.completed
  /\ f.suppress = e.suppress /\ f.retries = e.retries

SameHistory(v, w) ==
  /\ (w.used <=> v.used) /\ (w.replaced <=> v.replaced)
SameRun(v, w) ==
  /\ SameHistory(v, w) /\ (w.killed <=> v.killed) /\ (w.cut <=> v.cut)
  /\ w.freezing <= v.freezing /\ (w.steering => v.steering)

Stays(v, w) ==
  /\ SameRun(v, w) /\ w.told = v.told /\ w.flow = v.flow
  /\ Left(v.entry, w.entry)
  /\ Left(v.saved, w.saved) \/ w.saved = w.entry

Starts(v, w) ==
  /\ SameRun(v, w) /\ w.told = v.told /\ w.flow = "announcing"
  /\ Begins(v.entry, w.entry) /\ w.saved = w.entry

\* The mark of a steer is taken away; then the run goes on as above.
Cleared(e, f) ==
  /\ e # NoRun /\ f # NoRun /\ e.suppress = "steer-restart" /\ f.suppress = "none"
  /\ (f.ended <=> e.ended) /\ f.retries = e.retries

Unmarked(v, w) ==
  /\ SameRun(v, w) /\ w.told = v.told /\ ~w.steering /\ v.entry # NoRun /\ w.saved = w.entry
  /\ \/ w.entry = NoRun /\ w.flow = v.flow
     \/ /\ Cleared(v.entry, w.entry) /\ w.flow = v.flow
        /\ (w.entry.handled <=> v.entry.handled) /\ (v.entry.completed => w.entry.completed)
     \/ /\ Cleared(v.entry, w.entry) /\ w.flow = "announcing"
        /\ v.entry.ended /\ ~v.entry.handled /\ ~v.entry.completed
        /\ w.entry.handled /\ ~w.entry.completed

Ended(e, f) ==
  /\ e # NoRun /\ f # NoRun /\ f.ended /\ f.retries = e.retries
  /\ (f.handled <=> e.handled) /\ (f.completed <=> e.completed) /\ f.suppress = e.suppress
Lifted(e, f) ==
  /\ e # NoRun /\ f # NoRun /\ f.ended /\ f.retries = e.retries
  /\ e.suppress = "killed" /\ ~f.handled /\ ~f.completed /\ f.suppress = "none"

Completes(v, w) ==
  /\ SameHistory(v, w) /\ (w.killed <=> v.killed) /\ (w.cut <=> v.cut)
  /\ w.told = v.told /\ w.flow = v.flow /\ (w.steering => v.steering)
  /\ v.used /\ (Ended(v.entry, w.entry) \/ Lifted(v.entry, w.entry))
  /\ w.saved = v.saved \/ Ended(v.entry, w.saved)

Fails(v, w) ==
  /\ SameRun(v, w) /\ w.told = v.told /\ v.flow = "announcing" /\ w.flow = "none"
  /\ v.entry # NoRun /\ w.entry # NoRun /\ w.saved = w.entry
  /\ (w.entry.ended <=> v.entry.ended) /\ w.entry.suppress = v.entry.suppress
  /\ ~w.entry.handled /\ (w.entry.completed <=> v.entry.completed)
  /\ w.entry.retries < MaxRetries

GivesUp(v, w) ==
  /\ SameRun(v, w) /\ w.told = v.told /\ v.flow = "announcing" /\ w.flow = "giving up"
  /\ v.entry # NoRun /\ w.entry # NoRun /\ w.saved = v.saved
  /\ (w.entry.ended <=> v.entry.ended) /\ w.entry.suppress = v.entry.suppress
  /\ (w.entry.handled <=> v.entry.handled) /\ (w.entry.completed <=> v.entry.completed)

Succeeds(v, w) ==
  /\ SameRun(v, w) /\ v.flow = "announcing" /\ w.told \in {v.told, v.told + 1}
  /\ Left(v.entry, w.entry) /\ w.saved = v.saved
  /\ w.flow = IF w.entry = NoRun THEN "none" ELSE "completing"

Closes(v, w) ==
  /\ SameRun(v, w) /\ w.told = v.told
  /\ v.flow \in {"completing", "giving up"} /\ w.flow = "none"
  /\ Left(v.entry, w.entry) /\ w.saved = w.entry
  /\ w.entry # NoRun => w.entry.completed

Dies(v, w) ==
  /\ SameHistory(v, w) /\ (w.cut <=> v.cut) /\ w.killed
  /\ w.told = v.told /\ w.flow = v.flow
  /\ v.entry # NoRun /\ w.entry # NoRun /\ w.saved = w.entry /\ ~v.entry.ended
  /\ w.entry.ended /\ w.entry.handled /\ w.entry.completed
  /\ w.entry.suppress = "killed" /\ w.entry.retries = v.entry.retries

Marked(v, w) ==
  /\ SameHistory(v, w) /\ (w.killed <=> v.killed) /\ (w.cut <=> v.cut)
  /\ w.told = v.told /\ w.flow = v.flow /\ w.freezing = v.freezing
  /\ v.entry # NoRun /\ w.entry # NoRun /\ w.saved = w.entry /\ ~v.entry.ended
  /\ ~w.entry.ended /\ w.entry.suppress = "steer-restart" /\ w.entry.retries = v.entry.retries
  /\ (w.entry.handled <=> v.entry.handled) /\ (w.entry.completed <=> v.entry.completed)

Leaves(v, w) ==
  /\ (w.used <=> v.used) /\ (w.killed <=> v.killed) /\ (w.cut <=> v.cut) /\ w.told = v.told
  /\ w.entry = NoRun /\ w.saved = NoRun
  /\ \/ v.steering /\ w.flow = v.flow
     \/ v.flow = "announcing" /\ w.flow = "none" /\ (w.steering => v.steering)

Enters(v, w) ==
  /\ ~v.used /\ w.used /\ (w.replaced <=> v.replaced) /\ w.told = v.told /\ w.flow = "none"
  /\ w.freezing = 0 /\ ~w.steering /\ w.entry = NewEntry /\ w.saved = NewEntry

Restored(v, w) ==
  /\ SameHistory(v, w) /\ (w.killed <=> v.killed) /\ w.told = v.told
  /\ w.freezing = 0 /\ ~w.steering /\ w.saved = w.entry
  /\ \/ Begins(v.saved, w.entry) /\ w.flow = "announcing"
     \/ /\ Left(v.saved, w.entry) /\ w.flow = "none"
        /\ w.entry # NoRun /\ ~w.entry.completed =>
             w.entry.retries < MaxRetries /\ (w.entry.handled => w.cut)

Step(v, w) ==
  \/ Stays(v, w) \/ Starts(v, w) \/ Unmarked(v, w) \/ Completes(v, w)
  \/ Fails(v, w) \/ GivesUp(v, w) \/ Succeeds(v, w) \/ Closes(v, w)
  \/ Dies(v, w) \/ Marked(v, w) \/ Leaves(v, w) \/ Enters(v, w) \/ Restored(v, w)

-----------------------------------------------------------------------------
(* Each step of a run keeps what is good *)

Entries == Entry \union {NoRun}

Typed(v) ==
  /\ v.entry \in Entries /\ v.saved \in Entries
  /\ v.flow \in {"none", "announcing", "completing", "giving up"}
  /\ v.freezing \in Nat /\ v.told \in Nat

LEMMA NoMore ==
  ASSUME NEW m \in Nat, NEW n \in Nat, n <= m
  PROVE  (m = 0 => n = 0) /\ (n > 0 => m > 0)
OBVIOUS

LEMMA GoodLemma ==
  ASSUME NEW v, NEW w, Typed(v), Typed(w), Good(v), Step(v, w)
  PROVE  Good(w)
<1>1. /\ v.entry \in Entry \union {NoRun} /\ v.saved \in Entry \union {NoRun}
      /\ v.flow \in {"none", "announcing", "completing", "giving up"}
      /\ v.freezing \in Nat /\ v.told \in Nat
      /\ w.entry \in Entry \union {NoRun} /\ w.saved \in Entry \union {NoRun}
      /\ w.flow \in {"none", "announcing", "completing", "giving up"}
      /\ w.freezing \in Nat /\ w.told \in Nat
  BY DEF Typed, Entries
<1>2. MaxRetries \in Nat \ {0}
  BY RegistryAssumption DEF RegistryAssumption
<1>3. /\ v.entry # NoRun => v.entry.retries \in 0..MaxRetries
      /\ v.saved # NoRun => v.saved.retries \in 0..MaxRetries
      /\ w.entry # NoRun => w.entry.retries \in 0..MaxRetries
      /\ w.saved # NoRun => w.saved.retries \in 0..MaxRetries
  BY <1>1 DEF Entry
<1>4. /\ Told(v) /\ Flowing(v)
      /\ v.entry # NoRun => v.used /\ ~v.replaced /\ (Idle(v) \/ Settled(v.entry)) /\ Sound(v, v.entry)
                           /\ (v.steering => v.killed \/ v.entry.suppress = "steer-restart")
      /\ v.saved # NoRun => v.used /\ ~v.replaced /\ (Idle(v) \/ Settled(v.saved)) /\ Sound(v, v.saved)
                           /\ (v.steering => v.killed \/ v.saved.suppress = "steer-restart")
  BY DEF Good, Fits
<1>5. CASE Stays(v, w)
  <2>0. /\ w.told = v.told /\ w.flow = v.flow /\ w.freezing <= v.freezing /\ (w.steering => v.steering)
        /\ (w.used <=> v.used) /\ (w.replaced <=> v.replaced) /\ (w.killed <=> v.killed) /\ (w.cut <=> v.cut)
    BY <1>5 DEF Stays, SameRun, SameHistory
  <2>1. (v.freezing = 0 => w.freezing = 0) /\ (w.freezing > 0 => v.freezing > 0)
    BY <2>0, <1>1, NoMore
  <2>6. Idle(v) <=> Idle(w)
    BY <2>0 DEF Idle
  <2>2. Told(w)
    BY <2>0, <2>1, <2>6, <1>4 DEF Told
  <2>3. Flowing(w)
    BY <1>4, <2>0, <2>1, <2>6, <1>5 DEF Flowing, Stays, Left, Kept
  <2>4. Fits(w, w.entry)
    BY <1>4, <2>0, <2>1, <2>6, <1>5 DEF Fits, Sound, Settled, Stays, Left, Kept
  <2>5. Fits(w, w.saved)
    BY <1>4, <2>0, <2>1, <2>6, <2>4, <1>5 DEF Fits, Sound, Settled, Stays, Left, Kept
  <2> QED
    BY <2>2, <2>3, <2>4, <2>5 DEF Good
<1>6. CASE Starts(v, w)
  <2>1. Told(w)
    BY <1>4, <1>6 DEF Told, Settled, Idle, Starts, SameRun, SameHistory, Begins
  <2>2. Flowing(w)
    BY <1>6 DEF Flowing, Starts, Begins
  <2>3. Fits(w, w.entry)
    BY <1>4, <1>6 DEF Fits, Settled, Sound, Idle, Starts, SameRun, SameHistory, Begins
  <2>4. Fits(w, w.saved)
    BY <1>4, <1>6 DEF Fits, Settled, Sound, Idle, Starts, SameRun, SameHistory, Begins
  <2> QED
    BY <2>1, <2>2, <2>3, <2>4 DEF Good
<1>7. CASE Unmarked(v, w)
  <2>0. /\ w.told = v.told /\ w.freezing <= v.freezing /\ ~w.steering /\ w.saved = w.entry
        /\ (w.used <=> v.used) /\ (w.replaced <=> v.replaced) /\ (w.killed <=> v.killed) /\ (w.cut <=> v.cut)
        /\ v.entry # NoRun
    BY <1>7 DEF Unmarked, SameRun, SameHistory
  <2>1. (v.freezing = 0 => w.freezing = 0) /\ (w.freezing > 0 => v.freezing > 0)
    BY <2>0, <1>1, NoMore
  <2>2. CASE w.entry = NoRun /\ w.flow = v.flow
    BY <1>4, <2>0, <2>1, <2>2 DEF Good, Told, Idle, Flowing, Fits
  <2>3. CASE /\ Cleared(v.entry, w.entry) /\ w.flow = v.flow
             /\ (w.entry.handled <=> v.entry.handled) /\ (v.entry.completed => w.entry.completed)
    <3>1. Told(w) /\ Flowing(w)
      BY <1>4, <2>0, <2>1, <2>3 DEF Told, Idle, Flowing, Cleared
    <3>2. Fits(w, w.entry)
      BY <1>4, <2>0, <2>3 DEF Fits, Sound, Settled, Idle, Cleared
    <3> QED
      BY <2>0, <3>1, <3>2 DEF Good
  <2>4. CASE /\ Cleared(v.entry, w.entry) /\ w.flow = "announcing"
             /\ v.entry.ended /\ ~v.entry.handled /\ ~v.entry.completed
             /\ w.entry.handled /\ ~w.entry.completed
    <3>1. Idle(v)
      BY <1>4, <2>0, <2>4 DEF Settled
    <3>2. Told(w) /\ Flowing(w)
      BY <1>4, <2>0, <2>1, <2>4, <3>1 DEF Told, Idle, Flowing, Cleared
    <3>3. Fits(w, w.entry)
      BY <1>4, <2>0, <2>4, <3>1 DEF Fits, Sound, Settled, Idle, Cleared
    <3> QED
      BY <2>0, <3>2, <3>3 DEF Good
  <2> QED
    BY <2>2, <2>3, <2>4, <1>7 DEF Unmarked
<1>8. CASE Completes(v, w)
  <2>0. /\ w.told = v.told /\ w.flow = v.flow /\ (w.steering => v.steering) /\ v.used
        /\ (w.used <=> v.used) /\ (w.replaced <=> v.replaced) /\ (w.killed <=> v.killed) /\ (w.cut <=> v.cut)
        /\ (Idle(v) <=> Idle(w))
    BY <1>8 DEF Completes, SameHistory, Idle
  <2>1. Told(w)
    BY <1>4, <2>0 DEF Told
  <2>2. ASSUME Ended(v.entry, w.entry)
        PROVE  Flowing(w) /\ Fits(w, w.entry)
    <3>1. Flowing(w)
      BY <1>4, <2>0, <2>2 DEF Flowing, Ended
    <3>2. Fits(w, w.entry)
      BY <1>4, <2>0, <2>2 DEF Fits, Sound, Settled, Ended
    <3> QED
      BY <3>1, <3>2
  <2>3. ASSUME Lifted(v.entry, w.entry)
        PROVE  Flowing(w) /\ Fits(w, w.entry)
    <3>1. Flowing(w)
      BY <1>4, <2>0, <2>3 DEF Flowing, Lifted
    <3>2. Idle(v) /\ v.entry.retries = 0
      BY <1>4, <2>3 DEF Settled, Sound, Lifted
    <3>3. w.entry.retries = 0 /\ ~(w.entry.retries >= MaxRetries)
      BY <1>2, <2>3, <3>2 DEF Lifted
    <3>4. Fits(w, w.entry)
      BY <1>4, <2>0, <2>3, <3>2, <3>3 DEF Fits, Sound, Lifted
    <3> QED
      BY <3>1, <3>4
  <2>4. Fits(w, w.saved)
    <3>1. CASE w.saved = v.saved
      BY <1>4, <2>0, <3>1 DEF Fits, Sound
    <3>2. CASE Ended(v.entry, w.saved)
      BY <1>4, <2>0, <3>2 DEF Fits, Sound, Settled, Ended
    <3> QED
      BY <3>1, <3>2, <1>8 DEF Completes
  <2> QED
    BY <2>1, <2>2, <2>3, <2>4, <1>8 DEF Good, Completes
<1>9. CASE Fails(v, w)
  <2>1. Told(w)
    BY <1>4, <1>9 DEF Told, Idle, Fails, SameRun, SameHistory
  <2>2. Flowing(w)
    BY <1>1, <1>4, <1>9 DEF Flowing, Fails, SameRun
  <2>3. Fits(w, w.entry)
    BY <1>2, <1>3, <1>4, <1>9 DEF Told, Fits, Settled, Sound, Idle, Fails, SameRun, SameHistory
  <2>4. Fits(w, w.saved)
    BY <1>2, <1>3, <1>4, <1>9 DEF Told, Fits, Settled, Sound, Idle, Fails, SameRun, SameHistory
  <2> QED
    BY <2>1, <2>2, <2>3, <2>4 DEF Good
<1>10. CASE GivesUp(v, w)
  <2>1. Told(w)
    BY <1>4, <1>10 DEF Told, Idle, GivesUp, SameRun, SameHistory
  <2>2. Flowing(w)
    BY <1>4, <1>10 DEF Flowing, Settled, Idle, GivesUp
  <2>3. Fits(w, w.entry)
    BY <1>4, <1>10 DEF Fits, Settled, Sound, Idle, GivesUp, SameRun, SameHistory
  <2>4. Fits(w, w.saved)
    BY <1>4, <1>10 DEF Fits, Sound, Idle, GivesUp, SameRun, SameHistory
  <2> QED
    BY <2>1, <2>2, <2>3, <2>4 DEF Good
<1>11. CASE Succeeds(v, w)
  <2>1. Told(w)
    BY <1>4, <1>11 DEF Told, Idle, Succeeds, SameRun, SameHistory
  <2>2. Flowing(w)
    BY <1>1, <1>4, <1>11 DEF Flowing, Succeeds, SameRun, Left, Kept
  <2>3. Fits(w, w.entry)
    BY <1>4, <1>11 DEF Fits, Settled, Sound, Idle, Succeeds, SameRun, SameHistory, Left, Kept
  <2>4. Fits(w, w.saved)
    BY <1>4, <1>11 DEF Fits, Sound, Idle, Succeeds, SameRun, SameHistory
  <2> QED
    BY <2>1, <2>2, <2>3, <2>4 DEF Good
<1>12. CASE Closes(v, w)
  <2>1. Told(w)
    BY <1>4, <1>12 DEF Told, Idle, Closes, SameRun, SameHistory
  <2>2. Flowing(w)
    BY <1>4, <1>12 DEF Flowing, Settled, Idle, Closes, Left, Kept
  <2>3. Fits(w, w.entry)
    BY <1>4, <1>12 DEF Fits, Settled, Sound, Idle, Closes, SameRun, SameHistory, Left, Kept
  <2>4. Fits(w, w.saved)
    BY <1>4, <1>12 DEF Fits, Settled, Sound, Idle, Closes, SameRun, SameHistory, Left, Kept
  <2> QED
    BY <2>1, <2>2, <2>3, <2>4 DEF Good
<1>13. CASE Dies(v, w)
  <2>1. Told(w)
    BY <1>4, <1>13 DEF Told, Dies, SameHistory
  <2>2. Flowing(w)
    BY <1>13 DEF Flowing, Dies
  <2>3. Fits(w, w.entry)
    BY <1>4, <1>13 DEF Fits, Settled, Sound, Idle, Dies, SameHistory
  <2>4. Fits(w, w.saved)
    BY <1>4, <1>13 DEF Fits, Settled, Sound, Idle, Dies, SameHistory
  <2> QED
    BY <2>1, <2>2, <2>3, <2>4 DEF Good
<1>14. CASE Marked(v, w)
  <2>0. /\ w.told = v.told /\ w.flow = v.flow /\ w.freezing = v.freezing /\ w.saved = w.entry
        /\ (w.used <=> v.used) /\ (w.replaced <=> v.replaced) /\ (w.killed <=> v.killed) /\ (w.cut <=> v.cut)
        /\ v.entry # NoRun /\ ~v.entry.ended
    BY <1>14 DEF Marked, SameHistory
  <2>1. Idle(v) /\ Idle(w) /\ v.entry.retries = 0
    BY <1>4, <2>0 DEF Settled, Sound, Idle
  <2>2. w.entry.retries = 0 /\ ~(w.entry.retries >= MaxRetries)
    BY <1>2, <2>1, <1>14 DEF Marked
  <2>3. Told(w) /\ Flowing(w)
    BY <1>4, <2>0, <2>1, <1>14 DEF Told, Flowing, Idle, Marked
  <2>4. Fits(w, w.entry)
    BY <1>4, <2>0, <2>1, <2>2, <1>14 DEF Fits, Sound, Marked
  <2> QED
    BY <2>0, <2>3, <2>4 DEF Good
<1>15. CASE Leaves(v, w)
  <2>1. Told(w)
    BY <1>4, <1>15 DEF Told, Idle, Leaves
  <2>2. Flowing(w)
    BY <1>15 DEF Flowing, Leaves
  <2>3. Fits(w, w.entry)
    BY <1>15 DEF Fits, Leaves
  <2>4. Fits(w, w.saved)
    BY <1>15 DEF Fits, Leaves
  <2> QED
    BY <2>1, <2>2, <2>3, <2>4 DEF Good
<1>16. CASE Enters(v, w)
  <2>0. /\ ~v.used /\ w.used /\ (w.replaced <=> v.replaced) /\ w.told = v.told /\ w.flow = "none"
        /\ w.freezing = 0 /\ ~w.steering /\ w.entry = NewEntry /\ w.saved = NewEntry
    BY <1>16 DEF Enters
  <2>1. /\ ~NewEntry.ended /\ ~NewEntry.handled /\ NewEntry.suppress = "none" /\ NewEntry.retries = 0
    BY DEF NewEntry
  <2>2. Idle(w) /\ ~w.replaced
    BY <1>4, <2>0 DEF Told, Idle
  <2>3. Told(w) /\ Flowing(w)
    BY <2>0, <2>1, <2>2 DEF Told, Flowing, Idle
  <2>4. Fits(w, NewEntry)
    BY <1>2, <2>0, <2>1, <2>2 DEF Fits, Sound
  <2> QED
    BY <2>0, <2>3, <2>4 DEF Good
<1>17. CASE Restored(v, w)
  <2>0. /\ w.told = v.told /\ w.freezing = 0 /\ ~w.steering /\ w.saved = w.entry
        /\ (w.used <=> v.used) /\ (w.replaced <=> v.replaced) /\ (w.killed <=> v.killed)
    BY <1>17 DEF Restored, SameHistory
  <2>1. CASE Begins(v.saved, w.entry) /\ w.flow = "announcing"
    <3>1. Idle(v) /\ v.used /\ ~v.replaced
      BY <1>4, <2>1 DEF Begins, Settled
    <3>2. Told(w) /\ Flowing(w)
      BY <2>0, <2>1, <3>1, <1>4 DEF Told, Flowing, Idle, Begins
    <3>3. Fits(w, w.entry)
      BY <1>4, <2>0, <2>1, <3>1 DEF Fits, Sound, Settled, Begins, Idle
    <3> QED
      BY <2>0, <3>2, <3>3 DEF Good
  <2>2. CASE /\ Left(v.saved, w.entry) /\ w.flow = "none"
             /\ w.entry # NoRun /\ ~w.entry.completed =>
                  w.entry.retries < MaxRetries /\ (w.entry.handled => w.cut)
    <3>1. Told(w)
      BY <1>4, <2>0, <2>2 DEF Told, Idle
    <3>2. Flowing(w)
      BY <2>0, <2>2 DEF Flowing
    <3>3. CASE w.entry # NoRun
      <4>1. Kept(v.saved, w.entry)
        BY <2>2, <3>3 DEF Left
      <4>2. w.entry.retries >= MaxRetries => w.entry.completed
        BY <1>2, <1>3, <2>2, <3>3
      <4>3. Sound(w, w.entry)
        BY <1>4, <2>2, <4>1, <4>2 DEF Sound, Kept
      <4> QED
        BY <1>4, <2>0, <2>2, <4>1, <4>3, <3>1, <3>2 DEF Good, Fits, Settled, Idle, Kept
    <3> QED
      BY <2>0, <3>1, <3>2, <3>3 DEF Good, Fits
  <2> QED
    BY <2>1, <2>2, <1>17 DEF Restored
<1> QED
  BY <1>5, <1>6, <1>7, <1>8, <1>9, <1>10, <1>11, <1>12, <1>13, <1>14, <1>15, <1>16, <1>17 DEF Step

-----------------------------------------------------------------------------
(* Each action is a step of each run *)

\* The types after an action, and what it does to each run.
Steps == TypeOK' /\ \A z \in RunIds : Step(View(z), View(z)')

LEMMA ViewLemma ==
  ASSUME NEW z
  PROVE  /\ View(z).entry = runs[z] /\ View(z).saved = disk[z]
         /\ View(z).flow = memory[z].flow /\ View(z).freezing = memory[z].freezing
         /\ View(z).steering = memory[z].steering /\ View(z).told = announced[z]
         /\ (View(z).used <=> z \in used) /\ (View(z).killed <=> z \in killed)
         /\ (View(z).replaced <=> z \in replaced) /\ (View(z).cut <=> z \in cut)
BY DEF View

LEMMA NextViewLemma ==
  ASSUME NEW z
  PROVE  /\ View(z)'.entry = runs'[z] /\ View(z)'.saved = disk'[z]
         /\ View(z)'.flow = memory'[z].flow /\ View(z)'.freezing = memory'[z].freezing
         /\ View(z)'.steering = memory'[z].steering /\ View(z)'.told = announced'[z]
         /\ (View(z)'.used <=> z \in used') /\ (View(z)'.killed <=> z \in killed')
         /\ (View(z)'.replaced <=> z \in replaced') /\ (View(z)'.cut <=> z \in cut')
BY DEF View

\* The sets of runs that a step does not move z into.
SameSets(z) ==
  /\ (z \in used' <=> z \in used) /\ (z \in replaced' <=> z \in replaced)
  /\ (z \in killed' <=> z \in killed) /\ (z \in cut' <=> z \in cut)

LEMMA VolatileLemma ==
  ASSUME NEW v \in Volatile
  PROVE  /\ v.freezing \in 0..MaxCaptures /\ v.freezing \in Nat /\ v.steering \in BOOLEAN
         /\ v.flow \in {"none", "announcing", "completing", "giving up"}
<1>1. v.freezing \in 0..MaxCaptures
  BY DEF Volatile
<1>2. v.freezing \in Nat
  BY <1>1, RegistryAssumption DEF RegistryAssumption
<1> QED
  BY <1>1, <1>2 DEF Volatile

LEMMA MemoryLemma ==
  ASSUME TypeOK, NEW z \in RunIds
  PROVE  memory[z] \in Volatile /\ memory[z].freezing \in Nat
<1>1. memory[z] \in Volatile
  BY DEF TypeOK
<1> QED
  BY <1>1, VolatileLemma

LEMMA BecomeLemma ==
  ASSUME TypeOK, NEW x \in RunIds, NEW e \in Entries, NEW v \in Volatile, Become(x, e, v)
  PROVE  /\ runs' \in [RunIds -> Entries] /\ memory' \in [RunIds -> Volatile]
         /\ runs'[x] = e /\ memory'[x] = v
         /\ \A z \in RunIds : z # x => runs'[z] = runs[z] /\ memory'[z] = memory[z]
BY DEF TypeOK, Become, Entries

\* What an update of an entry leaves alone.
LEMMA EntryLemma ==
  ASSUME NEW e \in Entry
  PROVE  /\ e # NoRun /\ e.retries \in 0..MaxRetries /\ e.retries \in Nat
         /\ e.suppress \in {"none", "steer-restart", "killed"}
         /\ e.ended \in BOOLEAN /\ e.handled \in BOOLEAN /\ e.completed \in BOOLEAN
<1>1. e # NoRun
  BY RegistryAssumption DEF RegistryAssumption
<1>2. e.retries \in 0..MaxRetries
  BY DEF Entry
<1>3. e.retries \in Nat
  BY <1>2, RegistryAssumption DEF RegistryAssumption
<1> QED
  BY <1>1, <1>2, <1>3 DEF Entry

LEMMA CompletedLemma ==
  ASSUME NEW e \in Entry
  PROVE  /\ [e EXCEPT !.completed = TRUE] \in Entry /\ [e EXCEPT !.completed = TRUE].completed
         /\ Kept(e, [e EXCEPT !.completed = TRUE])
<1> DEFINE f == [e EXCEPT !.completed = TRUE]
<1>1. /\ f \in Entry /\ f.completed /\ f.ended = e.ended /\ f.handled = e.handled
      /\ f.suppress = e.suppress /\ f.retries = e.retries
  BY DEF Entry
<1>2. e # NoRun /\ f # NoRun
  BY <1>1, EntryLemma
<1> HIDE DEF f
<1>3. Kept(e, f)
  BY <1>1, <1>2 DEF Kept
<1> QED
  BY <1>1, <1>3 DEF f

LEMMA HandledLemma ==
  ASSUME NEW e \in Entry
  PROVE  /\ [e EXCEPT !.handled = TRUE] \in Entry
         /\ e.ended /\ MayBegin(e) /\ e.suppress # "steer-restart" =>
              Begins(e, [e EXCEPT !.handled = TRUE])
<1> DEFINE f == [e EXCEPT !.handled = TRUE]
<1>1. /\ f \in Entry /\ f.handled /\ f.ended = e.ended /\ f.completed = e.completed
      /\ f.suppress = e.suppress /\ f.retries = e.retries
  BY DEF Entry
<1>2. e # NoRun /\ f # NoRun
  BY <1>1, EntryLemma
<1> HIDE DEF f
<1>3. e.ended /\ MayBegin(e) /\ e.suppress # "steer-restart" => Begins(e, f)
  BY <1>1, <1>2 DEF Begins, MayBegin
<1> QED
  BY <1>1, <1>3 DEF f

LEMMA KeptLemma ==
  ASSUME NEW e \in Entries
  PROVE  Left(e, e) /\ Left(e, NoRun) /\ NoRun \in Entries
BY DEF Left, Kept, Entries

\* What the process remembers of a run, but for its flow and its counters.
Minor(v, u) ==
  /\ u \in Volatile /\ u.freezing = v.freezing /\ u.steering = v.steering /\ u.flow = v.flow

LEMMA MinorLemma ==
  ASSUME NEW v \in Volatile, NEW b \in BOOLEAN, NEW t \in SUBSET {"plain", "clear"}
  PROVE  /\ Minor(v, v) /\ Minor(v, [v EXCEPT !.resumed = b])
         /\ Minor(v, [v EXCEPT !.grace = b]) /\ Minor(v, [v EXCEPT !.waiting = b])
         /\ Minor(v, [v EXCEPT !.timers = t])
<1>1. Minor(v, v)
  BY DEF Minor
<1>2. Minor(v, [v EXCEPT !.resumed = b])
  BY DEF Minor, Volatile
<1>3. Minor(v, [v EXCEPT !.grace = b])
  BY DEF Minor, Volatile
<1>4. Minor(v, [v EXCEPT !.waiting = b])
  BY DEF Minor, Volatile
<1>5. Minor(v, [v EXCEPT !.timers = t])
  BY DEF Minor, Volatile
<1> QED
  BY <1>1, <1>2, <1>3, <1>4, <1>5

\* Resuming a run deletes it, keeps it, completes it or begins to announce it;
\* what it leaves open has retries left.
Goes(e, v, r) ==
  /\ r.e \in Entries /\ r.v \in Volatile
  /\ r.v.freezing = v.freezing /\ r.v.steering = v.steering
  /\ \/ Left(e, r.e) /\ r.v.flow = v.flow
     \/ Begins(e, r.e) /\ r.v.flow = "announcing"

Spare(r) == r.e # NoRun /\ ~r.e.completed => r.e.retries < MaxRetries

LEMMA GoesLemma ==
  ASSUME NEW e, NEW f \in Entries, Left(e, f), NEW v, NEW u, Minor(v, u)
  PROVE  Goes(e, v, [e |-> f, v |-> u])
BY DEF Goes, Minor

LEMMA SpareLemma ==
  ASSUME NEW f, NEW u, f # NoRun /\ ~f.completed => f.retries < MaxRetries
  PROVE  Spare([e |-> f, v |-> u])
BY DEF Spare

LEMMA ResumedLemma ==
  ASSUME NEW x \in RunIds, NEW e \in Entries, NEW v \in Volatile
  PROVE  /\ Goes(e, v, Resumed(x, e, v))
         /\ ~v.resumed => Spare(Resumed(x, e, v))
<1> DEFINE r == Resumed(x, e, v)
           marked == [v EXCEPT !.resumed = TRUE]
<1>0. Minor(v, v) /\ Minor(v, marked) /\ Minor(v, [v EXCEPT !.resumed = FALSE])
  BY MinorLemma
<1>1. CASE v.resumed
  <2>1. r = [e |-> e, v |-> v]
    BY <1>1 DEF Resumed
  <2> HIDE DEF r
  <2> QED
    BY <1>0, <1>1, <2>1, KeptLemma, GoesLemma DEF r
<1>2. CASE e = NoRun
  <2>1. r = [e |-> e, v |-> v]
    BY <1>2 DEF Resumed
  <2> HIDE DEF r
  <2> QED
    BY <1>0, <1>2, <2>1, KeptLemma, GoesLemma, SpareLemma DEF r
<1>3. CASE ~v.resumed /\ e # NoRun
  <2>0. e \in Entry
    BY <1>3 DEF Entries
  <2> DEFINE closes == e.retries >= MaxRetries \/ (x \notin Expecting /\ e.ended /\ x \in expired)
  <2>1. CASE SessionOf[x] \notin sessions
    <3>1. r = [e |-> NoRun, v |-> [v EXCEPT !.resumed = FALSE]]
      BY <1>3, <2>1 DEF Resumed
    <3> HIDE DEF r
    <3> QED
      BY <1>0, <3>1, KeptLemma, GoesLemma, SpareLemma DEF r
  <2>2. CASE SessionOf[x] \in sessions /\ e.completed
    <3>1. r = [e |-> e, v |-> v]
      BY <1>3, <2>2 DEF Resumed
    <3> HIDE DEF r
    <3> QED
      BY <1>0, <2>2, <3>1, KeptLemma, GoesLemma, SpareLemma DEF r
  <2>3. CASE /\ SessionOf[x] \in sessions /\ ~e.completed /\ closes
    <3>1. r = [e |-> [e EXCEPT !.completed = TRUE], v |-> v]
      BY <1>3, <2>3 DEF Resumed
    <3> DEFINE f == [e EXCEPT !.completed = TRUE]
    <3>2. f \in Entries /\ Left(e, f) /\ f.completed
      BY <2>0, CompletedLemma DEF Left, Entries
    <3> HIDE DEF r, f
    <3>3. r = [e |-> f, v |-> v]
      BY <3>1 DEF f
    <3> QED
      BY <1>0, <3>2, <3>3, GoesLemma, SpareLemma DEF r
  <2>4. CASE /\ SessionOf[x] \in sessions /\ ~e.completed /\ ~closes
    <3>a. ~(e.retries >= MaxRetries) /\ ~(x \notin Expecting /\ e.ended /\ x \in expired)
      BY <2>4 DEF closes
    <3>b. SessionOf[x] \in sessions /\ ~e.completed
      BY <2>4
    <3>0. e.retries < MaxRetries
      BY <2>0, <3>a, EntryLemma, RegistryAssumption DEF RegistryAssumption
    <3>1. CASE x \in Expecting /\ e.cooling
      <4>1. r = [e |-> e, v |-> [marked EXCEPT !.timers = @ \union {"clear"}]]
        BY <1>3, <3>a, <3>b, <3>1 DEF Resumed
      <4>2. marked \in Volatile
        BY <1>0 DEF Minor
      <4> HIDE DEF marked
      <4>3. marked.timers \union {"clear"} \in SUBSET {"plain", "clear"}
        BY <4>2 DEF Volatile
      <4> DEFINE u == [marked EXCEPT !.timers = marked.timers \union {"clear"}]
      <4>4. Minor(marked, u)
        BY <4>2, <4>3, MinorLemma
      <4>5. r = [e |-> e, v |-> u]
        BY <4>1
      <4> HIDE DEF r, u
      <4>6. Minor(v, u)
        BY <1>0, <4>4 DEF Minor, marked
      <4> QED
        BY <3>0, <4>5, <4>6, KeptLemma, GoesLemma, SpareLemma DEF r
    <3>2. CASE ~(x \in Expecting /\ e.cooling) /\ ~e.ended
      <4>1. r = [e |-> e, v |-> [marked EXCEPT !.waiting = TRUE]]
        BY <1>3, <3>a, <3>b, <3>2 DEF Resumed
      <4>2. marked \in Volatile
        BY <1>0 DEF Minor
      <4> HIDE DEF marked
      <4> DEFINE u == [marked EXCEPT !.waiting = TRUE]
      <4>3. Minor(marked, u)
        BY <4>2, MinorLemma
      <4>4. r = [e |-> e, v |-> u]
        BY <4>1
      <4> HIDE DEF r, u
      <4>5. Minor(v, u)
        BY <1>0, <4>3 DEF Minor, marked
      <4> QED
        BY <3>0, <4>4, <4>5, KeptLemma, GoesLemma, SpareLemma DEF r
    <3>3. CASE ~(x \in Expecting /\ e.cooling) /\ e.ended /\ (e.suppress = "steer-restart" \/ ~MayBegin(e))
      <4>1. r \in {[e |-> e, v |-> marked], [e |-> e, v |-> v]}
        BY <1>3, <3>a, <3>b, <3>3 DEF Resumed
      <4> HIDE DEF r, marked
      <4> QED
        BY <1>0, <3>0, <4>1, KeptLemma, GoesLemma, SpareLemma DEF r
    <3>4. CASE ~(x \in Expecting /\ e.cooling) /\ e.ended /\ e.suppress # "steer-restart" /\ MayBegin(e)
      <4> DEFINE u == [v EXCEPT !.resumed = TRUE, !.flow = "announcing"]
                 f == [e EXCEPT !.handled = TRUE]
      <4>1. r = [e |-> f, v |-> u]
        BY <1>3, <3>a, <3>b, <3>4 DEF Resumed
      <4>2. u \in Volatile /\ u.freezing = v.freezing /\ u.steering = v.steering /\ u.flow = "announcing"
        BY DEF Volatile
      <4>3. f \in Entry /\ Begins(e, f)
        BY <2>0, <3>4, HandledLemma
      <4> HIDE DEF r, u, f
      <4>4. f.retries = e.retries
        BY <4>3 DEF Begins
      <4> QED
        BY <3>0, <4>1, <4>2, <4>3, <4>4 DEF Goes, Spare, Entries, r
    <3> QED
      BY <3>1, <3>2, <3>3, <3>4
  <2> HIDE DEF closes
  <2> QED
    BY <2>1, <2>2, <2>3, <2>4
<1> QED
  BY <1>1, <1>2, <1>3

\* The parts of the two views of a run that a step of its own leaves alone.
LEMMA SameLemma ==
  ASSUME NEW z \in RunIds, SameSets(z), announced'[z] = announced[z],
         memory'[z].freezing <= memory[z].freezing, memory'[z].steering => memory[z].steering
  PROVE  SameRun(View(z), View(z)') /\ View(z)'.told = View(z).told
<1>1. View(z)'.freezing <= View(z).freezing /\ View(z)'.told = View(z).told
  BY ViewLemma, NextViewLemma
<1>2. View(z)'.steering => View(z).steering
  BY ViewLemma, NextViewLemma
<1>3. (View(z)'.used <=> View(z).used) /\ (View(z)'.replaced <=> View(z).replaced)
  BY ViewLemma, NextViewLemma DEF SameSets
<1>4. (View(z)'.killed <=> View(z).killed) /\ (View(z)'.cut <=> View(z).cut)
  BY ViewLemma, NextViewLemma DEF SameSets
<1> DEFINE v == View(z)
           w == View(z)'
<1> HIDE DEF v, w
<1>5. SameRun(v, w)
  BY <1>1, <1>2, <1>3, <1>4 DEF SameRun, SameHistory, v, w
<1> QED
  BY <1>1, <1>5 DEF v, w

\* A run stays as it is, or its announcement begins.
LEMMA GoesOnLemma ==
  ASSUME NEW z \in RunIds, SameSets(z), announced'[z] = announced[z],
         memory'[z].freezing <= memory[z].freezing, memory'[z].steering => memory[z].steering,
         \/ /\ Left(runs[z], runs'[z]) /\ memory'[z].flow = memory[z].flow
            /\ disk'[z] = runs'[z] \/ Left(disk[z], disk'[z])
         \/ /\ Begins(runs[z], runs'[z]) /\ memory'[z].flow = "announcing"
            /\ disk'[z] = runs'[z]
  PROVE  Step(View(z), View(z)')
<1> DEFINE v == View(z)
           w == View(z)'
<1>1. SameRun(v, w) /\ w.told = v.told
  BY SameLemma
<1>2. /\ v.entry = runs[z] /\ v.saved = disk[z] /\ v.flow = memory[z].flow
      /\ w.entry = runs'[z] /\ w.saved = disk'[z] /\ w.flow = memory'[z].flow
  BY ViewLemma, NextViewLemma
<1> HIDE DEF v, w
<1>3. Stays(v, w) \/ Starts(v, w)
  BY <1>1, <1>2 DEF Stays, Starts
<1>4. Step(v, w)
  BY <1>3 DEF Step
<1> QED
  BY <1>4 DEF v, w

LEMMA LeqLemma ==
  ASSUME NEW n \in Nat
  PROVE  n <= n
OBVIOUS

LEMMA AloneLemma ==
  ASSUME TypeOK, NEW z \in RunIds, SameSets(z), announced'[z] = announced[z],
         runs'[z] = runs[z], disk'[z] \in {disk[z], runs[z]}, Minor(memory[z], memory'[z])
  PROVE  Step(View(z), View(z)')
<1>1. Left(runs[z], runs[z]) /\ Left(disk[z], disk[z])
  BY DEF Left, Kept
<1>2. memory'[z].freezing <= memory[z].freezing
  BY MemoryLemma, LeqLemma DEF Minor
<1>3. memory'[z].steering => memory[z].steering
  BY DEF Minor
<1>4. memory'[z].flow = memory[z].flow
  BY DEF Minor
<1> QED
  BY <1>1, <1>2, <1>3, <1>4, GoesOnLemma

\* What goes on with the entry and the memory that resuming it has left.
LEMMA GoneLemma ==
  ASSUME TypeOK, NEW z \in RunIds, SameSets(z), announced'[z] = announced[z],
         NEW r, Goes(runs[z], memory[z], r), runs'[z] = r.e, memory'[z] = r.v,
         \/ disk'[z] = runs'[z]
         \/ runs'[z] = runs[z] /\ disk'[z] = disk[z]
  PROVE  Step(View(z), View(z)')
<1>1. memory'[z].freezing <= memory[z].freezing
  BY MemoryLemma, LeqLemma DEF Goes
<1>2. memory'[z].steering => memory[z].steering
  BY DEF Goes
<1>3. Left(disk[z], disk[z])
  BY DEF Left, Kept
<1>4. CASE Left(runs[z], r.e) /\ r.v.flow = memory[z].flow
  BY <1>1, <1>2, <1>3, <1>4, GoesOnLemma
<1>5. CASE Begins(runs[z], r.e) /\ r.v.flow = "announcing"
  <2>1. runs'[z] # runs[z]
    BY <1>5 DEF Begins
  <2> QED
    BY <1>1, <1>2, <1>5, <2>1, GoesOnLemma
<1> QED
  BY <1>4, <1>5 DEF Goes

\* The types when only the registry has changed.
LEMMA TypeLemma ==
  ASSUME TypeOK, runs' \in [RunIds -> Entries], memory' \in [RunIds -> Volatile],
         disk' \in [RunIds -> Entries], UNCHANGED <<world, history>>
  PROVE  TypeOK' /\ announced' = announced /\ \A z \in RunIds : SameSets(z)
BY DEF TypeOK, Entries, world, history, SameSets

LEMMA FlowEndsLemma ==
  ASSUME NEW v \in Volatile, NEW flow \in {"none", "announcing", "completing", "giving up"}
  PROVE  /\ [v EXCEPT !.flow = flow] \in Volatile
         /\ [v EXCEPT !.flow = flow].flow = flow
         /\ [v EXCEPT !.flow = flow].freezing = v.freezing
         /\ [v EXCEPT !.flow = flow].steering = v.steering
BY DEF Volatile

LEMMA RetriedLemma ==
  ASSUME NEW x \in RunIds, NEW e \in Entry, NEW v \in Volatile
  PROVE  Goes(e, v, Retried(x, e, v))
<1> DEFINE u == [v EXCEPT !.resumed = FALSE]
<1>1. Minor(v, v) /\ Minor(v, u)
  BY MinorLemma
<1>2. e \in Entries
  BY DEF Entries
<1> HIDE DEF u
<1>3. CASE x \notin Expecting /\ x \in expired
  <2> DEFINE f == [e EXCEPT !.completed = TRUE]
  <2>1. f \in Entries /\ Left(e, f)
    BY CompletedLemma DEF Left, Entries
  <2>2. Retried(x, e, v) = [e |-> f, v |-> v]
    BY <1>3 DEF Retried
  <2> HIDE DEF f
  <2> QED
    BY <1>1, <2>1, <2>2, GoesLemma
<1>4. CASE ~(x \notin Expecting /\ x \in expired)
  <2>1. Retried(x, e, v) = Resumed(x, e, u)
    BY <1>4 DEF Retried, u
  <2>2. Goes(e, u, Resumed(x, e, u))
    BY <1>1, <1>2, ResumedLemma DEF Minor
  <2> QED
    BY <1>1, <2>1, <2>2 DEF Goes, Minor
<1> QED
  BY <1>3, <1>4

LEMMA SettleLemma ==
  ASSUME TypeOK, NEW x \in RunIds, NEW e \in Entries, NEW v \in Volatile,
         SettleAndRetryOthers(x, e, v), UNCHANGED <<world, history>>
  PROVE  /\ TypeOK' /\ runs'[x] = e /\ memory'[x] = v /\ disk'[x] = e
         /\ announced' = announced /\ SameSets(x)
         /\ \A z \in RunIds : z # x => Step(View(z), View(z)')
<1> DEFINE other(y) == IF Deferred(runs[y]) THEN Retried(y, runs[y], memory[y])
                       ELSE [e |-> runs[y], v |-> memory[y]]
<1>1. /\ runs' = [y \in RunIds |-> IF y = x THEN e ELSE other(y).e]
      /\ memory' = [y \in RunIds |-> IF y = x THEN v ELSE other(y).v]
      /\ disk' = runs'
  BY DEF SettleAndRetryOthers, Persist
<1>2. ASSUME NEW y \in RunIds
      PROVE  Goes(runs[y], memory[y], other(y))
  <2>1. runs[y] \in Entries /\ memory[y] \in Volatile /\ Left(runs[y], runs[y]) /\ Minor(memory[y], memory[y])
    BY MemoryLemma, KeptLemma, MinorLemma DEF TypeOK, Entries
  <2>2. CASE Deferred(runs[y])
    BY <2>1, <2>2, RetriedLemma DEF Deferred, Entries
  <2>3. CASE ~Deferred(runs[y])
    BY <2>1, <2>3, GoesLemma
  <2> QED
    BY <2>2, <2>3
<1>3. \A y \in RunIds : other(y).e \in Entries /\ other(y).v \in Volatile
  BY <1>2 DEF Goes
<1> HIDE DEF other
<1>4. runs' \in [RunIds -> Entries] /\ memory' \in [RunIds -> Volatile] /\ disk' \in [RunIds -> Entries]
  BY <1>1, <1>3
<1>5. TypeOK' /\ announced' = announced /\ \A z \in RunIds : SameSets(z)
  BY <1>4, TypeLemma
<1>6. ASSUME NEW z \in RunIds, z # x
      PROVE  Step(View(z), View(z)')
  <2>1. runs'[z] = other(z).e /\ memory'[z] = other(z).v /\ disk'[z] = runs'[z] /\ announced'[z] = announced[z]
    BY <1>1, <1>5, <1>6
  <2> QED
    BY <1>2, <1>5, <2>1, GoneLemma
<1> QED
  BY <1>1, <1>5, <1>6

\* A run whose memory a step leaves alone as well.
LEMMA OtherLemma ==
  ASSUME TypeOK, NEW z \in RunIds, SameSets(z), announced'[z] = announced[z],
         runs'[z] = runs[z], memory'[z] = memory[z], disk'[z] \in {disk[z], runs[z]}
  PROVE  Step(View(z), View(z)')
<1>1. Minor(memory[z], memory'[z])
  BY MemoryLemma DEF Minor
<1> QED
  BY <1>1, AloneLemma

\* When a step changes the entry of x only, the others are left alone.
LEMMA OthersLemma ==
  ASSUME TypeOK, NEW x \in RunIds, NEW e \in Entries, NEW v \in Volatile, Become(x, e, v),
         disk' \in {disk, runs, runs'}, \A z \in RunIds : SameSets(z), announced' = announced
  PROVE  \A z \in RunIds : z # x => Step(View(z), View(z)')
<1> TAKE z \in RunIds
<1> HAVE z # x
<1>1. runs'[z] = runs[z] /\ memory'[z] = memory[z] /\ announced'[z] = announced[z]
  BY BecomeLemma
<1>2. disk'[z] \in {disk[z], runs[z]}
  BY <1>1
<1> QED
  BY <1>1, <1>2, OtherLemma

LEMMA RunLemma ==
  ASSUME TypeOK, NEW x \in RunIds
  PROVE  /\ runs[x] \in Entries /\ disk[x] \in Entries /\ memory[x] \in Volatile
         /\ Known(x) <=> runs[x] \in Entry
         /\ Minor(memory[x], memory[x]) /\ Left(runs[x], runs[x]) /\ Left(disk[x], disk[x])
<1>1. runs[x] \in Entries /\ disk[x] \in Entries /\ memory[x] \in Volatile
  BY DEF TypeOK, Entries
<1>2. Known(x) <=> runs[x] \in Entry
  BY <1>1, RegistryAssumption DEF RegistryAssumption, Known, Entries
<1>3. Minor(memory[x], memory[x]) /\ Left(runs[x], runs[x]) /\ Left(disk[x], disk[x])
  BY <1>1 DEF Minor, Left, Kept
<1> QED
  BY <1>1, <1>2, <1>3

LEMMA RetryTimerStep ==
  ASSUME TypeOK, NEW x \in RunIds, NEW kind \in {"plain", "clear"}, RetryTimer(x, kind)
  PROVE  Steps
<1> DEFINE m == memory[x]
           u == [m EXCEPT !.timers = @ \ {kind}, !.resumed = IF kind = "clear" THEN FALSE ELSE @]
           r == Resumed(x, runs[x], u)
<1>1. m \in Volatile /\ runs[x] \in Entries
  BY RunLemma
<1>2. Minor(m, u)
  BY <1>1 DEF Minor, Volatile
<1>3. Resume(x, runs[x], u) /\ UNCHANGED <<world, history>>
  BY DEF RetryTimer
<1> HIDE DEF m, u
<1>4. u \in Volatile
  BY <1>2 DEF Minor
<1>5. Goes(runs[x], u, r)
  BY <1>1, <1>4, ResumedLemma
<1>6. Become(x, r.e, r.v) /\ disk' = IF runs' = runs THEN disk ELSE runs'
  BY <1>3 DEF Resume, PersistIfChanged
<1> HIDE DEF r
<1>7. Goes(runs[x], memory[x], r) /\ r.e \in Entries /\ r.v \in Volatile
  BY <1>2, <1>5 DEF Goes, Minor, m
<1>8. /\ runs' \in [RunIds -> Entries] /\ memory' \in [RunIds -> Volatile]
      /\ runs'[x] = r.e /\ memory'[x] = r.v
  BY <1>6, <1>7, BecomeLemma
<1>9. disk' \in [RunIds -> Entries]
  BY <1>6, <1>8 DEF TypeOK, Entries
<1>10. TypeOK' /\ announced' = announced /\ \A z \in RunIds : SameSets(z)
  BY <1>3, <1>8, <1>9, TypeLemma
<1>11. \A z \in RunIds : z # x => Step(View(z), View(z)')
  BY <1>6, <1>7, <1>10, OthersLemma
<1>12. disk'[x] = runs'[x] \/ (runs'[x] = runs[x] /\ disk'[x] = disk[x])
  BY <1>6
<1>13. Step(View(x), View(x)')
  BY <1>7, <1>8, <1>10, <1>12, GoneLemma
<1> QED
  BY <1>10, <1>11, <1>13 DEF Steps

\* The end of a flow that has reported.
LEMMA ClosesLemma ==
  ASSUME TypeOK, NEW z \in RunIds, SameSets(z), announced'[z] = announced[z],
         memory[z].flow \in {"completing", "giving up"}, memory'[z].flow = "none",
         memory'[z].freezing = memory[z].freezing, memory'[z].steering = memory[z].steering,
         Left(runs[z], runs'[z]), runs'[z] # NoRun => runs'[z].completed, disk'[z] = runs'[z]
  PROVE  Step(View(z), View(z)')
<1> DEFINE v == View(z)
           w == View(z)'
<1>1. memory'[z].freezing <= memory[z].freezing
  BY MemoryLemma, LeqLemma
<1>2. SameRun(v, w) /\ w.told = v.told
  BY <1>1, SameLemma
<1>3. /\ v.entry = runs[z] /\ v.saved = disk[z] /\ v.flow = memory[z].flow
      /\ w.entry = runs'[z] /\ w.saved = disk'[z] /\ w.flow = memory'[z].flow
  BY ViewLemma, NextViewLemma
<1> HIDE DEF v, w
<1>4. Closes(v, w)
  BY <1>2, <1>3 DEF Closes
<1>5. Step(v, w)
  BY <1>4 DEF Step
<1> QED
  BY <1>5 DEF v, w

LEMMA CompleteCleanupStep ==
  ASSUME TypeOK, NEW x \in RunIds, CompleteCleanup(x)
  PROVE  Steps
<1> DEFINE e == IF x \in Deleting \/ ~Known(x) THEN NoRun ELSE [runs[x] EXCEPT !.completed = TRUE]
           m == memory[x]
           u == [m EXCEPT !.flow = "none", !.grace = IF x \in Deleting THEN FALSE ELSE @]
<1>1. m \in Volatile
  BY RunLemma
<1>2. u \in Volatile /\ u.flow = "none" /\ u.freezing = m.freezing /\ u.steering = m.steering
  BY <1>1 DEF Volatile
<1>3. e \in Entries /\ Left(runs[x], e) /\ (e # NoRun => e.completed)
  BY RunLemma, CompletedLemma DEF Left, Entries
<1>4. SettleAndRetryOthers(x, e, u) /\ UNCHANGED <<world, history>> /\ m.flow = "completing"
  BY DEF CompleteCleanup
<1> HIDE DEF e, u
<1>5. /\ TypeOK' /\ runs'[x] = e /\ memory'[x] = u /\ disk'[x] = e
      /\ announced' = announced /\ SameSets(x)
      /\ \A z \in RunIds : z # x => Step(View(z), View(z)')
  BY <1>2, <1>3, <1>4, SettleLemma
<1>6. Step(View(x), View(x)')
  BY <1>2, <1>3, <1>4, <1>5, ClosesLemma DEF m
<1> QED
  BY <1>5, <1>6 DEF Steps

LEMMA GiveUpStep ==
  ASSUME TypeOK, NEW x \in RunIds, GiveUp(x)
  PROVE  Steps
<1> DEFINE e == IF Known(x) THEN [runs[x] EXCEPT !.completed = TRUE] ELSE NoRun
           m == memory[x]
           u == [m EXCEPT !.flow = "none"]
<1>1. m \in Volatile
  BY RunLemma
<1>2. u \in Volatile /\ u.flow = "none" /\ u.freezing = m.freezing /\ u.steering = m.steering
  BY <1>1, FlowEndsLemma
<1>3. e \in Entries /\ Left(runs[x], e) /\ (e # NoRun => e.completed)
  BY RunLemma, CompletedLemma DEF Left, Entries
<1>4. SettleAndRetryOthers(x, e, u) /\ UNCHANGED <<world, history>> /\ m.flow = "giving up"
  BY DEF GiveUp
<1> HIDE DEF e, u
<1>5. /\ TypeOK' /\ runs'[x] = e /\ memory'[x] = u /\ disk'[x] = e
      /\ announced' = announced /\ SameSets(x)
      /\ \A z \in RunIds : z # x => Step(View(z), View(z)')
  BY <1>2, <1>3, <1>4, SettleLemma
<1>6. Step(View(x), View(x)')
  BY <1>2, <1>3, <1>4, <1>5, ClosesLemma DEF m
<1> QED
  BY <1>5, <1>6 DEF Steps

LEMMA TroubleLemma ==
  ASSUME TypeOK, Trouble
  PROVE  troubles' \in 0..MaxTroubles
<1>1. MaxTroubles \in Nat /\ troubles \in 0..MaxTroubles
  BY RegistryAssumption DEF RegistryAssumption, TypeOK
<1> QED
  BY <1>1 DEF Trouble

\* A step that changes no entry, and of what is remembered of x a minor part.
LEMMA MemoryStep ==
  ASSUME TypeOK, NEW x \in RunIds, NEW v, Minor(memory[x], v),
         memory' = [memory EXCEPT ![x] = v], runs' = runs, disk' \in {disk, runs},
         child' \in [RunIds -> {"none", "running", "over", "dead"}],
         troubles' \in 0..MaxTroubles, UNCHANGED <<used, sessions, expired, sweeping, history>>
  PROVE  Steps
<1>1. memory' \in [RunIds -> Volatile]
  BY DEF TypeOK, Minor
<1>2. TypeOK' /\ announced' = announced /\ \A z \in RunIds : SameSets(z)
  BY <1>1 DEF TypeOK, history, SameSets
<1>3. ASSUME NEW z \in RunIds
      PROVE  Step(View(z), View(z)')
  <2>1. Minor(memory[z], memory'[z])
    BY RunLemma DEF TypeOK
  <2>2. runs'[z] = runs[z] /\ disk'[z] \in {disk[z], runs[z]} /\ announced'[z] = announced[z]
    BY <1>2
  <2> QED
    BY <1>2, <2>1, <2>2, AloneLemma
<1> QED
  BY <1>2, <1>3 DEF Steps

LEMMA LifecycleErrorStep ==
  ASSUME TypeOK, NEW x \in RunIds, LifecycleError(x)
  PROVE  Steps
<1>1. memory[x] \in Volatile /\ Minor(memory[x], memory[x])
  BY RunLemma
<1>2. Minor(memory[x], [memory[x] EXCEPT !.grace = TRUE])
  BY <1>1, MinorLemma
<1>3. PICK v : Minor(memory[x], v) /\ memory' = [memory EXCEPT ![x] = v]
  <2>1. CASE Known(x)
    BY <1>2, <2>1 DEF LifecycleError
  <2>2. CASE ~Known(x)
    <3>1. memory' = [memory EXCEPT ![x] = memory[x]]
      BY <2>2 DEF LifecycleError, TypeOK
    <3> QED
      BY <1>1, <3>1
  <2> QED
    BY <2>1, <2>2
<1>4. troubles' \in 0..MaxTroubles
  BY TroubleLemma DEF LifecycleError
<1>5. child' \in [RunIds -> {"none", "running", "over", "dead"}]
  BY DEF LifecycleError, TypeOK
<1>6. runs' = runs /\ disk' = disk /\ UNCHANGED <<used, sessions, expired, sweeping, history>>
  BY DEF LifecycleError
<1> QED
  BY <1>3, <1>4, <1>5, <1>6, MemoryStep

LEMMA LifecycleStartStep ==
  ASSUME TypeOK, NEW x \in RunIds, LifecycleStart(x)
  PROVE  Steps
<1>1. Minor(memory[x], [memory[x] EXCEPT !.grace = FALSE])
  BY RunLemma, MinorLemma
<1>2. memory' = [memory EXCEPT ![x] = [memory[x] EXCEPT !.grace = FALSE]]
  BY DEF LifecycleStart
<1>3. /\ runs' = runs /\ disk' = runs /\ UNCHANGED <<used, sessions, expired, sweeping, history>>
      /\ child' = child /\ troubles' = troubles
  BY DEF LifecycleStart, world
<1>4. child' \in [RunIds -> {"none", "running", "over", "dead"}] /\ troubles' \in 0..MaxTroubles
  BY <1>3 DEF TypeOK
<1> QED
  BY <1>1, <1>2, <1>3, <1>4, MemoryStep

LEMMA WaitFailsStep ==
  ASSUME TypeOK, NEW x \in RunIds, WaitFails(x)
  PROVE  Steps
<1>1. Minor(memory[x], [memory[x] EXCEPT !.waiting = FALSE])
  BY RunLemma, MinorLemma
<1>2. memory' = [memory EXCEPT ![x] = [memory[x] EXCEPT !.waiting = FALSE]]
  BY DEF WaitFails
<1>3. runs' = runs /\ disk' = disk /\ UNCHANGED <<used, sessions, expired, sweeping, history>> /\ child' = child
  BY DEF WaitFails
<1>4. child' \in [RunIds -> {"none", "running", "over", "dead"}] /\ troubles' \in 0..MaxTroubles
  BY <1>3, TroubleLemma DEF TypeOK, WaitFails
<1> QED
  BY <1>1, <1>2, <1>3, <1>4, MemoryStep

LEMMA ExpiresStep ==
  ASSUME TypeOK, NEW x \in RunIds, Expires(x)
  PROVE  Steps
<1>1. TypeOK' /\ \A z \in RunIds : SameSets(z)
  BY DEF TypeOK, Expires, registry, history, SameSets
<1>2. runs' = runs /\ memory' = memory /\ disk' = disk /\ announced' = announced
  BY DEF Expires, registry, history
<1> QED
  BY <1>1, <1>2, OtherLemma DEF Steps

LEMMA SweepDoneStep ==
  ASSUME TypeOK, SweepDone
  PROVE  Steps
<1>1. TypeOK' /\ \A z \in RunIds : SameSets(z)
  BY DEF TypeOK, SweepDone, history, SameSets
<1>2. runs' = runs /\ memory' = memory /\ disk' = runs /\ announced' = announced
  BY DEF SweepDone, history
<1> QED
  BY <1>1, <1>2, OtherLemma DEF Steps

LEMMA CooledLemma ==
  ASSUME NEW e \in Entry
  PROVE  [e EXCEPT !.cooling = FALSE] \in Entry /\ Left(e, [e EXCEPT !.cooling = FALSE])
<1> DEFINE f == [e EXCEPT !.cooling = FALSE]
<1>1. /\ f \in Entry /\ f.handled = e.handled /\ f.ended = e.ended /\ f.completed = e.completed
      /\ f.suppress = e.suppress /\ f.retries = e.retries
  BY DEF Entry
<1>2. e # NoRun /\ f # NoRun
  BY <1>1, EntryLemma
<1> HIDE DEF f
<1>3. Left(e, f)
  BY <1>1, <1>2 DEF Left, Kept
<1> QED
  BY <1>1, <1>3 DEF f

LEMMA BackoffOverStep ==
  ASSUME TypeOK, NEW x \in RunIds, BackoffOver(x)
  PROVE  Steps
<1>1. runs[x] \in Entry /\ disk[x] \in Entries /\ (disk[x] # NoRun => disk[x] \in Entry)
  BY RunLemma DEF BackoffOver, Entries
<1>2. /\ runs' = [runs EXCEPT ![x] = [runs[x] EXCEPT !.cooling = FALSE]]
      /\ disk' = IF disk[x] = NoRun THEN disk ELSE [disk EXCEPT ![x] = [disk[x] EXCEPT !.cooling = FALSE]]
      /\ memory' = memory /\ UNCHANGED <<world, history>>
  BY DEF BackoffOver
<1>3. Left(disk[x], disk'[x]) /\ disk' \in [RunIds -> Entries] /\ \A z \in RunIds : z # x => disk'[z] = disk[z]
  <2>1. CASE disk[x] = NoRun
    BY <1>2, <2>1, KeptLemma DEF TypeOK, Entries
  <2>2. CASE disk[x] # NoRun
    <3> DEFINE f == [disk[x] EXCEPT !.cooling = FALSE]
    <3>1. f \in Entry /\ Left(disk[x], f)
      BY <1>1, <2>2, CooledLemma
    <3>2. disk' = [disk EXCEPT ![x] = f]
      BY <1>2, <2>2
    <3> HIDE DEF f
    <3> QED
      BY <3>1, <3>2 DEF TypeOK, Entries
  <2> QED
    BY <2>1, <2>2
<1>4. Left(runs[x], runs'[x]) /\ runs' \in [RunIds -> Entries] /\ \A z \in RunIds : z # x => runs'[z] = runs[z]
  <2> DEFINE f == [runs[x] EXCEPT !.cooling = FALSE]
  <2>1. f \in Entry /\ Left(runs[x], f)
    BY <1>1, CooledLemma
  <2>2. runs' = [runs EXCEPT ![x] = f]
    BY <1>2
  <2> HIDE DEF f
  <2> QED
    BY <2>1, <2>2 DEF TypeOK, Entries
<1>5. memory' \in [RunIds -> Volatile]
  BY <1>2 DEF TypeOK
<1>6. TypeOK' /\ announced' = announced /\ \A z \in RunIds : SameSets(z)
  BY <1>2, <1>3, <1>4, <1>5, TypeLemma
<1>7. ASSUME NEW z \in RunIds, z # x
      PROVE  Step(View(z), View(z)')
  BY <1>2, <1>3, <1>4, <1>6, <1>7, OtherLemma
<1>8. Step(View(x), View(x)')
  <2>1. memory'[x].freezing <= memory[x].freezing /\ (memory'[x].steering => memory[x].steering)
    BY <1>2, MemoryLemma, LeqLemma
  <2> QED
    BY <1>2, <1>3, <1>4, <1>6, <2>1, GoesOnLemma
<1> QED
  BY <1>6, <1>7, <1>8 DEF Steps

LEMMA SweepStep ==
  ASSUME TypeOK, NEW x \in RunIds, Sweep(x)
  PROVE  Steps
<1> DEFINE u == [memory[x] EXCEPT !.grace = FALSE]
<1>0. NoRun \in Entries
  BY DEF Entries
<1>1. Minor(memory[x], u)
  BY RunLemma, MinorLemma
<1>2. Become(x, NoRun, u) /\ disk' = disk /\ UNCHANGED <<child, used, expired, history>>
  BY DEF Sweep
<1>3. sessions' \in SUBSET Sessions /\ sweeping' \in BOOLEAN /\ troubles' \in 0..MaxTroubles
  BY TroubleLemma DEF Sweep, TypeOK
<1> HIDE DEF u
<1>4. /\ runs' \in [RunIds -> Entries] /\ memory' \in [RunIds -> Volatile]
      /\ runs'[x] = NoRun /\ memory'[x] = u
  BY <1>0, <1>1, <1>2, BecomeLemma DEF Minor
<1>5. TypeOK' /\ announced' = announced /\ \A z \in RunIds : SameSets(z)
  BY <1>2, <1>3, <1>4 DEF TypeOK, Entries, history, SameSets
<1>6. \A z \in RunIds : z # x => Step(View(z), View(z)')
  BY <1>0, <1>1, <1>2, <1>5, OthersLemma DEF Minor
<1>7. Step(View(x), View(x)')
  <2>1. memory'[x].freezing <= memory[x].freezing /\ (memory'[x].steering => memory[x].steering)
    BY <1>1, <1>4, MemoryLemma, LeqLemma DEF Minor
  <2>2. Left(runs[x], runs'[x]) /\ Left(disk[x], disk'[x]) /\ memory'[x].flow = memory[x].flow
    BY <1>1, <1>2, <1>4, RunLemma DEF Left, Minor
  <2> QED
    BY <1>5, <2>1, <2>2, GoesOnLemma
<1> QED
  BY <1>5, <1>6, <1>7 DEF Steps

\* What the invariant says of a run, in the words of the module.
LEMMA InvLemma ==
  ASSUME IInv, NEW z \in RunIds
  PROVE  /\ TypeOK
         /\ Known(z) /\ memory[z].freezing > 0 => runs[z].ended
         /\ Known(z) /\ memory[z].flow = "announcing" => ~(runs[z].retries >= MaxRetries)
         /\ Known(z) \/ memory[z].flow # "none" \/ memory[z].steering => z \in used
<1>1. Good(View(z))
  BY DEF IInv
<1> DEFINE v == View(z)
<1>2. /\ v.entry = runs[z] /\ v.flow = memory[z].flow /\ v.freezing = memory[z].freezing
  BY ViewLemma
<1>3. (v.steering <=> memory[z].steering) /\ (v.used <=> z \in used)
  BY ViewLemma
<1> HIDE DEF v
<1>4. Known(z) /\ memory[z].freezing > 0 => runs[z].ended
  BY <1>1, <1>2 DEF Good, Flowing, Known, v
<1>5. Known(z) /\ memory[z].flow = "announcing" => ~(runs[z].retries >= MaxRetries)
  BY <1>1, <1>2 DEF Good, Fits, Sound, Known, v
<1>6. ~v.used => v.entry = NoRun /\ v.flow = "none" /\ ~v.steering
  BY <1>1 DEF Good, Fits, Told, Idle, v
<1>7. Known(z) \/ memory[z].flow # "none" \/ memory[z].steering => z \in used
  BY <1>2, <1>3, <1>6 DEF Known
<1> QED
  BY <1>4, <1>5, <1>7 DEF IInv

\* The end of a run that has been reported.
LEMMA CompletesLemma ==
  ASSUME NEW z \in RunIds, SameSets(z), announced'[z] = announced[z], z \in used,
         memory'[z].flow = memory[z].flow, memory'[z].steering = memory[z].steering,
         Ended(runs[z], runs'[z]) \/ Lifted(runs[z], runs'[z]),
         disk'[z] = disk[z] \/ Ended(runs[z], disk'[z])
  PROVE  Step(View(z), View(z)')
<1> DEFINE v == View(z)
           w == View(z)'
<1>1. /\ v.entry = runs[z] /\ v.saved = disk[z] /\ v.flow = memory[z].flow /\ v.told = announced[z]
      /\ w.entry = runs'[z] /\ w.saved = disk'[z] /\ w.flow = memory'[z].flow /\ w.told = announced'[z]
  BY ViewLemma, NextViewLemma
<1>2. w.steering = v.steering
  BY ViewLemma, NextViewLemma
<1>3. (w.used <=> v.used) /\ (w.replaced <=> v.replaced) /\ v.used
  BY ViewLemma, NextViewLemma DEF SameSets
<1>4. (w.killed <=> v.killed) /\ (w.cut <=> v.cut)
  BY ViewLemma, NextViewLemma DEF SameSets
<1> HIDE DEF v, w
<1>5. Completes(v, w)
  BY <1>1, <1>2, <1>3, <1>4 DEF Completes, SameHistory
<1>6. Step(v, w)
  BY <1>5 DEF Step
<1> QED
  BY <1>6 DEF v, w

LEMMA CompletingLemma ==
  ASSUME NEW e \in Entry, NEW reason \in {"complete", "error"}
  PROVE  /\ Completing(e, reason) \in Entry
         /\ Ended(e, Completing(e, reason)) \/ Lifted(e, Completing(e, reason))
<1> DEFINE lift == reason = "complete" /\ e.suppress = "killed"
           f == Completing(e, reason)
<1>1. f = [e EXCEPT !.ended = TRUE, !.reason = reason, !.suppress = IF lift THEN "none" ELSE @,
                    !.handled = @ /\ ~lift, !.completed = @ /\ ~lift]
  BY DEF Completing
<1> HIDE DEF f
<1>2. CASE lift
  <2>1. f = [e EXCEPT !.ended = TRUE, !.reason = reason, !.suppress = "none",
                      !.handled = FALSE, !.completed = FALSE]
    BY <1>1, <1>2
  <2>2. /\ f \in Entry /\ f.ended /\ f.suppress = "none" /\ ~f.handled /\ ~f.completed
        /\ f.retries = e.retries
    BY <2>1 DEF Entry
  <2>3. e # NoRun /\ f # NoRun
    BY <2>2, EntryLemma
  <2>4. Lifted(e, f)
    BY <1>2, <2>2, <2>3 DEF Lifted
  <2> QED
    BY <2>2, <2>4 DEF f
<1>3. CASE ~lift
  <2>0. e.handled \in BOOLEAN /\ e.completed \in BOOLEAN
    BY DEF Entry
  <2>1. f = [e EXCEPT !.ended = TRUE, !.reason = reason]
    BY <1>1, <1>3, <2>0 DEF Entry
  <2>2. /\ f \in Entry /\ f.ended /\ f.suppress = e.suppress /\ f.handled = e.handled
        /\ f.completed = e.completed /\ f.retries = e.retries
    BY <2>1 DEF Entry
  <2>3. e # NoRun /\ f # NoRun
    BY <2>2, EntryLemma
  <2>4. Ended(e, f)
    BY <2>2, <2>3 DEF Ended
  <2> QED
    BY <2>2, <2>4 DEF f
<1> QED
  BY <1>2, <1>3

LEMMA BeginCompletionLemma ==
  ASSUME TypeOK, NEW x \in RunIds, NEW reason \in {"complete", "error"}, NEW u,
         Minor(memory[x], u), Known(x), BeginCompletion(x, reason, u)
  PROVE  /\ runs' \in [RunIds -> Entries] /\ memory' \in [RunIds -> Volatile]
         /\ Ended(runs[x], runs'[x]) \/ Lifted(runs[x], runs'[x])
         /\ memory'[x].flow = memory[x].flow /\ memory'[x].steering = memory[x].steering
         /\ \A z \in RunIds : z # x => runs'[z] = runs[z] /\ memory'[z] = memory[z]
<1> DEFINE e == Completing(runs[x], reason)
           w == [u EXCEPT !.grace = FALSE, !.freezing = @ + 1]
<1>1. runs[x] \in Entry /\ u \in Volatile
  BY RunLemma DEF Minor
<1>2. e \in Entries /\ (Ended(runs[x], e) \/ Lifted(runs[x], e))
  BY <1>1, CompletingLemma DEF Entries
<1>3. u.freezing < MaxCaptures /\ Become(x, e, w)
  BY DEF BeginCompletion
<1>4. u.freezing + 1 \in 0..MaxCaptures
  <2>1. u.freezing \in 0..MaxCaptures /\ MaxCaptures \in Nat
    BY <1>1, VolatileLemma, RegistryAssumption DEF RegistryAssumption
  <2>2. u.freezing < MaxCaptures
    BY <1>3
  <2> QED
    BY <2>1, <2>2
<1>5. w \in Volatile /\ w.flow = u.flow /\ w.steering = u.steering
  BY <1>1, <1>4 DEF Volatile
<1> HIDE DEF e, w
<1>6. /\ runs' \in [RunIds -> Entries] /\ memory' \in [RunIds -> Volatile]
      /\ runs'[x] = e /\ memory'[x] = w
      /\ \A z \in RunIds : z # x => runs'[z] = runs[z] /\ memory'[z] = memory[z]
  BY <1>2, <1>3, <1>5, BecomeLemma
<1> QED
  BY <1>2, <1>5, <1>6 DEF Minor

\* An end that is reported of a known run, whatever the file becomes.
LEMMA CompletionStep ==
  ASSUME IInv, NEW x \in RunIds, NEW reason \in {"complete", "error"}, NEW u,
         Minor(memory[x], u), Known(x), BeginCompletion(x, reason, u),
         child' \in [RunIds -> {"none", "running", "over", "dead"}], troubles' \in 0..MaxTroubles,
         disk' \in {disk, [runs EXCEPT ![x].ended = TRUE]},
         UNCHANGED <<used, sessions, expired, sweeping, history>>
  PROVE  Steps
<1>0. TypeOK /\ x \in used
  BY InvLemma
<1>1. /\ runs' \in [RunIds -> Entries] /\ memory' \in [RunIds -> Volatile]
      /\ Ended(runs[x], runs'[x]) \/ Lifted(runs[x], runs'[x])
      /\ memory'[x].flow = memory[x].flow /\ memory'[x].steering = memory[x].steering
      /\ \A z \in RunIds : z # x => runs'[z] = runs[z] /\ memory'[z] = memory[z]
  BY <1>0, BeginCompletionLemma
<1>2. /\ disk' \in [RunIds -> Entries]
      /\ disk'[x] = disk[x] \/ Ended(runs[x], disk'[x])
      /\ \A z \in RunIds : z # x => disk'[z] \in {disk[z], runs[z]}
  <2>1. CASE disk' = disk
    BY <1>0, <2>1 DEF TypeOK, Entries
  <2>2. CASE disk' = [runs EXCEPT ![x].ended = TRUE]
    <3> DEFINE e == runs[x]
               f == [e EXCEPT !.ended = TRUE]
    <3>1. e \in Entry
      BY <1>0, RunLemma
    <3> HIDE DEF e
    <3>2. /\ f \in Entry /\ f.handled = e.handled /\ f.ended /\ f.completed = e.completed
          /\ f.suppress = e.suppress /\ f.retries = e.retries
      BY <3>1 DEF Entry
    <3>3. disk' = [runs EXCEPT ![x] = f]
      BY <2>2 DEF e
    <3> HIDE DEF f
    <3>4. Ended(e, f)
      BY <3>1, <3>2, EntryLemma DEF Ended
    <3> QED
      BY <1>0, <3>2, <3>3, <3>4 DEF e, TypeOK, Entries
  <2> QED
    BY <2>1, <2>2
<1>3. TypeOK' /\ announced' = announced /\ \A z \in RunIds : SameSets(z)
  BY <1>0, <1>1, <1>2 DEF TypeOK, Entries, history, SameSets
<1>4. ASSUME NEW z \in RunIds, z # x
      PROVE  Step(View(z), View(z)')
  BY <1>0, <1>1, <1>2, <1>3, <1>4, OtherLemma
<1>5. Step(View(x), View(x)')
  BY <1>0, <1>1, <1>2, <1>3, CompletesLemma
<1> QED
  BY <1>3, <1>4, <1>5 DEF Steps

LEMMA LifecycleEndStep ==
  ASSUME IInv, NEW x \in RunIds, LifecycleEnd(x)
  PROVE  Steps
<1>0. TypeOK /\ Minor(memory[x], memory[x])
  BY RunLemma DEF IInv
<1>1. /\ child' \in [RunIds -> {"none", "running", "over", "dead"}] /\ troubles' \in 0..MaxTroubles
      /\ disk' = disk /\ UNCHANGED <<used, sessions, expired, sweeping, history>>
  BY <1>0 DEF LifecycleEnd, TypeOK
<1>2. CASE Known(x)
  <2>1. BeginCompletion(x, "complete", memory[x])
    BY <1>2 DEF LifecycleEnd
  <2> QED
    BY <1>0, <1>1, <1>2, <2>1, CompletionStep
<1>3. CASE ~Known(x)
  <2>1. runs' = runs /\ memory' = [memory EXCEPT ![x] = memory[x]]
    BY <1>0, <1>3 DEF LifecycleEnd, TypeOK
  <2> QED
    BY <1>0, <1>1, <2>1, MemoryStep
<1> QED
  BY <1>2, <1>3

LEMMA GraceOverStep ==
  ASSUME IInv, NEW x \in RunIds, GraceOver(x)
  PROVE  Steps
<1>0. TypeOK /\ Minor(memory[x], memory[x]) /\ Minor(memory[x], [memory[x] EXCEPT !.grace = FALSE])
  BY RunLemma, MinorLemma DEF IInv
<1>1. /\ child' = child /\ troubles' = troubles /\ disk' = disk
      /\ UNCHANGED <<used, sessions, expired, sweeping, history>>
  BY DEF GraceOver, world
<1>2. child' \in [RunIds -> {"none", "running", "over", "dead"}] /\ troubles' \in 0..MaxTroubles
  BY <1>0, <1>1 DEF TypeOK
<1>3. CASE Known(x) /\ runs[x].reason # "complete"
  <2>1. BeginCompletion(x, "error", memory[x])
    BY <1>3 DEF GraceOver
  <2> QED
    BY <1>0, <1>1, <1>2, <1>3, <2>1, CompletionStep
<1>4. CASE ~(Known(x) /\ runs[x].reason # "complete")
  <2>1. Become(x, runs[x], [memory[x] EXCEPT !.grace = FALSE])
    BY <1>4 DEF GraceOver
  <2>2. runs' = runs
    BY <1>0, <2>1 DEF Become, TypeOK
  <2>3. memory' = [memory EXCEPT ![x] = [memory[x] EXCEPT !.grace = FALSE]]
    BY <2>1 DEF Become
  <2> QED
    BY <1>0, <1>1, <1>2, <2>2, <2>3, MemoryStep
<1> QED
  BY <1>3, <1>4

LEMMA WaitAnswersStep ==
  ASSUME IInv, NEW x \in RunIds, NEW reason \in {"complete", "error"}, WaitAnswers(x, reason)
  PROVE  Steps
<1> DEFINE u == [memory[x] EXCEPT !.waiting = FALSE]
<1>0. TypeOK /\ Minor(memory[x], memory[x]) /\ Minor(memory[x], u)
  BY RunLemma, MinorLemma DEF IInv
<1>1. child' = child /\ UNCHANGED <<used, sessions, expired, sweeping, history>>
  BY DEF WaitAnswers
<1>2. child' \in [RunIds -> {"none", "running", "over", "dead"}]
  BY <1>0, <1>1 DEF TypeOK
<1>3. troubles' \in 0..MaxTroubles
  BY <1>0, TroubleLemma DEF WaitAnswers, TroubleIf, TypeOK
<1>4. CASE Known(x)
  <2>1. BeginCompletion(x, reason, u)
    BY <1>4 DEF WaitAnswers
  <2>2. disk' \in {disk, [runs EXCEPT ![x].ended = TRUE]}
    BY <1>4 DEF WaitAnswers
  <2> QED
    BY <1>0, <1>1, <1>2, <1>3, <1>4, <2>1, <2>2, CompletionStep
<1>5. CASE ~Known(x)
  <2>1. Become(x, runs[x], u) /\ disk' = disk
    BY <1>5 DEF WaitAnswers
  <2>2. runs' = runs /\ memory' = [memory EXCEPT ![x] = u]
    BY <1>0, <2>1 DEF Become, TypeOK
  <2> QED
    BY <1>0, <1>1, <1>2, <1>3, <2>1, <2>2, MemoryStep
<1> QED
  BY <1>4, <1>5

LEMMA EndCompletionStep ==
  ASSUME IInv, NEW x \in RunIds, EndCompletion(x)
  PROVE  Steps
<1> DEFINE m == memory[x]
           u == [m EXCEPT !.freezing = @ - 1]
           starts == Known(x) /\ ~Suppressed(runs[x]) /\ MayBegin(runs[x])
           f == [runs[x] EXCEPT !.handled = TRUE]
           w == [u EXCEPT !.flow = "announcing"]
<1>0. /\ TypeOK /\ m \in Volatile /\ m.freezing \in 0..MaxCaptures /\ MaxCaptures \in Nat
      /\ runs[x] \in Entries
  BY InvLemma, RunLemma, VolatileLemma, RegistryAssumption DEF RegistryAssumption
<1>1. m.freezing > 0 /\ disk' = runs' /\ UNCHANGED <<world, history>>
  BY DEF EndCompletion, Persist
<1>2. m.freezing - 1 \in 0..MaxCaptures /\ m.freezing - 1 <= m.freezing
  BY <1>0, <1>1
<1>3. u \in Volatile /\ u.freezing <= m.freezing /\ u.flow = m.flow /\ u.steering = m.steering
  BY <1>0, <1>2 DEF Volatile
<1>4. CASE starts
  <2>1. Become(x, f, w)
    BY <1>4 DEF EndCompletion
  <2>2. runs[x] \in Entry /\ runs[x].ended
    BY <1>0, <1>1, <1>4, RunLemma, InvLemma
  <2>3. f \in Entries /\ Begins(runs[x], f)
    BY <1>4, <2>2, HandledLemma DEF Suppressed, Entries
  <2>4. w \in Volatile /\ w.flow = "announcing" /\ w.freezing = u.freezing /\ w.steering = u.steering
    BY <1>3 DEF Volatile
  <2> HIDE DEF m, u, f, w, starts
  <2>5. /\ runs' \in [RunIds -> Entries] /\ memory' \in [RunIds -> Volatile]
        /\ runs'[x] = f /\ memory'[x] = w
    BY <1>0, <2>1, <2>3, <2>4, BecomeLemma
  <2>6. TypeOK' /\ announced' = announced /\ \A z \in RunIds : SameSets(z)
    BY <1>0, <1>1, <2>5, TypeLemma
  <2>7. \A z \in RunIds : z # x => Step(View(z), View(z)')
    BY <1>0, <1>1, <2>1, <2>3, <2>4, <2>6, OthersLemma
  <2>8. Step(View(x), View(x)')
    BY <1>1, <1>3, <2>3, <2>4, <2>5, <2>6, GoesOnLemma DEF m
  <2> QED
    BY <2>6, <2>7, <2>8 DEF Steps
<1>5. CASE ~starts
  <2>1. Become(x, runs[x], u)
    BY <1>5 DEF EndCompletion
  <2> HIDE DEF m, u, f, w, starts
  <2>2. /\ runs' \in [RunIds -> Entries] /\ memory' \in [RunIds -> Volatile]
        /\ runs'[x] = runs[x] /\ memory'[x] = u
    BY <1>0, <1>3, <2>1, BecomeLemma
  <2>3. TypeOK' /\ announced' = announced /\ \A z \in RunIds : SameSets(z)
    BY <1>0, <1>1, <2>2, TypeLemma
  <2>4. \A z \in RunIds : z # x => Step(View(z), View(z)')
    BY <1>0, <1>1, <1>3, <2>1, <2>3, OthersLemma
  <2>5. Left(runs[x], runs'[x])
    BY <1>0, <2>2, RunLemma
  <2>6. Step(View(x), View(x)')
    BY <1>1, <1>3, <2>2, <2>3, <2>5, GoesOnLemma DEF m
  <2> QED
    BY <2>3, <2>4, <2>6 DEF Steps
<1> QED
  BY <1>4, <1>5

LEMMA SucceedsLemma ==
  ASSUME NEW z \in RunIds, SameSets(z), announced'[z] \in {announced[z], announced[z] + 1},
         memory[z].flow = "announcing", Left(runs[z], runs'[z]), disk'[z] = disk[z],
         memory'[z].flow = IF runs'[z] = NoRun THEN "none" ELSE "completing",
         memory'[z].freezing <= memory[z].freezing, memory'[z].steering = memory[z].steering
  PROVE  Step(View(z), View(z)')
<1> DEFINE v == View(z)
           w == View(z)'
<1>1. /\ v.entry = runs[z] /\ v.saved = disk[z] /\ v.flow = memory[z].flow /\ v.told = announced[z]
      /\ v.freezing = memory[z].freezing /\ w.freezing = memory'[z].freezing
      /\ w.entry = runs'[z] /\ w.saved = disk'[z] /\ w.flow = memory'[z].flow /\ w.told = announced'[z]
  BY ViewLemma, NextViewLemma
<1>2. w.steering = v.steering
  BY ViewLemma, NextViewLemma
<1>3. (w.used <=> v.used) /\ (w.replaced <=> v.replaced)
  BY ViewLemma, NextViewLemma DEF SameSets
<1>4. (w.killed <=> v.killed) /\ (w.cut <=> v.cut)
  BY ViewLemma, NextViewLemma DEF SameSets
<1> HIDE DEF v, w
<1>5. SameRun(v, w)
  BY <1>1, <1>2, <1>3, <1>4 DEF SameRun, SameHistory
<1>6. Succeeds(v, w)
  BY <1>1, <1>5 DEF Succeeds
<1>7. Step(v, w)
  BY <1>6 DEF Step
<1> QED
  BY <1>7 DEF v, w

\* The flow of x ends or goes on; its entry is kept but for its wake.
LEMMA FlowStep ==
  ASSUME TypeOK, NEW x \in RunIds, NEW told \in {0, 1},
         memory[x].flow = "announcing", NEW e \in Entries, NEW v \in Volatile, Become(x, e, v),
         Left(runs[x], e), v.flow = IF e = NoRun THEN "none" ELSE "completing",
         v.freezing = memory[x].freezing, v.steering = memory[x].steering,
         announced' = [announced EXCEPT ![x] = @ + told], disk' = disk,
         sessions' \in SUBSET Sessions, troubles' \in 0..MaxTroubles,
         UNCHANGED <<child, used, expired, sweeping, replaced, cut, killed>>
  PROVE  Steps
<1>1. /\ runs' \in [RunIds -> Entries] /\ memory' \in [RunIds -> Volatile]
      /\ runs'[x] = e /\ memory'[x] = v
      /\ \A z \in RunIds : z # x => runs'[z] = runs[z] /\ memory'[z] = memory[z]
  BY BecomeLemma
<1>2. announced[x] \in Nat /\ announced[x] + told \in {announced[x], announced[x] + 1}
  BY DEF TypeOK
<1>3. /\ announced' \in [RunIds -> Nat] /\ announced'[x] \in {announced[x], announced[x] + 1}
      /\ \A z \in RunIds : z # x => announced'[z] = announced[z]
  BY <1>2 DEF TypeOK
<1>4. TypeOK'
  BY <1>1, <1>3 DEF TypeOK, Entries
<1>5. \A z \in RunIds : SameSets(z)
  BY DEF SameSets
<1>6. ASSUME NEW z \in RunIds, z # x
      PROVE  Step(View(z), View(z)')
  BY <1>1, <1>3, <1>5, <1>6, OtherLemma
<1>7. memory'[x].freezing <= memory[x].freezing
  BY <1>1, MemoryLemma, LeqLemma
<1>8. Step(View(x), View(x)')
  BY <1>1, <1>3, <1>5, <1>7, SucceedsLemma
<1> QED
  BY <1>4, <1>6, <1>8 DEF Steps

LEMMA AwakeLemma ==
  ASSUME NEW e \in Entry
  PROVE  [e EXCEPT !.wake = FALSE] \in Entry /\ Left(e, [e EXCEPT !.wake = FALSE])
<1> DEFINE f == [e EXCEPT !.wake = FALSE]
<1>1. /\ f \in Entry /\ f.handled = e.handled /\ f.ended = e.ended /\ f.completed = e.completed
      /\ f.suppress = e.suppress /\ f.retries = e.retries
  BY DEF Entry
<1>2. e # NoRun /\ f # NoRun
  BY <1>1, EntryLemma
<1> HIDE DEF f
<1>3. Left(e, f)
  BY <1>1, <1>2 DEF Left, Kept
<1> QED
  BY <1>1, <1>3 DEF f

LEMMA AnnounceSucceedsStep ==
  ASSUME TypeOK, NEW x \in RunIds, NEW told \in BOOLEAN, AnnounceSucceeds(x, told)
  PROVE  Steps
<1>0. memory[x] \in Volatile /\ memory[x].flow = "announcing" /\ NoRun \in Entries
  BY RunLemma DEF AnnounceSucceeds, Entries
<1>1. /\ disk' = disk /\ UNCHANGED <<child, used, expired, sweeping, replaced, cut, killed>>
      /\ troubles' \in 0..MaxTroubles /\ sessions' \in SUBSET Sessions
  BY DEF AnnounceSucceeds, SessionAfter, TypeOK
<1>2. PICK n \in {0, 1} : announced' = [announced EXCEPT ![x] = @ + n]
  <2>1. CASE told
    BY <2>1 DEF AnnounceSucceeds
  <2>2. CASE ~told
    <3>1. announced' = announced /\ announced \in [RunIds -> Nat]
      BY <2>2 DEF AnnounceSucceeds, TypeOK
    <3>2. announced[x] + 0 = announced[x]
      BY <3>1
    <3>3. announced' = [announced EXCEPT ![x] = announced[x] + 0]
      BY <3>1, <3>2
    <3> QED
      BY <3>3
  <2> QED
    BY <2>1, <2>2
<1>3. CASE Known(x)
  <2> DEFINE e == [runs[x] EXCEPT !.wake = FALSE]
             v == [memory[x] EXCEPT !.flow = "completing"]
  <2>1. e \in Entry /\ Left(runs[x], e)
    BY <1>3, RunLemma, AwakeLemma
  <2>2. /\ v \in Volatile /\ v.flow = "completing"
        /\ v.freezing = memory[x].freezing /\ v.steering = memory[x].steering
    BY <1>0, FlowEndsLemma
  <2>3. Become(x, e, v)
    BY <1>3 DEF AnnounceSucceeds
  <2> HIDE DEF e, v
  <2>4. e \in Entries /\ e # NoRun
    BY <2>1, EntryLemma DEF Entries
  <2> QED
    BY <1>0, <1>1, <1>2, <2>1, <2>2, <2>3, <2>4, FlowStep
<1>4. CASE ~Known(x)
  <2> DEFINE v == [memory[x] EXCEPT !.flow = "none"]
  <2>1. v \in Volatile /\ v.flow = "none" /\ v.freezing = memory[x].freezing /\ v.steering = memory[x].steering
    BY <1>0, FlowEndsLemma
  <2>2. Become(x, NoRun, v)
    BY <1>4 DEF AnnounceSucceeds
  <2>3. Left(runs[x], NoRun)
    BY DEF Left
  <2> HIDE DEF v
  <2> QED
    BY <1>0, <1>1, <1>2, <2>1, <2>2, <2>3, FlowStep
<1> QED
  BY <1>3, <1>4

\* An announcement that fails is deferred or given up.
LEMMA FailsLemma ==
  ASSUME NEW z \in RunIds, SameSets(z), announced'[z] = announced[z],
         memory[z].flow = "announcing",
         memory'[z].freezing <= memory[z].freezing, memory'[z].steering => memory[z].steering,
         runs[z] # NoRun, runs'[z] # NoRun,
         runs'[z].ended = runs[z].ended, runs'[z].suppress = runs[z].suppress,
         runs'[z].completed = runs[z].completed,
         \/ /\ memory'[z].flow = "none" /\ ~runs'[z].handled /\ disk'[z] = runs'[z]
            /\ runs'[z].retries < MaxRetries
         \/ /\ memory'[z].flow = "giving up" /\ runs'[z].handled = runs[z].handled
            /\ disk'[z] = disk[z]
  PROVE  Step(View(z), View(z)')
<1> DEFINE v == View(z)
           w == View(z)'
<1>1. SameRun(v, w) /\ w.told = v.told
  BY SameLemma
<1>2. /\ v.entry = runs[z] /\ v.saved = disk[z] /\ v.flow = memory[z].flow
      /\ w.entry = runs'[z] /\ w.saved = disk'[z] /\ w.flow = memory'[z].flow
  BY ViewLemma, NextViewLemma
<1> HIDE DEF v, w
<1>3. Fails(v, w) \/ GivesUp(v, w)
  BY <1>1, <1>2 DEF Fails, GivesUp
<1>4. Step(v, w)
  BY <1>3 DEF Step
<1> QED
  BY <1>4 DEF v, w

LEMMA AnnounceFailsStep ==
  ASSUME IInv, NEW x \in RunIds, AnnounceFails(x)
  PROVE  Steps
<1> DEFINE e == runs[x]
           v == memory[x]
           waits == x \in Expecting /\ PendingDescendants(x) # {}
           retries == IF waits THEN e.retries ELSE e.retries + 1
           givesUp == \/ x \in expired
                      \/ ~waits /\ retries >= MaxRetries
           given == [e EXCEPT !.retries = retries,
                              !.cooling = IF waits THEN @ ELSE TRUE, !.wake = FALSE]
           deferred == [e EXCEPT !.handled = FALSE, !.retries = retries,
                                 !.cooling = TRUE, !.wake = @ \/ waits]
           later == [v EXCEPT !.flow = "none", !.resumed = FALSE,
                              !.timers = IF x \in Expecting THEN @ \union {"plain"} ELSE @]
<1>0. TypeOK /\ e \in Entries /\ v \in Volatile /\ v.flow = "announcing" /\ NoRun \in Entries
  BY InvLemma, RunLemma DEF AnnounceFails, Entries
<1>1. UNCHANGED <<child, used, expired, sweeping, history>>
  BY DEF AnnounceFails
<1>2. troubles' \in 0..MaxTroubles /\ sessions' \in SUBSET Sessions
  BY <1>0, TroubleLemma DEF AnnounceFails, TroubleIf, SessionAfter, TypeOK
<1>3. \A z \in RunIds : SameSets(z)
  BY <1>1 DEF history, SameSets
<1>4. announced' = announced /\ replaced' = replaced /\ cut' = cut /\ killed' = killed
  BY <1>1 DEF history
<1>5. CASE e = NoRun
  <2> DEFINE u == [v EXCEPT !.flow = "none"]
  <2>1. Become(x, NoRun, u) /\ disk' = disk
    BY <1>5 DEF AnnounceFails
  <2>2. u \in Volatile /\ u.flow = "none" /\ u.freezing = v.freezing /\ u.steering = v.steering
    BY <1>0, FlowEndsLemma
  <2>3. announced' = [announced EXCEPT ![x] = @ + 0]
    <3>1. announced \in [RunIds -> Nat]
      BY <1>0 DEF TypeOK
    <3>2. announced[x] + 0 = announced[x]
      BY <3>1
    <3>3. announced = [announced EXCEPT ![x] = announced[x]]
      BY <3>1
    <3> QED
      BY <1>4, <3>2, <3>3
  <2>4. Left(runs[x], NoRun)
    BY DEF Left
  <2> HIDE DEF u
  <2> QED
    BY <1>0, <1>1, <1>2, <1>4, <2>1, <2>2, <2>3, <2>4, FlowStep
<1>6. CASE e # NoRun
  <2>0. e \in Entry /\ e.retries < MaxRetries /\ e.retries \in Nat /\ MaxRetries \in Nat
    <3>1. e \in Entry
      BY <1>0, <1>6 DEF Entries
    <3>2. e.retries \in Nat /\ MaxRetries \in Nat /\ ~(e.retries >= MaxRetries)
      BY <1>0, <1>6, <3>1, EntryLemma, InvLemma, RegistryAssumption DEF RegistryAssumption, Known
    <3> QED
      BY <3>1, <3>2
  <2>1. retries \in 0..MaxRetries
    BY <2>0
  <2>2. CASE givesUp
    <3> DEFINE u == [v EXCEPT !.flow = "giving up"]
    <3>1. Become(x, given, u) /\ disk' = disk
      BY <1>6, <2>2 DEF AnnounceFails
    <3>2. u \in Volatile /\ u.flow = "giving up" /\ u.freezing = v.freezing /\ u.steering = v.steering
      BY <1>0, FlowEndsLemma
    <3> HIDE DEF retries, waits, e
    <3>3. /\ given \in Entry /\ given.ended = e.ended /\ given.suppress = e.suppress
          /\ given.completed = e.completed /\ given.handled = e.handled
      BY <2>0, <2>1 DEF Entry
    <3>4. given \in Entries /\ given # NoRun
      BY <3>3, EntryLemma DEF Entries
    <3> HIDE DEF given, u
    <3>5. /\ runs' \in [RunIds -> Entries] /\ memory' \in [RunIds -> Volatile]
          /\ runs'[x] = given /\ memory'[x] = u
      BY <1>0, <3>1, <3>2, <3>4, BecomeLemma
    <3>6. TypeOK'
      BY <1>0, <1>1, <1>2, <1>4, <3>1, <3>5 DEF TypeOK, Entries
    <3>7. \A z \in RunIds : z # x => Step(View(z), View(z)')
      BY <1>0, <1>3, <1>4, <3>1, <3>2, <3>4, OthersLemma
    <3>8. memory'[x].freezing <= memory[x].freezing
      BY <1>0, <3>2, <3>5, MemoryLemma, LeqLemma
    <3>9. disk'[x] = disk[x] /\ announced'[x] = announced[x]
      BY <1>4, <3>1
    <3>10. Step(View(x), View(x)')
      BY <1>0, <1>3, <1>6, <3>2, <3>3, <3>4, <3>5, <3>8, <3>9, FailsLemma DEF e
    <3> QED
      BY <3>6, <3>7, <3>10 DEF Steps
  <2>3. CASE ~givesUp
    <3>1. Become(x, deferred, later) /\ disk' = runs'
      BY <1>6, <2>3 DEF AnnounceFails, Persist
    <3>2. /\ later \in Volatile /\ later.flow = "none"
          /\ later.freezing = v.freezing /\ later.steering = v.steering
      BY <1>0 DEF Volatile
    <3>a. retries < MaxRetries
      BY <2>0, <2>3
    <3> HIDE DEF retries, waits, e
    <3>b. e.wake \in BOOLEAN /\ waits \in BOOLEAN
      BY <2>0 DEF Entry, waits
    <3>3. /\ deferred \in Entry /\ deferred.ended = e.ended /\ deferred.suppress = e.suppress
          /\ deferred.completed = e.completed /\ ~deferred.handled /\ deferred.retries = retries
      BY <2>0, <2>1, <3>b DEF Entry
    <3>4. deferred \in Entries /\ deferred # NoRun
      BY <3>3, EntryLemma DEF Entries
    <3> HIDE DEF deferred, later
    <3>5. /\ runs' \in [RunIds -> Entries] /\ memory' \in [RunIds -> Volatile]
          /\ runs'[x] = deferred /\ memory'[x] = later
      BY <1>0, <3>1, <3>2, <3>4, BecomeLemma
    <3>6. TypeOK'
      BY <1>0, <1>1, <1>2, <1>4, <3>1, <3>5 DEF TypeOK, Entries
    <3>7. \A z \in RunIds : z # x => Step(View(z), View(z)')
      BY <1>0, <1>3, <1>4, <3>1, <3>2, <3>4, OthersLemma
    <3>8. memory'[x].freezing <= memory[x].freezing
      BY <1>0, <3>2, <3>5, MemoryLemma, LeqLemma
    <3>9. disk'[x] = runs'[x] /\ announced'[x] = announced[x]
      BY <1>4, <3>1
    <3>10. Step(View(x), View(x)')
      BY <1>0, <1>3, <1>6, <3>a, <3>2, <3>3, <3>4, <3>5, <3>8, <3>9, FailsLemma DEF e
    <3> QED
      BY <3>6, <3>7, <3>10 DEF Steps
  <2> QED
    BY <2>2, <2>3
<1> QED
  BY <1>5, <1>6

LEMMA MarkedLemma ==
  ASSUME NEW z \in RunIds, SameSets(z), announced'[z] = announced[z],
         memory'[z].flow = memory[z].flow, memory'[z].freezing = memory[z].freezing,
         runs[z] # NoRun, runs'[z] # NoRun, disk'[z] = runs'[z], ~runs[z].ended,
         ~runs'[z].ended, runs'[z].suppress = "steer-restart", runs'[z].retries = runs[z].retries,
         runs'[z].handled = runs[z].handled, runs'[z].completed = runs[z].completed
  PROVE  Step(View(z), View(z)')
<1> DEFINE v == View(z)
           w == View(z)'
<1>1. /\ v.entry = runs[z] /\ v.flow = memory[z].flow /\ v.told = announced[z]
      /\ v.freezing = memory[z].freezing /\ w.freezing = memory'[z].freezing
      /\ w.entry = runs'[z] /\ w.saved = disk'[z] /\ w.flow = memory'[z].flow /\ w.told = announced'[z]
  BY ViewLemma, NextViewLemma
<1>2. (w.used <=> v.used) /\ (w.replaced <=> v.replaced)
  BY ViewLemma, NextViewLemma DEF SameSets
<1>3. (w.killed <=> v.killed) /\ (w.cut <=> v.cut)
  BY ViewLemma, NextViewLemma DEF SameSets
<1> HIDE DEF v, w
<1>4. Marked(v, w)
  BY <1>1, <1>2, <1>3 DEF Marked, SameHistory
<1>5. Step(v, w)
  BY <1>4 DEF Step
<1> QED
  BY <1>5 DEF v, w

LEMMA MarkForSteerStep ==
  ASSUME TypeOK, NEW x \in RunIds, MarkForSteer(x)
  PROVE  Steps
<1> DEFINE e == runs[x]
           f == [e EXCEPT !.suppress = "steer-restart"]
           u == [memory[x] EXCEPT !.steering = TRUE]
<1>0. e \in Entry /\ memory[x] \in Volatile /\ ~e.ended /\ e # NoRun
  BY RunLemma, EntryLemma DEF MarkForSteer
<1>1. /\ Become(x, f, u) /\ disk' = runs' /\ troubles' \in 0..MaxTroubles
      /\ UNCHANGED <<child, used, sessions, expired, sweeping, history>>
  BY TroubleLemma DEF MarkForSteer, Persist
<1>2. u \in Volatile /\ u.flow = memory[x].flow /\ u.freezing = memory[x].freezing
  BY <1>0 DEF Volatile
<1> HIDE DEF u, e
<1>3. /\ f \in Entry /\ f.suppress = "steer-restart" /\ f.ended = e.ended /\ f.handled = e.handled
      /\ f.completed = e.completed /\ f.retries = e.retries
  BY <1>0 DEF Entry
<1>4. f \in Entries /\ f # NoRun
  BY <1>3, EntryLemma DEF Entries
<1> HIDE DEF f
<1>5. /\ runs' \in [RunIds -> Entries] /\ memory' \in [RunIds -> Volatile]
      /\ runs'[x] = f /\ memory'[x] = u
  BY <1>1, <1>2, <1>4, BecomeLemma
<1>6. TypeOK' /\ announced' = announced /\ \A z \in RunIds : SameSets(z)
  BY <1>1, <1>5 DEF TypeOK, Entries, history, SameSets
<1>7. \A z \in RunIds : z # x => Step(View(z), View(z)')
  BY <1>1, <1>2, <1>4, <1>6, OthersLemma
<1>8. Step(View(x), View(x)')
  BY <1>0, <1>1, <1>2, <1>3, <1>4, <1>5, <1>6, MarkedLemma DEF e
<1> QED
  BY <1>6, <1>7, <1>8 DEF Steps

\* The mark of a steer is taken away, and the run goes on.
LEMMA UnmarkedLemma ==
  ASSUME NEW z \in RunIds, SameSets(z), announced'[z] = announced[z],
         memory'[z].freezing <= memory[z].freezing, ~memory'[z].steering,
         runs[z] \in Entry, runs[z].suppress = "steer-restart", disk'[z] = runs'[z],
         NEW e, e = [runs[z] EXCEPT !.suppress = "none"],
         \/ Left(e, runs'[z]) /\ memory'[z].flow = memory[z].flow
         \/ Begins(e, runs'[z]) /\ memory'[z].flow = "announcing"
  PROVE  Step(View(z), View(z)')
<1> DEFINE v == View(z)
           w == View(z)'
<1>1. SameRun(v, w) /\ w.told = v.told /\ ~w.steering
  BY SameLemma, NextViewLemma
<1>2. /\ v.entry = runs[z] /\ v.flow = memory[z].flow
      /\ w.entry = runs'[z] /\ w.saved = disk'[z] /\ w.flow = memory'[z].flow
  BY ViewLemma, NextViewLemma
<1>3. /\ e # NoRun /\ e.suppress = "none" /\ e.ended = runs[z].ended /\ e.handled = runs[z].handled
      /\ e.completed = runs[z].completed /\ e.retries = runs[z].retries /\ runs[z] # NoRun
  <2>1. /\ e \in Entry /\ e.suppress = "none" /\ e.ended = runs[z].ended /\ e.handled = runs[z].handled
        /\ e.completed = runs[z].completed /\ e.retries = runs[z].retries
    BY DEF Entry
  <2> QED
    BY <2>1, EntryLemma
<1> HIDE DEF v, w
<1>4. CASE Left(e, runs'[z]) /\ memory'[z].flow = memory[z].flow
  <2>1. Unmarked(v, w)
    BY <1>1, <1>2, <1>3, <1>4 DEF Unmarked, Cleared, Left, Kept
  <2>2. Step(v, w)
    BY <2>1 DEF Step
  <2> QED
    BY <2>2 DEF v, w
<1>5. CASE Begins(e, runs'[z]) /\ memory'[z].flow = "announcing"
  <2>1. Unmarked(v, w)
    BY <1>1, <1>2, <1>3, <1>5 DEF Unmarked, Cleared, Begins
  <2>2. Step(v, w)
    BY <2>1 DEF Step
  <2> QED
    BY <2>2 DEF v, w
<1> QED
  BY <1>4, <1>5

LEMMA UnmarkLemma ==
  ASSUME NEW e \in Entry
  PROVE  [e EXCEPT !.suppress = "none"] \in Entry
BY DEF Entry

LEMMA SteerFailsStep ==
  ASSUME TypeOK, NEW x \in RunIds, SteerFails(x)
  PROVE  Steps
<1> DEFINE v == [memory[x] EXCEPT !.steering = FALSE]
           u == [v EXCEPT !.resumed = FALSE]
           e == [runs[x] EXCEPT !.suppress = "none"]
           next == IF e.ended /\ ~e.completed THEN Resumed(x, e, u) ELSE [e |-> e, v |-> u]
           marked == Known(x) /\ runs[x].suppress = "steer-restart"
<1>0. memory[x] \in Volatile /\ runs[x] \in Entries /\ memory[x].steering
  BY RunLemma DEF SteerFails
<1>1. v \in Volatile /\ ~v.steering /\ v.flow = memory[x].flow /\ v.freezing = memory[x].freezing
  BY <1>0 DEF Volatile
<1>2. Minor(v, u)
  BY <1>1, MinorLemma
<1>3. UNCHANGED <<world, history>>
  BY DEF SteerFails
<1>4. memory[x].freezing <= memory[x].freezing
  BY MemoryLemma, LeqLemma
<1>5. CASE marked
  <2>1. Become(x, next.e, next.v) /\ disk' = runs'
    BY <1>5 DEF SteerFails, Persist
  <2>2. runs[x] \in Entry /\ e \in Entry /\ e \in Entries
    BY <1>5, RunLemma, UnmarkLemma DEF Entries
  <2> HIDE DEF u, e, v
  <2>3. Goes(e, u, next)
    <3>1. CASE e.ended /\ ~e.completed
      BY <1>2, <2>2, <3>1, ResumedLemma DEF Minor
    <3>2. CASE ~(e.ended /\ ~e.completed)
      <4>1. Minor(u, u)
        BY <1>2 DEF Minor
      <4> QED
        BY <2>2, <3>2, <4>1, KeptLemma, GoesLemma
    <3> QED
      BY <3>1, <3>2
  <2> HIDE DEF next, marked
  <2>4. next.e \in Entries /\ next.v \in Volatile
    BY <2>3 DEF Goes
  <2>5. /\ runs' \in [RunIds -> Entries] /\ memory' \in [RunIds -> Volatile]
        /\ runs'[x] = next.e /\ memory'[x] = next.v
    BY <2>1, <2>4, BecomeLemma
  <2>6. TypeOK' /\ announced' = announced /\ \A z \in RunIds : SameSets(z)
    BY <1>3, <2>1, <2>5, TypeLemma
  <2>7. \A z \in RunIds : z # x => Step(View(z), View(z)')
    BY <2>1, <2>4, <2>6, OthersLemma
  <2>8. memory'[x].freezing = memory[x].freezing /\ ~memory'[x].steering
    BY <1>1, <1>2, <2>3, <2>5 DEF Goes, Minor
  <2>9. \/ Left(e, runs'[x]) /\ memory'[x].flow = memory[x].flow
        \/ Begins(e, runs'[x]) /\ memory'[x].flow = "announcing"
    BY <1>1, <1>2, <2>3, <2>5 DEF Goes, Minor
  <2>10. Step(View(x), View(x)')
    BY <1>4, <1>5, <2>1, <2>2, <2>6, <2>8, <2>9, UnmarkedLemma DEF e, marked
  <2> QED
    BY <2>6, <2>7, <2>10 DEF Steps
<1>6. CASE ~marked
  <2>1. Become(x, runs[x], v) /\ disk' = disk
    BY <1>6 DEF SteerFails
  <2> HIDE DEF v, next
  <2>2. /\ runs' \in [RunIds -> Entries] /\ memory' \in [RunIds -> Volatile]
        /\ runs'[x] = runs[x] /\ memory'[x] = v
    BY <1>0, <1>1, <2>1, BecomeLemma
  <2>3. disk' \in [RunIds -> Entries]
    BY <2>1 DEF TypeOK, Entries
  <2>4. TypeOK' /\ announced' = announced /\ \A z \in RunIds : SameSets(z)
    BY <1>3, <2>2, <2>3, TypeLemma
  <2>5. \A z \in RunIds : z # x => Step(View(z), View(z)')
    BY <1>0, <1>1, <2>1, <2>4, OthersLemma
  <2>6. Left(runs[x], runs'[x]) /\ Left(disk[x], disk'[x])
    BY <2>1, <2>2, RunLemma
  <2>7. Step(View(x), View(x)')
    BY <1>1, <1>4, <2>2, <2>4, <2>6, GoesOnLemma
  <2> QED
    BY <2>4, <2>5, <2>7 DEF Steps
<1> QED
  BY <1>5, <1>6

Fresh == [Nothing EXCEPT !.waiting = TRUE]

LEMMA FreshLemma ==
  /\ NewEntry \in Entry /\ NewEntry \in Entries
  /\ Nothing \in Volatile /\ Nothing.flow = "none" /\ Nothing.freezing = 0
  /\ ~Nothing.steering /\ ~Nothing.resumed
  /\ Fresh \in Volatile /\ Fresh.flow = "none" /\ Fresh.freezing = 0 /\ ~Fresh.steering
<1>1. 0 \in 0..MaxRetries /\ 0 \in 0..MaxCaptures
  BY RegistryAssumption DEF RegistryAssumption
<1>2. NewEntry \in Entry
  BY <1>1 DEF NewEntry, Entry
<1>3. Nothing \in Volatile /\ Nothing.flow = "none" /\ Nothing.freezing = 0 /\ ~Nothing.steering /\ ~Nothing.resumed
  BY <1>1 DEF Nothing, Volatile
<1>4. Minor(Nothing, Fresh)
  BY <1>3, MinorLemma DEF Fresh
<1>5. Fresh \in Volatile /\ Fresh.flow = "none" /\ Fresh.freezing = 0 /\ ~Fresh.steering
  BY <1>3, <1>4 DEF Minor
<1> QED
  BY <1>2, <1>3, <1>5 DEF Entries

LEMMA EntersLemma ==
  ASSUME NEW z \in RunIds, z \notin used, z \in used', z \in replaced' <=> z \in replaced,
         announced'[z] = announced[z], memory'[z] = Fresh,
         runs'[z] = NewEntry, disk'[z] = NewEntry
  PROVE  Step(View(z), View(z)')
<1> DEFINE v == View(z)
           w == View(z)'
<1>1. /\ v.told = announced[z] /\ w.freezing = memory'[z].freezing
      /\ w.entry = runs'[z] /\ w.saved = disk'[z] /\ w.flow = memory'[z].flow /\ w.told = announced'[z]
  BY ViewLemma, NextViewLemma
<1>2. ~w.steering
  BY NextViewLemma, FreshLemma
<1>3. w.used /\ ~v.used /\ (w.replaced <=> v.replaced)
  BY ViewLemma, NextViewLemma
<1> HIDE DEF v, w
<1>4. Enters(v, w)
  BY <1>1, <1>2, <1>3, FreshLemma DEF Enters
<1>5. Step(v, w)
  BY <1>4 DEF Step
<1> QED
  BY <1>5 DEF v, w

LEMMA RegisterSubagentRunStep ==
  ASSUME TypeOK, NEW x \in RunIds, RegisterSubagentRun(x)
  PROVE  Steps
<1>1. /\ runs' = [runs EXCEPT ![x] = NewEntry] /\ memory' = [memory EXCEPT ![x] = Fresh]
      /\ disk' = runs' /\ used' = used \union {x} /\ child' = [child EXCEPT ![x] = "running"]
  BY DEF RegisterSubagentRun, Enter, Persist, Fresh
<1>2. /\ x \notin used /\ sessions' = sessions \union {SessionOf[x]}
      /\ UNCHANGED <<expired, sweeping, troubles, history>>
  BY DEF RegisterSubagentRun
<1>3. SessionOf[x] \in Sessions
  BY DEF Sessions
<1>4. /\ runs' \in [RunIds -> Entries] /\ memory' \in [RunIds -> Volatile]
      /\ runs'[x] = NewEntry /\ memory'[x] = Fresh
      /\ \A z \in RunIds : z # x => runs'[z] = runs[z] /\ memory'[z] = memory[z]
  BY <1>1, FreshLemma DEF TypeOK, Entries
<1>5. TypeOK'
  BY <1>1, <1>2, <1>3, <1>4 DEF TypeOK, Entries, history
<1>6. announced' = announced /\ replaced' = replaced /\ cut' = cut /\ killed' = killed
  BY <1>2 DEF history
<1>7. ASSUME NEW z \in RunIds, z # x
      PROVE  Step(View(z), View(z)')
  <2>1. SameSets(z)
    BY <1>1, <1>6, <1>7 DEF SameSets
  <2> QED
    BY <1>1, <1>4, <1>6, <1>7, <2>1, OtherLemma
<1>8. Step(View(x), View(x)')
  BY <1>1, <1>2, <1>4, <1>6, EntersLemma
<1> QED
  BY <1>5, <1>7, <1>8 DEF Steps

LEMMA LeavesLemma ==
  ASSUME NEW z \in RunIds, z \in used' <=> z \in used, z \in killed' <=> z \in killed,
         z \in cut' <=> z \in cut, announced'[z] = announced[z],
         runs'[z] = NoRun, disk'[z] = NoRun,
         \/ memory[z].steering /\ memory'[z].flow = memory[z].flow
         \/ /\ memory[z].flow = "announcing" /\ memory'[z].flow = "none"
            /\ memory'[z].steering = memory[z].steering
  PROVE  Step(View(z), View(z)')
<1> DEFINE v == View(z)
           w == View(z)'
<1>1. /\ v.told = announced[z] /\ v.flow = memory[z].flow
      /\ w.entry = runs'[z] /\ w.saved = disk'[z] /\ w.flow = memory'[z].flow /\ w.told = announced'[z]
  BY ViewLemma, NextViewLemma
<1>2. (w.used <=> v.used) /\ (w.killed <=> v.killed) /\ (w.cut <=> v.cut)
  BY ViewLemma, NextViewLemma
<1>3. v.steering = memory[z].steering /\ w.steering = memory'[z].steering
  BY ViewLemma, NextViewLemma
<1> HIDE DEF v, w
<1>4. Leaves(v, w)
  BY <1>1, <1>2, <1>3 DEF Leaves
<1>5. Step(v, w)
  BY <1>4 DEF Step
<1> QED
  BY <1>5 DEF v, w

LEMMA ReplaceStep ==
  ASSUME TypeOK, NEW x \in RunIds, x \in used, NEW y \in RunIds, NEW v \in Volatile,
         ReplaceSubagentRun(x, y, v),
         \/ memory[x].steering /\ v.flow = memory[x].flow
         \/ memory[x].flow = "announcing" /\ v.flow = "none" /\ v.steering = memory[x].steering,
         UNCHANGED <<sessions, expired, sweeping, troubles, announced, cut, killed>>
  PROVE  Steps
<1> DEFINE u == [v EXCEPT !.grace = FALSE, !.resumed = FALSE]
<1>1. /\ runs' = [[runs EXCEPT ![x] = NoRun] EXCEPT ![y] = NewEntry]
      /\ memory' = [[memory EXCEPT ![x] = u] EXCEPT ![y] = Fresh]
      /\ disk' = runs' /\ used' = used \union {y} /\ child' = [child EXCEPT ![y] = "running"]
      /\ replaced' = replaced \union {x} /\ y \notin used
  BY DEF ReplaceSubagentRun, Enter, Persist, Fresh
<1>2. u \in Volatile /\ u.flow = v.flow /\ u.steering = v.steering
  BY DEF Volatile
<1>3. x # y
  BY <1>1
<1> HIDE DEF u
<1>4. /\ runs' \in [RunIds -> Entries] /\ memory' \in [RunIds -> Volatile]
      /\ runs'[x] = NoRun /\ memory'[x] = u /\ runs'[y] = NewEntry /\ memory'[y] = Fresh
      /\ \A z \in RunIds : z \notin {x, y} => runs'[z] = runs[z] /\ memory'[z] = memory[z]
  BY <1>1, <1>2, <1>3, FreshLemma DEF TypeOK, Entries
<1>5. TypeOK'
  BY <1>1, <1>4 DEF TypeOK, Entries
<1>6. ASSUME NEW z \in RunIds, z \notin {x, y}
      PROVE  Step(View(z), View(z)')
  <2>1. SameSets(z)
    BY <1>1, <1>6 DEF SameSets
  <2> QED
    BY <1>1, <1>4, <1>6, <2>1, OtherLemma
<1>7. Step(View(y), View(y)')
  BY <1>1, <1>3, <1>4, EntersLemma
<1>8. Step(View(x), View(x)')
  BY <1>1, <1>2, <1>3, <1>4, LeavesLemma
<1> QED
  BY <1>5, <1>6, <1>7, <1>8 DEF Steps

LEMMA SteerSucceedsStep ==
  ASSUME IInv, NEW x \in RunIds, NEW y \in RunIds, SteerSucceeds(x, y)
  PROVE  Steps
<1> DEFINE v == [memory[x] EXCEPT !.steering = FALSE]
<1>1. TypeOK /\ x \in used /\ memory[x] \in Volatile /\ memory[x].steering
  BY InvLemma, RunLemma DEF SteerSucceeds
<1>2. v \in Volatile /\ v.flow = memory[x].flow
  BY <1>1 DEF Volatile
<1>3. /\ ReplaceSubagentRun(x, y, v)
      /\ UNCHANGED <<sessions, expired, sweeping, troubles, announced, cut, killed>>
  BY DEF SteerSucceeds
<1> HIDE DEF v
<1> QED
  BY <1>1, <1>2, <1>3, ReplaceStep

LEMMA WakeAfterDescendantsStep ==
  ASSUME IInv, NEW x \in RunIds, NEW y \in RunIds, WakeAfterDescendants(x, y)
  PROVE  Steps
<1> DEFINE v == [memory[x] EXCEPT !.flow = "none"]
<1>1. TypeOK /\ x \in used /\ memory[x] \in Volatile /\ memory[x].flow = "announcing"
  BY InvLemma, RunLemma DEF WakeAfterDescendants
<1>2. v \in Volatile /\ v.flow = "none" /\ v.steering = memory[x].steering
  BY <1>1, FlowEndsLemma
<1>3. /\ ReplaceSubagentRun(x, y, v)
      /\ UNCHANGED <<sessions, expired, sweeping, troubles, announced, cut, killed>>
  BY DEF WakeAfterDescendants
<1> HIDE DEF v
<1> QED
  BY <1>1, <1>2, <1>3, ReplaceStep

\* A run that is killed before it ends.
LEMMA DiesLemma ==
  ASSUME NEW z \in RunIds, z \in used' <=> z \in used, z \in replaced' <=> z \in replaced,
         z \in cut' <=> z \in cut, z \in killed', announced'[z] = announced[z],
         Minor(memory[z], memory'[z]),
         runs[z] # NoRun, runs'[z] # NoRun, disk'[z] = runs'[z], ~runs[z].ended,
         runs'[z].ended, runs'[z].handled, runs'[z].completed,
         runs'[z].suppress = "killed", runs'[z].retries = runs[z].retries
  PROVE  Step(View(z), View(z)')
<1> DEFINE v == View(z)
           w == View(z)'
<1>0. memory'[z].flow = memory[z].flow
  BY DEF Minor
<1>1. /\ v.entry = runs[z] /\ v.flow = memory[z].flow /\ v.told = announced[z]
      /\ w.entry = runs'[z] /\ w.saved = disk'[z] /\ w.flow = memory'[z].flow /\ w.told = announced'[z]
  BY ViewLemma, NextViewLemma
<1>2. (w.used <=> v.used) /\ (w.replaced <=> v.replaced)
  BY ViewLemma, NextViewLemma
<1>3. w.killed /\ (w.cut <=> v.cut)
  BY ViewLemma, NextViewLemma
<1> HIDE DEF v, w
<1>4. Dies(v, w)
  BY <1>0, <1>1, <1>2, <1>3 DEF Dies, SameHistory
<1>5. Step(v, w)
  BY <1>4 DEF Step
<1> QED
  BY <1>5 DEF v, w

LEMMA KillStep ==
  ASSUME TypeOK, NEW x \in RunIds, Kill(x)
  PROVE  Steps
<1> DEFINE hit(y) == SessionOf[y] = SessionOf[x] /\ Known(y) /\ ~runs[y].ended
           dead(y) == [runs[y] EXCEPT !.ended = TRUE, !.reason = "killed",
                                      !.handled = TRUE, !.completed = TRUE, !.suppress = "killed"]
           calm(y) == [memory[y] EXCEPT !.grace = FALSE]
<1>1. /\ runs' = [y \in RunIds |-> IF hit(y) THEN dead(y) ELSE runs[y]]
      /\ memory' = [y \in RunIds |-> IF SessionOf[y] = SessionOf[x] THEN calm(y) ELSE memory[y]]
      /\ disk' = runs' /\ killed' = killed \union {y \in RunIds : hit(y)}
      /\ UNCHANGED <<child, used, sessions, expired, sweeping, announced, replaced, cut>>
  BY DEF Kill, Persist
<1>2. troubles' \in 0..MaxTroubles
  BY TroubleLemma DEF Kill
<1>3. ASSUME NEW y \in RunIds, hit(y)
      PROVE  /\ dead(y) \in Entry /\ dead(y).ended /\ dead(y).handled /\ dead(y).completed
             /\ dead(y).suppress = "killed" /\ dead(y).retries = runs[y].retries
  <2>1. runs[y] \in Entry
    BY <1>3, RunLemma
  <2> QED
    BY <2>1 DEF Entry
<1>4. \A y \in RunIds : /\ Minor(memory[y], memory[y]) /\ Minor(memory[y], calm(y))
                        /\ runs[y] \in Entries /\ memory[y] \in Volatile
  BY RunLemma, MinorLemma
<1>5. ASSUME NEW y \in RunIds
      PROVE  Minor(memory[y], memory'[y]) /\ memory'[y] \in Volatile
  BY <1>1, <1>4 DEF Minor
<1>6. \A y \in RunIds : hit(y) => Known(y) /\ ~runs[y].ended
  OBVIOUS
<1> HIDE DEF hit, dead, calm
<1>7. runs' \in [RunIds -> Entries]
  BY <1>1, <1>3, <1>4 DEF Entries
<1>8. memory' \in [RunIds -> Volatile]
  BY <1>1, <1>5
<1>9. TypeOK'
  BY <1>1, <1>2, <1>7, <1>8 DEF TypeOK, Entries
<1>10. ASSUME NEW z \in RunIds, hit(z)
       PROVE  Step(View(z), View(z)')
  <2>1. runs'[z] = dead(z) /\ dead(z) # NoRun
    BY <1>1, <1>3, <1>10, EntryLemma
  <2>2. z \in killed' /\ disk'[z] = runs'[z] /\ announced'[z] = announced[z]
    BY <1>1, <1>10
  <2>3. runs[z] # NoRun /\ ~runs[z].ended
    BY <1>6, <1>10 DEF Known
  <2> QED
    BY <1>1, <1>3, <1>5, <1>10, <2>1, <2>2, <2>3, DiesLemma
<1>11. ASSUME NEW z \in RunIds, ~hit(z)
       PROVE  Step(View(z), View(z)')
  <2>1. SameSets(z)
    BY <1>1, <1>11 DEF SameSets
  <2>2. runs'[z] = runs[z] /\ disk'[z] \in {disk[z], runs[z]} /\ announced'[z] = announced[z]
    BY <1>1, <1>11
  <2> QED
    BY <1>5, <2>1, <2>2, AloneLemma
<1> QED
  BY <1>9, <1>10, <1>11 DEF Steps

\* A run after a crash.
LEMMA RestoredLemma ==
  ASSUME NEW z \in RunIds, z \in used' <=> z \in used, z \in replaced' <=> z \in replaced,
         z \in killed' <=> z \in killed, announced'[z] = announced[z],
         NEW r, Goes(disk[z], Nothing, r), Spare(r), runs'[z] = r.e, memory'[z] = r.v,
         disk'[z] = r.e,
         disk[z] # NoRun /\ ~disk[z].completed /\ disk[z].handled => z \in cut'
  PROVE  Step(View(z), View(z)')
<1> DEFINE v == View(z)
           w == View(z)'
<1>1. /\ v.saved = disk[z] /\ v.told = announced[z]
      /\ w.entry = r.e /\ w.saved = r.e /\ w.flow = r.v.flow /\ w.told = announced'[z]
      /\ w.freezing = r.v.freezing
  BY ViewLemma, NextViewLemma
<1>2. (w.used <=> v.used) /\ (w.replaced <=> v.replaced)
  BY ViewLemma, NextViewLemma
<1>3. (w.killed <=> v.killed) /\ (w.cut <=> z \in cut')
  BY ViewLemma, NextViewLemma
<1>4. w.freezing = 0 /\ ~w.steering
  BY <1>1, FreshLemma, NextViewLemma DEF Goes
<1> HIDE DEF v, w
<1>5. CASE Begins(disk[z], r.e) /\ r.v.flow = "announcing"
  <2>1. Restored(v, w)
    BY <1>1, <1>2, <1>3, <1>4, <1>5 DEF Restored, SameHistory
  <2>2. Step(v, w)
    BY <2>1 DEF Step
  <2> QED
    BY <2>2 DEF v, w
<1>6. CASE Left(disk[z], r.e) /\ r.v.flow = Nothing.flow
  <2>1. w.entry # NoRun /\ ~w.entry.completed =>
          w.entry.retries < MaxRetries /\ (w.entry.handled => w.cut)
    BY <1>1, <1>3, <1>6 DEF Spare, Left, Kept
  <2>2. w.flow = "none"
    BY <1>1, <1>6, FreshLemma
  <2>3. Restored(v, w)
    BY <1>1, <1>2, <1>3, <1>4, <1>6, <2>1, <2>2 DEF Restored, SameHistory
  <2>4. Step(v, w)
    BY <2>3 DEF Step
  <2> QED
    BY <2>4 DEF v, w
<1> QED
  BY <1>5, <1>6 DEF Goes

LEMMA CrashAndRestoreStep ==
  ASSUME TypeOK, CrashAndRestore
  PROVE  Steps
<1> DEFINE back(x) == Resumed(x, disk[x], Nothing)
           lost(x) == disk[x] # NoRun /\ ~disk[x].completed /\ (disk[x].handled \/ Suppressed(disk[x]))
<1>1. /\ runs' = [x \in RunIds |-> back(x).e] /\ memory' = [x \in RunIds |-> back(x).v]
      /\ disk' = runs' /\ sweeping' = FALSE
      /\ UNCHANGED <<used, sessions, expired, announced, replaced, killed>>
  BY DEF CrashAndRestore
<1>2. cut' = cut \union {x \in RunIds : lost(x)}
  BY DEF CrashAndRestore
<1>3. child' = [x \in RunIds |-> IF child[x] = "running" THEN "dead" ELSE child[x]]
  BY DEF CrashAndRestore
<1>4. troubles' \in 0..MaxTroubles
  BY TroubleLemma DEF CrashAndRestore
<1>5. ASSUME NEW z \in RunIds
      PROVE  Goes(disk[z], Nothing, back(z)) /\ Spare(back(z))
  BY RunLemma, FreshLemma, ResumedLemma
<1>6. ASSUME NEW z \in RunIds, disk[z] # NoRun /\ ~disk[z].completed /\ disk[z].handled
      PROVE  z \in cut'
  BY <1>2, <1>6
<1> HIDE DEF back, lost
<1>7. \A z \in RunIds : back(z).e \in Entries /\ back(z).v \in Volatile
  BY <1>5 DEF Goes
<1>8. runs' \in [RunIds -> Entries] /\ memory' \in [RunIds -> Volatile]
  BY <1>1, <1>7
<1>9. child' \in [RunIds -> {"none", "running", "over", "dead"}]
  BY <1>3 DEF TypeOK
<1>10. cut' \in SUBSET RunIds
  BY <1>2 DEF TypeOK
<1>11. TypeOK'
  BY <1>1, <1>4, <1>8, <1>9, <1>10 DEF TypeOK, Entries
<1>12. ASSUME NEW z \in RunIds
       PROVE  Step(View(z), View(z)')
  <2>1. runs'[z] = back(z).e /\ memory'[z] = back(z).v /\ disk'[z] = back(z).e
    BY <1>1
  <2> QED
    BY <1>1, <1>5, <1>6, <2>1, RestoredLemma
<1> QED
  BY <1>11, <1>12 DEF Steps

-----------------------------------------------------------------------------
(* The invariant *)

LEMMA InitLemma ==
  ASSUME Init
  PROVE  IInv
<1>1. TypeOK
  <2>1. 0 \in 0..MaxTroubles
    BY RegistryAssumption DEF RegistryAssumption
  <2>2. memory \in [RunIds -> Volatile]
    BY FreshLemma DEF Init
  <2> QED
    BY <2>1, <2>2 DEF Init, TypeOK
<1>2. ASSUME NEW z \in RunIds
      PROVE  Good(View(z))
  <2> DEFINE v == View(z)
  <2>1. /\ v.entry = NoRun /\ v.saved = NoRun /\ v.flow = "none" /\ v.freezing = 0 /\ v.told = 0
    BY ViewLemma, FreshLemma DEF Init
  <2>2. ~v.steering /\ ~v.replaced
    BY ViewLemma, FreshLemma DEF Init
  <2> HIDE DEF v
  <2>3. Good(v)
    BY <2>1, <2>2 DEF Good, Told, Flowing, Fits, Idle
  <2> QED
    BY <2>3 DEF v
<1> QED
  BY <1>1, <1>2 DEF IInv

LEMMA NextLemma ==
  ASSUME IInv, Next
  PROVE  Steps
<1>1. TypeOK
  BY DEF IInv
<1>2. ASSUME NEW x \in RunIds,
             \/ RegisterSubagentRun(x)
             \/ LifecycleError(x) \/ LifecycleStart(x) \/ LifecycleEnd(x)
             \/ GraceOver(x)
             \/ \E reason \in {"complete", "error"} : WaitAnswers(x, reason)
             \/ WaitFails(x)
             \/ EndCompletion(x)
             \/ EndOfFlow(x)
             \/ CompleteCleanup(x) \/ GiveUp(x)
             \/ \E kind \in {"plain", "clear"} : RetryTimer(x, kind)
             \/ BackoffOver(x) \/ Expires(x)
             \/ MarkForSteer(x) \/ EndOfSteer(x)
             \/ Kill(x) \/ Sweep(x)
      PROVE  Steps
  <2>1. CASE RegisterSubagentRun(x)
    BY <1>1, <2>1, RegisterSubagentRunStep
  <2>2. CASE LifecycleError(x)
    BY <1>1, <2>2, LifecycleErrorStep
  <2>3. CASE LifecycleStart(x)
    BY <1>1, <2>3, LifecycleStartStep
  <2>4. CASE LifecycleEnd(x)
    BY <2>4, LifecycleEndStep
  <2>5. CASE GraceOver(x)
    BY <2>5, GraceOverStep
  <2>6. CASE \E reason \in {"complete", "error"} : WaitAnswers(x, reason)
    BY <2>6, WaitAnswersStep
  <2>7. CASE WaitFails(x)
    BY <1>1, <2>7, WaitFailsStep
  <2>8. CASE EndCompletion(x)
    BY <2>8, EndCompletionStep
  <2>9. CASE EndOfFlow(x)
    <3>1. CASE \E told \in BOOLEAN : AnnounceSucceeds(x, told)
      BY <1>1, <3>1, AnnounceSucceedsStep
    <3>2. CASE AnnounceFails(x)
      BY <3>2, AnnounceFailsStep
    <3>3. CASE \E y \in RunIds : WakeAfterDescendants(x, y)
      BY <3>3, WakeAfterDescendantsStep
    <3> QED
      BY <2>9, <3>1, <3>2, <3>3 DEF EndOfFlow
  <2>10. CASE CompleteCleanup(x)
    BY <1>1, <2>10, CompleteCleanupStep
  <2>11. CASE GiveUp(x)
    BY <1>1, <2>11, GiveUpStep
  <2>12. CASE \E kind \in {"plain", "clear"} : RetryTimer(x, kind)
    BY <1>1, <2>12, RetryTimerStep
  <2>13. CASE BackoffOver(x)
    BY <1>1, <2>13, BackoffOverStep
  <2>14. CASE Expires(x)
    BY <1>1, <2>14, ExpiresStep
  <2>15. CASE MarkForSteer(x)
    BY <1>1, <2>15, MarkForSteerStep
  <2>16. CASE EndOfSteer(x)
    BY <1>1, <2>16, SteerFailsStep, SteerSucceedsStep DEF EndOfSteer
  <2>17. CASE Kill(x)
    BY <1>1, <2>17, KillStep
  <2>18. CASE Sweep(x)
    BY <1>1, <2>18, SweepStep
  <2> QED
    BY <1>2, <2>1, <2>2, <2>3, <2>4, <2>5, <2>6, <2>7, <2>8, <2>9, <2>10, <2>11, <2>12,
       <2>13, <2>14, <2>15, <2>16, <2>17, <2>18
<1>3. CASE SweepDone
  BY <1>1, <1>3, SweepDoneStep
<1>4. CASE CrashAndRestore
  BY <1>1, <1>4, CrashAndRestoreStep
<1> QED
  BY <1>2, <1>3, <1>4 DEF Next

LEMMA InductionLemma ==
  ASSUME IInv, [Next]_vars
  PROVE  IInv'
<1>1. CASE Next
  <2>1. Steps
    BY <1>1, NextLemma
  <2>2. TypeOK /\ TypeOK'
    BY <2>1 DEF IInv, Steps
  <2>3. ASSUME NEW z \in RunIds
        PROVE  Good(View(z)')
    <3>1. Typed(View(z))
      <4>1. announced[z] \in Nat
        BY <2>2 DEF TypeOK
      <4> QED
        BY <2>2, <4>1, ViewLemma, RunLemma, VolatileLemma DEF Typed
    <3>2. Typed(View(z)')
      <4>1. /\ runs'[z] \in Entries /\ disk'[z] \in Entries /\ memory'[z] \in Volatile
            /\ announced'[z] \in Nat
        BY <2>2 DEF TypeOK, Entries
      <4> QED
        BY <4>1, NextViewLemma, VolatileLemma DEF Typed
    <3>3. Good(View(z)) /\ Step(View(z), View(z)')
      BY <2>1 DEF IInv, Steps
    <3> QED
      BY <3>1, <3>2, <3>3, GoodLemma
  <2> QED
    BY <2>2, <2>3 DEF IInv
<1>2. CASE UNCHANGED vars
  <2>1. TypeOK'
    BY <1>2 DEF IInv, TypeOK, vars, registry, world, history
  <2>2. \A z \in RunIds : View(z)' = View(z)
    BY <1>2 DEF View, vars, registry, world, history
  <2> QED
    BY <2>1, <2>2 DEF IInv
<1> QED
  BY <1>1, <1>2

\* The state has its types (retries and captures stay within their bounds),
\* and what is said of each run above holds in every state.
THEOREM Invariance == Spec => []IInv
<1>1. Init => IInv
  BY InitLemma
<1>2. IInv /\ [Next]_vars => IInv'
  BY InductionLemma
<1> QED
  BY <1>1, <1>2, PTL DEF Spec

-----------------------------------------------------------------------------
(* Properties *)

LEMMA OnceLemma ==
  ASSUME IInv
  PROVE  AnnouncedAtMostOnce
<1> SUFFICES ASSUME NEW x \in RunIds PROVE announced[x] <= 1
  BY DEF AnnouncedAtMostOnce
<1>1. Told(View(x))
  BY DEF IInv, Good
<1> QED
  BY <1>1, ViewLemma DEF Told

\* However events, answers, timers, retries and restores overlap, the requester
\* is told of a run at most once.
THEOREM OnceOnly == Spec => []AnnouncedAtMostOnce
<1>1. IInv => AnnouncedAtMostOnce
  BY OnceLemma
<1> QED
  BY <1>1, Invariance, PTL

LEMMA SilentLemma ==
  ASSUME IInv
  PROVE  ReplacedIsSilent
<1> SUFFICES ASSUME NEW x \in replaced \ killed PROVE announced[x] = 0
  BY DEF ReplacedIsSilent
<1>1. x \in RunIds
  BY DEF IInv, TypeOK
<1> DEFINE v == View(x)
<1>2. Told(v)
  BY <1>1 DEF IInv, Good
<1>3. v.replaced /\ ~v.killed /\ v.told = announced[x]
  BY ViewLemma
<1> HIDE DEF v
<1>4. v.told = 0
  BY <1>2, <1>3 DEF Told, Idle
<1> QED
  BY <1>3, <1>4

\* Nobody is told of a run that a steer or a wake has replaced.
THEOREM ReplacedSilent == Spec => []ReplacedIsSilent
<1>1. IInv => ReplacedIsSilent
  BY SilentLemma
<1> QED
  BY <1>1, Invariance, PTL

LEMMA FlowLemma ==
  ASSUME IInv
  PROVE  HandledHasFlow
<1>1. TypeOK
  BY DEF IInv
<1>2. ASSUME NEW x \in RunIds \ cut, Known(x), runs[x].handled, ~runs[x].completed
      PROVE  memory[x].flow # "none"
  <2> DEFINE v == View(x)
  <2>1. Flowing(v)
    BY DEF IInv, Good
  <2>2. v.entry = runs[x] /\ v.flow = memory[x].flow
    BY ViewLemma
  <2>3. ~v.cut
    BY ViewLemma
  <2> HIDE DEF v
  <2> QED
    BY <1>2, <2>1, <2>2, <2>3 DEF Flowing, Known
<1> QED
  BY <1>1, <1>2 DEF HandledHasFlow

\* What is marked as handled and not completed is being announced, or given up,
\* unless a crash has cut it.
THEOREM HandledFlows == Spec => []HandledHasFlow
<1>1. IInv => HandledHasFlow
  BY FlowLemma
<1> QED
  BY <1>1, Invariance, PTL

-----------------------------------------------------------------------------
(* Descendants *)

\* A run that a session has asked for is pending for it until it is completed.
LEMMA PendingLemma ==
  ASSUME NEW x \in RunIds, NEW y \in RunIds, Requester[SessionOf[y]] = SessionOf[x], Known(y),
         PendingDescendants(x) = {}
  PROVE  runs[y].completed
<1>1. SessionOf[x] \in Sessions
  BY DEF Sessions
<1>2. SessionOf[x] \in Reached(SessionOf[x])
  BY <1>1 DEF Reached
<1>3. Snapshot(y) = runs[y] /\ Snapshot(y) # NoRun
  BY DEF Snapshot, Known
<1>4. y \notin PendingDescendants(x)
  OBVIOUS
<1> QED
  BY <1>2, <1>3, <1>4 DEF PendingDescendants

\* Only an announcement that succeeds tells the requester.
LEMMA ToldLemma ==
  ASSUME TypeOK, Next, NEW x \in RunIds, announced'[x] > announced[x]
  PROVE  PendingDescendants(x) = {}
<1>0. announced \in [RunIds -> Nat] /\ announced' # announced
  BY DEF TypeOK
<1>1. PICK z \in RunIds : \E told \in BOOLEAN : AnnounceSucceeds(z, told)
  <2> SUFFICES ASSUME \A z \in RunIds, told \in BOOLEAN : ~AnnounceSucceeds(z, told)
               PROVE  announced' = announced
    BY <1>0
  <2>1. ASSUME NEW z \in RunIds, RegisterSubagentRun(z) PROVE announced' = announced
    BY <2>1 DEF RegisterSubagentRun, history
  <2>2. ASSUME NEW z \in RunIds, LifecycleError(z) PROVE announced' = announced
    BY <2>2 DEF LifecycleError, history
  <2>3. ASSUME NEW z \in RunIds, LifecycleStart(z) PROVE announced' = announced
    BY <2>3 DEF LifecycleStart, history
  <2>4. ASSUME NEW z \in RunIds, LifecycleEnd(z) PROVE announced' = announced
    BY <2>4 DEF LifecycleEnd, history
  <2>5. ASSUME NEW z \in RunIds, GraceOver(z) PROVE announced' = announced
    BY <2>5 DEF GraceOver, history
  <2>6. ASSUME NEW z \in RunIds, WaitFails(z) PROVE announced' = announced
    BY <2>6 DEF WaitFails, history
  <2>7. ASSUME NEW z \in RunIds, EndCompletion(z) PROVE announced' = announced
    BY <2>7 DEF EndCompletion, history
  <2>8. ASSUME NEW z \in RunIds, AnnounceFails(z) PROVE announced' = announced
    BY <2>8 DEF AnnounceFails, history
  <2>9. ASSUME NEW z \in RunIds, CompleteCleanup(z) PROVE announced' = announced
    BY <2>9 DEF CompleteCleanup, history
  <2>10. ASSUME NEW z \in RunIds, GiveUp(z) PROVE announced' = announced
    BY <2>10 DEF GiveUp, history
  <2>11. ASSUME NEW z \in RunIds, BackoffOver(z) PROVE announced' = announced
    BY <2>11 DEF BackoffOver, history
  <2>12. ASSUME NEW z \in RunIds, Expires(z) PROVE announced' = announced
    BY <2>12 DEF Expires, history
  <2>13. ASSUME NEW z \in RunIds, MarkForSteer(z) PROVE announced' = announced
    BY <2>13 DEF MarkForSteer, history
  <2>14. ASSUME NEW z \in RunIds, Kill(z) PROVE announced' = announced
    BY <2>14 DEF Kill, history
  <2>15. ASSUME NEW z \in RunIds, Sweep(z) PROVE announced' = announced
    BY <2>15 DEF Sweep, history
  <2>16. ASSUME NEW z \in RunIds, NEW reason \in {"complete", "error"}, WaitAnswers(z, reason)
         PROVE announced' = announced
    BY <2>16 DEF WaitAnswers, history
  <2>17. ASSUME NEW z \in RunIds, NEW kind \in {"plain", "clear"}, RetryTimer(z, kind)
         PROVE announced' = announced
    BY <2>17 DEF RetryTimer, history
  <2>18. ASSUME NEW z \in RunIds, NEW y \in RunIds, WakeAfterDescendants(z, y)
         PROVE announced' = announced
    BY <2>18 DEF WakeAfterDescendants, history
  <2>19. ASSUME NEW z \in RunIds, EndOfSteer(z) PROVE announced' = announced
    BY <2>19 DEF EndOfSteer, SteerFails, SteerSucceeds, history
  <2>20. ASSUME SweepDone PROVE announced' = announced
    BY <2>20 DEF SweepDone, history
  <2>21. ASSUME CrashAndRestore PROVE announced' = announced
    BY <2>21 DEF CrashAndRestore, history
  <2> QED
    BY <2>1, <2>2, <2>3, <2>4, <2>5, <2>6, <2>7, <2>8, <2>9, <2>10, <2>11, <2>12, <2>13,
       <2>14, <2>15, <2>16, <2>17, <2>18, <2>19, <2>20, <2>21 DEF Next, EndOfFlow
<1>2. z # x => announced'[x] = announced[x]
  BY <1>0, <1>1 DEF AnnounceSucceeds
<1>3. z = x
  BY <1>0, <1>2
<1> QED
  BY <1>1, <1>3 DEF AnnounceSucceeds

LEMMA BottomUpLemma ==
  ASSUME TypeOK, [Next]_vars, NEW x \in RunIds, NEW y \in RunIds,
         announced'[x] > announced[x], Requester[SessionOf[y]] = SessionOf[x], Known(y)
  PROVE  runs[y].completed
<1>1. announced' # announced
  BY DEF TypeOK
<1>2. Next
  BY <1>1 DEF vars, history
<1> QED
  BY <1>2, ToldLemma, PendingLemma

\* When a run is announced, every run that its session has spawned was announced,
\* given up, killed or archived.
THEOREM BottomUp == Spec => DescendantsFirst
<1>1. TypeOK /\ [Next]_vars =>
        [\A x, y \in RunIds :
           announced'[x] > announced[x] /\ Requester[SessionOf[y]] = SessionOf[x] /\ Known(y)
             => runs[y].completed]_vars
  BY BottomUpLemma
<1>2. IInv => TypeOK
  BY DEF IInv
<1> QED
  BY <1>1, <1>2, Invariance, PTL DEF Spec, DescendantsFirst

=============================================================================
