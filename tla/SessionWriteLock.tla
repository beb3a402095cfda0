-------------------------- MODULE SessionWriteLock --------------------------
(***************************************************************************)
(* The lock file that guards a session file                                *)
(* (src/src/agents/session-write-lock.ts), for one session file, any       *)
(* number of processes and any number of callers in each.                  *)
(*                                                                         *)
(* A caller creates the file with open(.., "wx"), writes its pid into it   *)
(* and enters the lock in HELD_LOCKS; other callers of the process may     *)
(* share it.  Who finds the file there reads it and removes it if it looks *)
(* stale.  Every removal is by path: it takes whatever file is there.      *)
(* Every file that is created has a number of its own, so that the file a  *)
(* caller means and the file it hits can be told apart.                    *)
(***************************************************************************)
EXTENDS Integers, FiniteSets

CONSTANTS
  Callers,     \* calls of acquireSessionWriteLock, one after the other
  Process,     \* caller -> the process it runs in
  Reentrant,   \* callers with allowReentrant
  Cleaners,    \* callers that may run cleanStaleLockFiles
  Starttimes,  \* getProcessStartTime works on this platform
  MaxLocks,    \* bound: files that are created
  MaxEnds      \* bound: crashes and terminations

Procs == {Process[t] : t \in Callers}
Locks == 1..MaxLocks

ASSUME LockAssumption ==
  /\ Callers # {} /\ IsFiniteSet(Callers)
  /\ Process \in [Callers -> Procs]
  /\ Reentrant \subseteq Callers /\ Cleaners \subseteq Callers
  /\ Starttimes \in BOOLEAN
  /\ MaxLocks \in Nat /\ MaxEnds \in Nat

VARIABLES
  file,      \* the lock file at the path: its number, 0 if there is none
  made,      \* files created so far
  maker,     \* lock -> the process that created its file
  written,   \* locks with a payload
  old,       \* locks whose file is older than staleMs
  dead,      \* locks of processes that have ended
  held,      \* HELD_LOCKS: process -> lock, 0 if none
  count,     \* HeldLock.count of the lock in held
  closing,   \* locks whose releasePromise is pending
  pc,        \* caller -> what it does
  using,     \* caller -> the lock it has created or shares
  ends,
  replaced,  \* history: callers whose verdict is about a file that is gone
  dropped,   \* history: locks that the watchdog or a signal has released
  stolen     \* history: the file of a live lock was removed as stale

locks == <<made, maker, written, old, dead>>
tables == <<held, count, closing>>
history == <<replaced, dropped, stolen>>
vars == <<file, locks, tables, pc, using, ends, history>>

Stages == {"idle", "opening", "writing", "registering", "undoing", "reading", "stat",
           "removing", "sweeping", "holding", "releasing"}

TypeOK ==
  /\ file \in 0..made
  /\ made \in 0..MaxLocks
  /\ maker \in [Locks -> Procs]
  /\ written \in SUBSET (1..made) /\ old \in SUBSET (1..made) /\ dead \in SUBSET (1..made)
  /\ held \in [Procs -> 0..made]
  /\ count \in [Procs -> Nat]
  /\ closing \in SUBSET (1..made)
  /\ pc \in [Callers -> Stages]
  /\ using \in [Callers -> 0..made]
  /\ ends \in 0..MaxEnds
  /\ replaced \in SUBSET Callers
  /\ dropped \in SUBSET (1..made)
  /\ stolen \in BOOLEAN

Init ==
  /\ file = 0 /\ made = 0
  /\ maker = [n \in Locks |-> CHOOSE p \in Procs : TRUE]
  /\ written = {} /\ old = {} /\ dead = {}
  /\ held = [p \in Procs |-> 0]
  /\ count = [p \in Procs |-> 0]
  /\ closing = {}
  /\ pc = [t \in Callers |-> "idle"]
  /\ using = [t \in Callers |-> 0]
  /\ ends = 0
  /\ replaced = {} /\ dropped = {} /\ stolen = FALSE

Goto(t, stage) == pc' = [pc EXCEPT ![t] = stage]

\* Somebody is creating, holding or releasing lock n.
Live(n) ==
  \/ \E t \in Callers : using[t] = n /\ pc[t] \in {"writing", "registering", "undoing"}
  \/ \E p \in Procs : held[p] = n
  \/ n \in closing

\* fs.rm of the path; verdicts about the file are out of date.
RemoveFile ==
  /\ file' = 0
  /\ replaced' = IF file = 0 THEN replaced
                 ELSE replaced \union {t \in Callers : pc[t] \in {"removing", "sweeping"}}

-----------------------------------------------------------------------------
(* Acquiring *)

\* acquireSessionWriteLock up to its loop.
Acquire(t) ==
  LET p == Process[t] IN
  /\ pc[t] = "idle"
  /\ IF t \in Reentrant /\ held[p] # 0
     THEN /\ count' = [count EXCEPT ![p] = @ + 1]
          /\ using' = [using EXCEPT ![t] = held[p]]
          /\ Goto(t, "holding")
     ELSE Goto(t, "opening") /\ UNCHANGED <<count, using>>
  /\ UNCHANGED <<file, locks, held, closing, ends, history>>

\* open(lockPath, "wx").
Open(t) ==
  /\ pc[t] = "opening"
  /\ IF file = 0
     THEN /\ made < MaxLocks
          /\ made' = made + 1
          /\ file' = made + 1
          /\ maker' = [maker EXCEPT ![made + 1] = Process[t]]
          /\ using' = [using EXCEPT ![t] = made + 1]
          /\ Goto(t, "writing")
     ELSE Goto(t, "reading") /\ UNCHANGED <<file, made, maker, using>>
  /\ UNCHANGED <<written, old, dead, tables, ends, history>>

\* handle.writeFile goes to the file that was opened, wherever it is now.
Write(t) ==
  /\ pc[t] = "writing"
  /\ written' = written \union {using[t]}
  /\ Goto(t, "registering")
  /\ UNCHANGED <<file, made, maker, old, dead, tables, using, ends, history>>

Register(t) ==
  LET p == Process[t] IN
  /\ pc[t] = "registering"
  /\ held' = [held EXCEPT ![p] = using[t]]
  /\ count' = [count EXCEPT ![p] = 1]
  /\ Goto(t, "holding")
  /\ UNCHANGED <<file, locks, closing, using, ends, history>>

\* The payload cannot be written: the file is removed and the error thrown.
WriteFails(t) ==
  /\ pc[t] = "writing"
  /\ Goto(t, "undoing")
  /\ UNCHANGED <<file, locks, tables, using, ends, history>>

Undo(t) ==
  /\ pc[t] = "undoing"
  /\ RemoveFile
  /\ Goto(t, "idle")
  /\ UNCHANGED <<locks, tables, using, ends, dropped, stolen>>

\* shouldTreatAsOrphanSelfLock: the payload names this process, which knows of
\* no lock.
OrphanSelf(t) ==
  ~Starttimes /\ file \in written /\ maker[file] = Process[t] /\ held[Process[t]] = 0

\* inspectLockPayload of a file with a payload: the process is gone, or another
\* one has its pid, or the file is too old.
LooksStale(n) == n \in dead \/ n \in old

\* readLockPayload and the verdict.  Without a payload the file is looked at
\* again: it may have just been created.
Read(t) ==
  /\ pc[t] = "reading"
  /\ replaced' = replaced \ {t}
  /\ Goto(t, IF file \notin written THEN "stat"
             ELSE IF LooksStale(file) \/ OrphanSelf(t) THEN "removing" ELSE "opening")
  /\ UNCHANGED <<file, locks, tables, using, ends, dropped, stolen>>

\* Mutant: a file without a payload is stale, however new it is.
StatNotAsked(t) ==
  /\ pc[t] = "stat"
  /\ Goto(t, IF file # 0 THEN "removing" ELSE "opening")
  /\ UNCHANGED <<file, locks, tables, using, ends, history>>

\* Mutant: a file without a payload is never stale.
StatNeverStale(t) ==
  /\ pc[t] = "stat"
  /\ Goto(t, "opening")
  /\ UNCHANGED <<file, locks, tables, using, ends, history>>

\* shouldReclaimContendedLockFile asks for the age of the file there is now.
Stat(t) ==
  /\ pc[t] = "stat"
  /\ Goto(t, IF file \in old THEN "removing" ELSE "opening")
  /\ UNCHANGED <<file, locks, tables, using, ends, history>>

\* The file that looked stale is removed, and the loop goes on.
Reclaim(t) ==
  /\ pc[t] = "removing"
  /\ RemoveFile
  /\ stolen' = (stolen \/ (file # 0 /\ Live(file)))
  /\ Goto(t, "opening")
  /\ UNCHANGED <<locks, tables, using, ends, dropped>>

\* The loop has run out of time.
GiveUp(t) ==
  /\ pc[t] = "opening"
  /\ Goto(t, "idle")
  /\ UNCHANGED <<file, locks, tables, using, ends, history>>

-----------------------------------------------------------------------------
(* Releasing *)

\* Mutant: whoever releases takes the lock its process holds now.
ReleaseCurrent(t) ==
  LET p == Process[t] IN
  /\ pc[t] = "holding"
  /\ IF held[p] # 0
     THEN /\ held' = [held EXCEPT ![p] = 0]
          /\ count' = [count EXCEPT ![p] = 0]
          /\ closing' = closing \union {held[p]}
     ELSE UNCHANGED tables
  /\ Goto(t, "idle")
  /\ UNCHANGED <<file, locks, using, ends, history>>

\* Mutant: the count goes down before it is clear whose lock it counts.
ReleaseCountsFirst(t) ==
  LET p == Process[t] IN
  /\ pc[t] = "holding"
  /\ count' = [count EXCEPT ![p] = @ - 1]
  /\ IF held[p] = using[t] /\ count[p] <= 1
     THEN /\ held' = [held EXCEPT ![p] = 0]
          /\ closing' = closing \union {using[t]}
          /\ Goto(t, "releasing")
     ELSE UNCHANGED <<held, closing>> /\ Goto(t, "idle")
  /\ UNCHANGED <<file, locks, using, ends, history>>

\* releaseHeldLock: a lock that is not in HELD_LOCKS any more is left alone.
Release(t) ==
  LET p == Process[t]
      n == using[t] IN
  /\ pc[t] = "holding"
  /\ \/ /\ held[p] # n
        /\ Goto(t, "idle") /\ UNCHANGED tables
     \/ /\ held[p] = n /\ count[p] > 1
        /\ count' = [count EXCEPT ![p] = @ - 1]
        /\ Goto(t, "idle") /\ UNCHANGED <<held, closing>>
     \/ /\ held[p] = n /\ count[p] <= 1
        /\ held' = [held EXCEPT ![p] = 0]
        /\ count' = [count EXCEPT ![p] = 0]
        /\ closing' = closing \union {n}
        /\ Goto(t, "releasing")
  /\ UNCHANGED <<file, locks, using, ends, history>>

\* The file handle is closed and the file removed.
EndRelease(n) ==
  /\ n \in closing
  /\ closing' = closing \ {n}
  /\ RemoveFile
  /\ pc' = [t \in Callers |->
              IF pc[t] = "releasing" /\ using[t] = n THEN "idle" ELSE pc[t]]
  /\ UNCHANGED <<locks, held, count, using, ends, dropped, stolen>>

\* runLockWatchdogCheck: the lock was held for longer than maxHoldMs.
Watchdog(p) ==
  /\ held[p] # 0
  /\ held' = [held EXCEPT ![p] = 0]
  /\ count' = [count EXCEPT ![p] = 0]
  /\ closing' = closing \union {held[p]}
  /\ dropped' = dropped \union {held[p]}
  /\ UNCHANGED <<file, locks, pc, using, ends, replaced, stolen>>

\* staleMs have passed since the file was created.
Age(n) ==
  /\ n = file /\ n # 0 /\ n \notin old
  /\ old' = old \union {n}
  /\ UNCHANGED <<file, made, maker, written, dead, tables, pc, using, ends, history>>

-----------------------------------------------------------------------------
(* Ends of processes, and the cleaning at the start of a gateway *)

\* The process ends and is started again; its pid or start time is another.
Restart(p) ==
  LET mine == {t \in Callers : Process[t] = p} IN
  /\ ends < MaxEnds
  /\ ends' = ends + 1
  /\ dead' = dead \union {n \in 1..made : maker[n] = p}
  /\ held' = [held EXCEPT ![p] = 0]
  /\ count' = [count EXCEPT ![p] = 0]
  /\ closing' = {n \in closing : maker[n] # p}
  /\ pc' = [t \in Callers |-> IF t \in mine THEN "idle" ELSE pc[t]]
  /\ using' = [t \in Callers |-> IF t \in mine THEN 0 ELSE using[t]]
  /\ UNCHANGED <<made, maker, written, old, stolen>>

Crash(p) == Restart(p) /\ UNCHANGED <<file, replaced, dropped>>

\* releaseAllLocksSync before the process exits.
Exit(p) ==
  /\ Restart(p)
  /\ IF held[p] = 0 THEN UNCHANGED <<file, replaced>> ELSE RemoveFile
  /\ UNCHANGED dropped

\* handleTerminationSignal in a process that handles the signal itself: its
\* locks are released at once, and it goes on.
Signal(p) ==
  /\ ends < MaxEnds
  /\ ends' = ends + 1
  /\ held[p] # 0
  /\ held' = [held EXCEPT ![p] = 0]
  /\ count' = [count EXCEPT ![p] = 0]
  /\ RemoveFile
  /\ dropped' = dropped \union {held[p]}
  /\ UNCHANGED <<locks, closing, pc, using, stolen>>

\* cleanStaleLockFiles reads the file; one without a payload counts as stale.
CleanRead(t) ==
  /\ pc[t] = "idle" /\ t \in Cleaners
  /\ file # 0 /\ (file \notin written \/ LooksStale(file))
  /\ replaced' = replaced \ {t}
  /\ Goto(t, "sweeping")
  /\ UNCHANGED <<file, locks, tables, using, ends, dropped, stolen>>

CleanRemove(t) ==
  /\ pc[t] = "sweeping"
  /\ RemoveFile
  /\ stolen' = (stolen \/ (file # 0 /\ Live(file)))
  /\ Goto(t, "idle")
  /\ UNCHANGED <<locks, tables, using, ends, dropped>>

-----------------------------------------------------------------------------
Contend(t) == Open(t) \/ Read(t) \/ Stat(t) \/ Reclaim(t)

Next ==
  \/ \E t \in Callers :
       \/ Acquire(t) \/ Contend(t) \/ GiveUp(t)
       \/ Write(t) \/ Register(t) \/ WriteFails(t) \/ Undo(t)
       \/ Release(t)
       \/ CleanRead(t) \/ CleanRemove(t)
  \/ \E n \in Locks : EndRelease(n) \/ Age(n)
  \/ \E p \in Procs : Watchdog(p) \/ Crash(p) \/ Exit(p) \/ Signal(p)

\* Some caller that is in the loop goes on, and time passes.
Fairness == WF_vars(\E t \in Callers : Contend(t)) /\ WF_vars(\E n \in Locks : Age(n))

Spec == Init /\ [][Next]_vars /\ Fairness

-----------------------------------------------------------------------------
(* Properties *)

\* Callers that have the lock and were not told by force that it is over.
Owners == {t \in Callers : pc[t] = "holding" /\ using[t] \notin dropped}

\* Whoever owns the lock has its file at the path, so the session file has one
\* owner at a time, or several that share a lock in one process, as long as no
\* file of a live lock was removed as stale: late releases, forced releases,
\* signals, failed writes and ends of processes never remove another's file.
OwnersHaveTheFile == ~stolen => \A t \in Owners : using[t] = file

\* A contender that is about to remove the file it has judged means the file of
\* a process that has ended, or one that is too old: never one that is being
\* created, held or released.
ReclaimsOnlyStale ==
  \A t \in Callers :
    pc[t] = "removing" /\ t \notin replaced /\ file # 0 => ~Live(file) \/ file \in old

\* The file of a process that has ended does not keep contenders in their loops
\* for ever, whether its payload was written or not.
DeadLockGivesWay ==
  []<>(file \notin dead
       \/ \A t \in Callers : pc[t] \notin {"opening", "reading", "stat", "removing"})
=============================================================================
