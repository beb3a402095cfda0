----------------------- MODULE SessionWriteLockProofs -----------------------
(***************************************************************************)
(* Proofs about SessionWriteLock, for any number of processes, callers,    *)
(* lock files, crashes and signals.                                        *)
(***************************************************************************)
EXTENDS SessionWriteLock, FiniteSetTheorems, TLAPS

\* Callers that are creating a lock, and those that share the lock of a process.
Making(t) == pc[t] \in {"writing", "registering", "undoing"}
Sharers(p) == {t \in Callers : pc[t] = "holding" /\ using[t] = held[p]}

\* Callers use locks of their own process.
OwnLocks ==
  \A t \in Callers :
    /\ Making(t) \/ pc[t] \in {"holding", "releasing"} => using[t] # 0
    /\ using[t] # 0 => maker[using[t]] = Process[t]

\* A lock in HELD_LOCKS is of its process, and not being released.
HeldLocks == \A p \in Procs : held[p] # 0 => maker[held[p]] = p /\ held[p] \notin closing

\* A lock that is being created is nobody else's.
MakingAlone ==
  \A t \in Callers : Making(t) =>
    /\ using[t] \notin closing
    /\ \A p \in Procs : held[p] # using[t]
    /\ \A u \in Callers \ {t} : using[u] # using[t]

\* HeldLock.count counts the callers that will release the lock.
Counted == \A p \in Procs : held[p] # 0 => count[p] = Cardinality(Sharers(p))

DeadIsOver == \A n \in dead : ~Live(n)

\* Unless a live lock was reclaimed, the live lock is the one whose file exists,
\* and whoever owns it finds it in HELD_LOCKS.
OneLive == ~stolen => \A n \in Locks : Live(n) => file = n
OwnersHold == ~stolen => \A t \in Owners : held[Process[t]] = using[t]

\* A verdict is about the file that is there, or the caller is in replaced.
UpToDate ==
  Starttimes =>
    \A t \in Callers : pc[t] = "removing" /\ t \notin replaced => file \in dead \union old

Structure == TypeOK /\ OwnLocks /\ HeldLocks /\ MakingAlone
IInv == Structure /\ Counted /\ DeadIsOver /\ OneLive /\ OwnersHold /\ UpToDate

LEMMA ProcessType == \A t \in Callers : Process[t] \in Procs
BY DEF Procs

\* Whoever creates or owns a lock uses one of the locks.
LEMMA UsesLock ==
  ASSUME TypeOK, OwnLocks, NEW t \in Callers, Making(t) \/ pc[t] = "holding"
  PROVE  using[t] \in Locks
<1>1. using[t] # 0 /\ using[t] \in 0..made /\ made \in 0..MaxLocks /\ MaxLocks \in Nat
  BY LockAssumption DEF TypeOK, OwnLocks
<1> QED BY <1>1 DEF Locks

-----------------------------------------------------------------------------
(* Types *)

LEMMA FirstTypes == Init => TypeOK
<1> SUFFICES ASSUME Init PROVE TypeOK
  OBVIOUS
<1> USE LockAssumption DEF Init
<1>1. (CHOOSE p \in Procs : TRUE) \in Procs
  BY DEF Procs
<1>2. maker \in [Locks -> Procs]
  BY <1>1
<1>3. held \in [Procs -> 0..made] /\ count \in [Procs -> Nat]
  OBVIOUS
<1>4. pc \in [Callers -> Stages] /\ using \in [Callers -> 0..made]
  BY DEF Stages
<1>5. file \in 0..made /\ made \in 0..MaxLocks /\ ends \in 0..MaxEnds
  OBVIOUS
<1>6. written \in SUBSET (1..made) /\ old \in SUBSET (1..made) /\ dead \in SUBSET (1..made)
  OBVIOUS
<1>7. closing \in SUBSET (1..made) /\ dropped \in SUBSET (1..made) /\ replaced \in SUBSET Callers
  OBVIOUS
<1>8. stolen \in BOOLEAN
  OBVIOUS
<1> QED BY <1>2, <1>3, <1>4, <1>5, <1>6, <1>7, <1>8 DEF TypeOK

LEMMA RemoveFileType ==
  ASSUME TypeOK, RemoveFile
  PROVE  file' \in 0..made /\ replaced' \in SUBSET Callers
<1>1. file' \in 0..made
  BY DEF TypeOK, RemoveFile
<1>2. replaced' \in SUBSET Callers
  BY DEF TypeOK, RemoveFile
<1> QED BY <1>1, <1>2

LEMMA GotoType ==
  ASSUME TypeOK, NEW t \in Callers, NEW stage \in Stages, Goto(t, stage)
  PROVE  pc' \in [Callers -> Stages]
BY DEF TypeOK, Goto

LEMMA TypeStep ==
  ASSUME TypeOK, OwnLocks, [Next]_vars
  PROVE  TypeOK'
<1> USE LockAssumption, ProcessType
    DEF TypeOK, Stages, Goto, RemoveFile, locks, tables, history
<1>1. ASSUME NEW t \in Callers, Acquire(t) PROVE TypeOK'
  BY <1>1 DEF Acquire
<1>2. ASSUME NEW t \in Callers, Open(t) PROVE TypeOK'
  <2>1. CASE file = 0
    <3>1. made' = made + 1 /\ made' \in 0..MaxLocks /\ made \in Nat
      BY <1>2, <2>1 DEF Open
    <3>2. 0..made \subseteq 0..made' /\ 1..made \subseteq 1..made'
      BY <3>1
    <3>3. maker' \in [Locks -> Procs]
      BY <1>2, <2>1 DEF Open
    <3>4. using' \in [Callers -> 0..made'] /\ file' \in 0..made'
      BY <1>2, <2>1, <3>1, <3>2 DEF Open
    <3>5. pc' \in [Callers -> Stages]
      BY <1>2, <2>1 DEF Open
    <3>6. held' \in [Procs -> 0..made']
      BY <1>2, <3>2 DEF Open
    <3> QED BY <1>2, <3>1, <3>2, <3>3, <3>4, <3>5, <3>6 DEF Open
  <2>2. CASE file # 0
    BY <1>2, <2>2 DEF Open
  <2> QED BY <2>1, <2>2
<1>3. ASSUME NEW t \in Callers, Read(t) \/ Stat(t) \/ GiveUp(t) PROVE TypeOK'
  BY <1>3 DEF Read, Stat, GiveUp
<1>4. ASSUME NEW t \in Callers, Reclaim(t) \/ CleanRead(t) \/ CleanRemove(t) PROVE TypeOK'
  <2>1. pc' \in [Callers -> Stages]
    BY <1>4 DEF Reclaim, CleanRead, CleanRemove
  <2>2. CASE CleanRead(t)
    BY <2>1, <2>2 DEF CleanRead
  <2>3. CASE Reclaim(t) \/ CleanRemove(t)
    <3>1. RemoveFile /\ UNCHANGED <<locks, tables, using, ends, dropped>>
      BY <2>3 DEF Reclaim, CleanRemove
    <3>2. file' \in 0..made /\ replaced' \in SUBSET Callers
      BY <3>1, RemoveFileType
    <3>3. stolen' \in BOOLEAN
      BY <2>3, Zenon DEF Reclaim, CleanRemove
    <3> QED BY <2>1, <3>1, <3>2, <3>3
  <2> QED BY <1>4, <2>2, <2>3
<1>5. ASSUME NEW t \in Callers, Write(t) PROVE TypeOK'
  <2>1. using[t] \in 1..made
    BY <1>5 DEF Write, OwnLocks, Making
  <2>2. written' \in SUBSET (1..made)
    BY <1>5, <2>1 DEF Write
  <2> QED BY <1>5, <2>2 DEF Write
<1>6. ASSUME NEW t \in Callers, Register(t) PROVE TypeOK'
  BY <1>6 DEF Register
<1>7. ASSUME NEW t \in Callers, WriteFails(t) \/ Undo(t) PROVE TypeOK'
  <2>1. CASE WriteFails(t)
    BY <2>1 DEF WriteFails
  <2>2. CASE Undo(t)
    <3>1. file' \in 0..made /\ replaced' \in SUBSET Callers
      BY <2>2, RemoveFileType DEF Undo
    <3> QED BY <2>2, <3>1 DEF Undo
  <2> QED BY <1>7, <2>1, <2>2
<1>8. ASSUME NEW t \in Callers, Release(t) PROVE TypeOK'
  <2>1. using[t] \in 1..made /\ count[Process[t]] \in Nat
    BY <1>8 DEF Release, OwnLocks
  <2>2. closing' \in SUBSET (1..made)
    BY <1>8, <2>1 DEF Release
  <2>3. count' \in [Procs -> Nat] /\ held' \in [Procs -> 0..made]
    BY <1>8, <2>1 DEF Release
  <2>4. pc' \in [Callers -> Stages]
    BY <1>8 DEF Release
  <2> QED BY <1>8, <2>2, <2>3, <2>4 DEF Release
<1>9. ASSUME NEW n \in Locks, EndRelease(n) PROVE TypeOK'
  BY <1>9 DEF EndRelease
<1>10. ASSUME NEW n \in Locks, Age(n) PROVE TypeOK'
  BY <1>10 DEF Age
<1>11. ASSUME NEW p \in Procs, Watchdog(p) PROVE TypeOK'
  <2>1. held[p] \in 1..made
    BY <1>11 DEF Watchdog
  <2>2. closing' \in SUBSET (1..made) /\ dropped' \in SUBSET (1..made)
    BY <1>11, <2>1 DEF Watchdog
  <2> QED BY <1>11, <2>2 DEF Watchdog
<1>12. ASSUME NEW p \in Procs, Crash(p) \/ Exit(p) PROVE TypeOK'
  <2>1. Restart(p)
    BY <1>12 DEF Crash, Exit
  <2>2. dead' \in SUBSET (1..made) /\ closing' \in SUBSET (1..made)
    BY <2>1 DEF Restart
  <2>3. pc' \in [Callers -> Stages] /\ using' \in [Callers -> 0..made]
    BY <2>1 DEF Restart
  <2>4. held' \in [Procs -> 0..made] /\ count' \in [Procs -> Nat] /\ ends' \in 0..MaxEnds
    BY <2>1 DEF Restart
  <2>5. file' \in 0..made /\ replaced' \in SUBSET Callers
    BY <1>12, RemoveFileType DEF Crash, Exit
  <2>6. UNCHANGED <<made, maker, written, old, dropped, stolen>>
    BY <1>12 DEF Crash, Exit, Restart
  <2> QED BY <2>2, <2>3, <2>4, <2>5, <2>6
<1>13. ASSUME NEW p \in Procs, Signal(p) PROVE TypeOK'
  <2>1. held[p] \in 1..made
    BY <1>13 DEF Signal
  <2>2. dropped' \in SUBSET (1..made)
    BY <1>13, <2>1 DEF Signal
  <2>4. ends' \in 0..MaxEnds
    BY <1>13 DEF Signal
  <2>5. held' \in [Procs -> 0..made] /\ count' \in [Procs -> Nat]
    BY <1>13 DEF Signal
  <2>3. file' \in 0..made /\ replaced' \in SUBSET Callers
    BY <1>13, RemoveFileType DEF Signal
  <2> QED BY <1>13, <2>2, <2>3, <2>4, <2>5 DEF Signal
<1>14. CASE UNCHANGED vars
  BY <1>14 DEF vars
<1> QED
  BY <1>1, <1>2, <1>3, <1>4, <1>5, <1>6, <1>7, <1>8, <1>9, <1>10, <1>11, <1>12, <1>13, <1>14
  DEF Next, Contend

-----------------------------------------------------------------------------
(* Who has which lock *)

LEMMA StructureStep ==
  ASSUME Structure, [Next]_vars
  PROVE  (OwnLocks /\ HeldLocks /\ MakingAlone)'
<1> USE ProcessType
    DEF Structure, TypeOK, Goto, RemoveFile, locks, tables, history,
        OwnLocks, HeldLocks, MakingAlone, Making
<1>1. ASSUME NEW t \in Callers, Acquire(t) PROVE (OwnLocks /\ HeldLocks /\ MakingAlone)'
  BY <1>1 DEF Acquire
<1>2. ASSUME NEW t \in Callers, Open(t) PROVE (OwnLocks /\ HeldLocks /\ MakingAlone)'
  <2>1. CASE file = 0
    <3>1. made + 1 \in Locks /\ made \in Nat
      BY <1>2, <2>1, LockAssumption DEF Open, Locks
    <3>2. \A u \in Callers : using[u] # made + 1
      BY <3>1
    <3>3. \A p \in Procs : held[p] # made + 1
      BY <3>1
    <3>4. made + 1 \notin closing
      BY <3>1
    <3>5. maker'[made + 1] = Process[t]
      BY <1>2, <2>1, <3>1 DEF Open
    <3>6. \A n \in Locks : n # made + 1 => maker'[n] = maker[n]
      BY <1>2, <2>1 DEF Open
    <3>7. \A n \in 0..made : n # 0 => n \in Locks /\ n # made + 1
      BY LockAssumption DEF Locks
    <3> QED BY <1>2, <2>1, <3>1, <3>2, <3>3, <3>4, <3>5, <3>6, <3>7 DEF Open
  <2>2. CASE file # 0
    BY <1>2, <2>2 DEF Open
  <2> QED BY <2>1, <2>2
<1>3. ASSUME NEW t \in Callers, Read(t) \/ Stat(t) \/ GiveUp(t)
      PROVE (OwnLocks /\ HeldLocks /\ MakingAlone)'
  BY <1>3 DEF Read, Stat, GiveUp
<1>4. ASSUME NEW t \in Callers, Reclaim(t) \/ CleanRead(t) \/ CleanRemove(t)
      PROVE (OwnLocks /\ HeldLocks /\ MakingAlone)'
  BY <1>4 DEF Reclaim, CleanRead, CleanRemove
<1>5. ASSUME NEW t \in Callers, Write(t) PROVE (OwnLocks /\ HeldLocks /\ MakingAlone)'
  BY <1>5 DEF Write
<1>6. ASSUME NEW t \in Callers, Register(t) PROVE (OwnLocks /\ HeldLocks /\ MakingAlone)'
  BY <1>6 DEF Register
<1>7. ASSUME NEW t \in Callers, WriteFails(t) \/ Undo(t)
      PROVE (OwnLocks /\ HeldLocks /\ MakingAlone)'
  BY <1>7 DEF WriteFails, Undo
<1>8. ASSUME NEW t \in Callers, Release(t) PROVE (OwnLocks /\ HeldLocks /\ MakingAlone)'
  BY <1>8 DEF Release
<1>9. ASSUME NEW n \in Locks, EndRelease(n) PROVE (OwnLocks /\ HeldLocks /\ MakingAlone)'
  BY <1>9 DEF EndRelease
<1>10. ASSUME NEW n \in Locks, Age(n) PROVE (OwnLocks /\ HeldLocks /\ MakingAlone)'
  BY <1>10 DEF Age
<1>11. ASSUME NEW p \in Procs, Watchdog(p) PROVE (OwnLocks /\ HeldLocks /\ MakingAlone)'
  BY <1>11 DEF Watchdog
<1>12. ASSUME NEW p \in Procs, Crash(p) \/ Exit(p) PROVE (OwnLocks /\ HeldLocks /\ MakingAlone)'
  BY <1>12 DEF Crash, Exit, Restart
<1>13. ASSUME NEW p \in Procs, Signal(p) PROVE (OwnLocks /\ HeldLocks /\ MakingAlone)'
  BY <1>13 DEF Signal
<1>14. CASE UNCHANGED vars
  BY <1>14 DEF vars
<1> QED
  BY <1>1, <1>2, <1>3, <1>4, <1>5, <1>6, <1>7, <1>8, <1>9, <1>10, <1>11, <1>12, <1>13, <1>14
  DEF Next, Contend

-----------------------------------------------------------------------------
(* The rest of the invariant *)

\* The callers that share a lock are finitely many.
LEMMA SharersFinite == \A p \in Procs : IsFiniteSet(Sharers(p))
<1> SUFFICES ASSUME NEW p \in Procs PROVE IsFiniteSet(Sharers(p))
  OBVIOUS
<1>1. Sharers(p) \in SUBSET Callers
  BY DEF Sharers
<1> QED BY <1>1, LockAssumption, FS_Subset

\* A step that leaves the sharers and the count of a lock alone.
LEMMA CountedStep ==
  ASSUME Structure, Counted, [Next]_vars
  PROVE  Counted'
<1> SUFFICES ASSUME NEW p \in Procs, held'[p] # 0
             PROVE  count'[p] = Cardinality(Sharers(p)')
  BY DEF Counted
<1> USE ProcessType
    DEF Structure, TypeOK, OwnLocks, Making, Goto, locks, tables, history
<1>q. ASSUME Sharers(p)' = Sharers(p), held'[p] = held[p], count'[p] = count[p]
      PROVE  count'[p] = Cardinality(Sharers(p)')
  BY <1>q DEF Counted
<1>1. ASSUME NEW t \in Callers, Acquire(t) PROVE count'[p] = Cardinality(Sharers(p)')
  <2>1. CASE Process[t] = p /\ t \in Reentrant /\ held[p] # 0
    <3>1. Sharers(p)' = Sharers(p) \union {t} /\ t \notin Sharers(p)
      BY <1>1, <2>1 DEF Acquire, Sharers
    <3>2. count'[p] = count[p] + 1
      BY <1>1, <2>1 DEF Acquire
    <3>3. Cardinality(Sharers(p) \union {t}) = Cardinality(Sharers(p)) + 1
      BY <3>1, SharersFinite, FS_AddElement
    <3>4. count[p] = Cardinality(Sharers(p))
      BY <2>1 DEF Counted
    <3> QED BY <3>1, <3>2, <3>3, <3>4
  <2>2. CASE ~(Process[t] = p /\ t \in Reentrant /\ held[p] # 0)
    <3>1. held'[p] = held[p] /\ count'[p] = count[p]
      BY <1>1, <2>2 DEF Acquire
    <3>2. t \notin Sharers(p) /\ t \notin Sharers(p)'
      BY <1>1, <2>2, <3>1 DEF Acquire, Sharers, HeldLocks
    <3>3. Sharers(p)' = Sharers(p)
      BY <1>1, <3>1, <3>2 DEF Acquire, Sharers
    <3> QED BY <1>q, <3>1, <3>3
  <2> QED BY <2>1, <2>2
<1>2. ASSUME NEW t \in Callers, pc[t] # "holding", pc'[t] # "holding",
             \A u \in Callers \ {t} : pc'[u] = pc[u] /\ using'[u] = using[u],
             UNCHANGED <<held, count>>
      PROVE  count'[p] = Cardinality(Sharers(p)')
  <2>1. Sharers(p)' = Sharers(p)
    BY <1>2 DEF Sharers
  <2> QED BY <1>q, <1>2, <2>1
<1>3. ASSUME NEW t \in Callers, Register(t) PROVE count'[p] = Cardinality(Sharers(p)')
  <2>1. CASE Process[t] = p
    <3>1. Sharers(p)' = {t}
      BY <1>3, <2>1 DEF Register, Sharers, MakingAlone
    <3> QED BY <1>3, <2>1, <3>1, FS_Singleton DEF Register
  <2>2. CASE Process[t] # p
    <3>1. held'[p] = held[p] /\ count'[p] = count[p]
      BY <1>3, <2>2 DEF Register
    <3>2. Sharers(p)' = Sharers(p)
      BY <1>3, <2>2, <3>1 DEF Register, Sharers, MakingAlone
    <3> QED BY <1>q, <3>1, <3>2
  <2> QED BY <2>1, <2>2
<1>4. ASSUME NEW t \in Callers, Release(t) PROVE count'[p] = Cardinality(Sharers(p)')
  <2>1. held'[p] = held[p]
    BY <1>4 DEF Release
  <2>2. CASE held[p] = using[t]
    <3>1. Process[t] = p
      BY <1>4, <2>1, <2>2 DEF Release, HeldLocks
    <3>2. count[p] > 1 /\ count'[p] = count[p] - 1
      BY <1>4, <2>1, <2>2, <3>1 DEF Release
    <3>3. Sharers(p)' = Sharers(p) \ {t} /\ t \in Sharers(p)
      BY <1>4, <2>1, <2>2 DEF Release, Sharers
    <3> QED BY <2>1, <3>2, <3>3, SharersFinite, FS_RemoveElement DEF Counted
  <2>3. CASE held[p] # using[t]
    <3>1. count'[p] = count[p]
      BY <1>4, <2>1, <2>3 DEF Release
    <3>2. Sharers(p)' = Sharers(p)
      BY <1>4, <2>1, <2>3 DEF Release, Sharers
    <3> QED BY <1>q, <2>1, <3>1, <3>2
  <2> QED BY <2>2, <2>3
<1>5. ASSUME NEW n \in Locks, EndRelease(n) PROVE count'[p] = Cardinality(Sharers(p)')
  <2>1. Sharers(p)' = Sharers(p)
    BY <1>5 DEF EndRelease, Sharers
  <2> QED BY <1>5, <1>q, <2>1 DEF EndRelease
<1>6. ASSUME NEW q \in Procs, Watchdog(q) \/ Signal(q) PROVE count'[p] = Cardinality(Sharers(p)')
  <2>1. p # q /\ held'[p] = held[p] /\ count'[p] = count[p] /\ UNCHANGED <<pc, using>>
    BY <1>6 DEF Watchdog, Signal
  <2>2. Sharers(p)' = Sharers(p)
    BY <2>1 DEF Sharers
  <2> QED BY <1>q, <2>1, <2>2
<1>7. ASSUME NEW q \in Procs, Restart(q) PROVE count'[p] = Cardinality(Sharers(p)')
  <2>1. p # q /\ held'[p] = held[p] /\ count'[p] = count[p]
    BY <1>7 DEF Restart
  <2>2. \A t \in Callers : Process[t] = q => t \notin Sharers(p)
    BY <2>1 DEF Sharers, HeldLocks
  <2>3. Sharers(p)' = Sharers(p)
    BY <1>7, <2>1, <2>2 DEF Restart, Sharers
  <2> QED BY <1>q, <2>1, <2>3
<1>8. ASSUME UNCHANGED <<pc, using, held, count>> PROVE count'[p] = Cardinality(Sharers(p)')
  <2>1. Sharers(p)' = Sharers(p)
    BY <1>8 DEF Sharers
  <2> QED BY <1>q, <1>8, <2>1
<1>9. ASSUME NEW t \in Callers,
             Contend(t) \/ GiveUp(t) \/ Write(t) \/ WriteFails(t) \/ Undo(t)
               \/ CleanRead(t) \/ CleanRemove(t)
      PROVE  count'[p] = Cardinality(Sharers(p)')
  <2>1. /\ pc[t] # "holding" /\ pc'[t] # "holding"
        /\ \A u \in Callers \ {t} : pc'[u] = pc[u] /\ using'[u] = using[u]
        /\ UNCHANGED <<held, count>>
    BY <1>9
    DEF Contend, Open, Read, Stat, Reclaim, GiveUp, Write, WriteFails, Undo, CleanRead, CleanRemove
  <2> QED BY <1>2, <2>1
<1>10. CASE UNCHANGED vars
  BY <1>8, <1>10 DEF vars
<1>11. ASSUME NEW n \in Locks, Age(n) PROVE count'[p] = Cardinality(Sharers(p)')
  BY <1>8, <1>11 DEF Age
<1> QED
  BY <1>1, <1>3, <1>4, <1>5, <1>6, <1>7, <1>9, <1>10, <1>11 DEF Next, Crash, Exit

\* What a step makes live was live before, or is a new file.
LEMMA LiveStep ==
  ASSUME Structure, [Next]_vars, NEW n \in Locks, Live(n)'
  PROVE  \/ Live(n)
         \/ file = 0 /\ file' = n /\ n = made + 1
<1> USE ProcessType
    DEF Structure, TypeOK, OwnLocks, Making, Goto, locks, tables, history
<1>n. n # 0
  BY LockAssumption DEF Locks
<1>1. ASSUME NEW t \in Callers, Open(t)
      PROVE  Live(n) \/ (file = 0 /\ file' = n /\ n = made + 1)
  BY <1>1 DEF Open, Live
<1>2. ASSUME NEW t \in Callers, Acquire(t) \/ Register(t) \/ Write(t) \/ WriteFails(t)
      PROVE  Live(n)
  BY <1>2 DEF Acquire, Register, Write, WriteFails, Live
<1>3. ASSUME NEW t \in Callers, Release(t) PROVE Live(n)
  BY <1>3, <1>n DEF Release, Live
<1>4. ASSUME NEW t \in Callers,
             Read(t) \/ Stat(t) \/ Reclaim(t) \/ GiveUp(t) \/ Undo(t) \/ CleanRead(t) \/ CleanRemove(t)
      PROVE  Live(n)
  BY <1>4 DEF Read, Stat, Reclaim, GiveUp, Undo, CleanRead, CleanRemove, Live
<1>5. ASSUME NEW m \in Locks, EndRelease(m) \/ Age(m) PROVE Live(n)
  BY <1>5 DEF EndRelease, Age, Live
<1>6. ASSUME NEW p \in Procs, Watchdog(p) \/ Signal(p) \/ Restart(p) PROVE Live(n)
  BY <1>6, <1>n DEF Watchdog, Signal, Restart, Live
<1>7. CASE UNCHANGED vars
  BY <1>7 DEF vars, Live
<1> QED
  BY <1>1, <1>2, <1>3, <1>4, <1>5, <1>6, <1>7 DEF Next, Contend, Crash, Exit

\* A restart leaves nothing alive of the process.
LEMMA DeadStep ==
  ASSUME Structure, DeadIsOver, [Next]_vars
  PROVE  DeadIsOver'
<1> SUFFICES ASSUME NEW n \in dead', Live(n)' PROVE FALSE
  BY DEF DeadIsOver
<1>1. n \in Locks
  <2>1. dead' \in SUBSET (1..made') /\ made' \in 0..MaxLocks
    BY TypeStep DEF Structure, TypeOK
  <2> QED BY <2>1, LockAssumption DEF Locks
<1>2. CASE n \in dead
  BY <1>1, <1>2, LiveStep DEF DeadIsOver, Structure, TypeOK
<1>3. CASE n \notin dead
  <2>1. PICK p \in Procs : Restart(p) /\ maker[n] = p /\ n # 0
    BY <1>3, LockAssumption
    DEF Next, Contend, Acquire, Open, Read, Stat, Reclaim, GiveUp, Write, Register, WriteFails,
        Undo, Release, CleanRead, CleanRemove, EndRelease, Age, Watchdog, Crash, Exit, Signal,
        Restart, vars, locks, Structure, TypeOK
  <2>2. \A t \in Callers : Making(t)' => Process[t] # p /\ using'[t] = using[t] /\ Making(t)
    BY <2>1 DEF Restart, Making
  <2>3. \A t \in Callers : Making(t)' => using'[t] # n
    BY <2>1, <2>2 DEF Structure, OwnLocks
  <2>4. \A q \in Procs : held'[q] # n
    BY <2>1 DEF Restart, Structure, HeldLocks, TypeOK
  <2>5. n \notin closing'
    BY <2>1 DEF Restart
  <2> QED BY <2>3, <2>4, <2>5 DEF Live, Making
<1> QED BY <1>2, <1>3

\* While no live lock was reclaimed, a live lock keeps its file.
LEMMA OneLiveStep ==
  ASSUME Structure, OneLive, [Next]_vars
  PROVE  OneLive'
<1> SUFFICES ASSUME ~stolen', NEW n \in Locks, Live(n)' PROVE file' = n
  BY DEF OneLive
<1>1. CASE file = 0 /\ file' = n
  BY <1>1
<1>2. CASE Live(n)
  <2> USE ProcessType
      DEF Structure, TypeOK, OwnLocks, Making, Goto, RemoveFile, locks, tables, history
  <2>n. n # 0
    BY LockAssumption DEF Locks
  <2>1. ~stolen
    BY Zenon
    DEF Next, Contend, Acquire, Open, Read, Stat, Reclaim, GiveUp, Write, Register, WriteFails,
        Undo, Release, CleanRead, CleanRemove, EndRelease, Age, Watchdog, Crash, Exit, Signal,
        Restart, vars
  <2>2. file = n
    BY <1>2, <2>1 DEF OneLive
  <2>3. ASSUME NEW t \in Callers, Undo(t) PROVE FALSE
    <3>1. Live(using[t]) /\ using[t] \in Locks
      <4>1. Making(t)
        BY <2>3 DEF Undo
      <4> QED BY <4>1, UsesLock DEF Live
    <3>2. using[t] = n
      BY <2>1, <2>2, <3>1 DEF OneLive
    <3>3. n \notin closing' /\ \A p \in Procs : held'[p] # n
      BY <2>3, <3>2 DEF Undo, MakingAlone
    <3>4. \A u \in Callers : Making(u)' => using'[u] # n
      BY <2>3, <3>2 DEF Undo, MakingAlone
    <3> QED BY <3>3, <3>4 DEF Live
  <2>4. ASSUME NEW t \in Callers, Reclaim(t) \/ CleanRemove(t) PROVE FALSE
    BY <1>2, <2>2, <2>4, <2>n DEF Reclaim, CleanRemove
  <2>5. ASSUME NEW m \in Locks, EndRelease(m) PROVE FALSE
    <3>1. m = n
      BY <2>1, <2>2, <2>5 DEF EndRelease, OneLive, Live
    <3>2. n \notin closing' /\ \A p \in Procs : held'[p] # n
      BY <2>5, <2>n, <3>1 DEF EndRelease, HeldLocks
    <3>3. \A u \in Callers : Making(u)' => using'[u] # n
      BY <2>5, <3>1 DEF EndRelease, MakingAlone
    <3> QED BY <3>2, <3>3 DEF Live
  <2>6. ASSUME NEW p \in Procs, held[p] # 0, held'[p] = 0, UNCHANGED maker,
               closing' \subseteq closing,
               \A q \in Procs : held'[q] = held[q] \/ held'[q] = 0,
               \A t \in Callers : Making(t)' => Making(t) /\ using'[t] = using[t]
        PROVE  FALSE
    <3>1. held[p] = n
      <4>1. Live(held[p]) /\ held[p] \in Locks
        BY <2>6, LockAssumption DEF Live, Locks
      <4> QED BY <2>1, <2>2, <4>1 DEF OneLive
    <3>2. n \notin closing' /\ \A q \in Procs : held'[q] # n
      BY <2>6, <2>n, <3>1 DEF HeldLocks
    <3>3. \A u \in Callers : Making(u)' => using'[u] # n
      BY <2>6, <3>1 DEF MakingAlone
    <3> QED BY <3>2, <3>3 DEF Live
  <2>7. ASSUME NEW p \in Procs, Signal(p) PROVE FALSE
    BY <2>6, <2>7 DEF Signal
  <2>8. ASSUME NEW p \in Procs, Exit(p), held[p] # 0 PROVE FALSE
    BY <2>6, <2>8 DEF Exit, Restart
  <2>9. ASSUME NEW p \in Procs, Exit(p), held[p] = 0 PROVE file' = file
    BY <2>9 DEF Exit
  <2>10. ASSUME NEW t \in Callers,
                Acquire(t) \/ Open(t) \/ Read(t) \/ Stat(t) \/ GiveUp(t) \/ Write(t)
                  \/ Register(t) \/ WriteFails(t) \/ Release(t) \/ CleanRead(t)
         PROVE  file' = file
    BY <2>2, <2>10, <2>n
    DEF Acquire, Open, Read, Stat, GiveUp, Write, Register, WriteFails, Release, CleanRead
  <2>11. ASSUME NEW p \in Procs, Watchdog(p) \/ Crash(p) PROVE file' = file
    BY <2>11 DEF Watchdog, Crash
  <2>12. ASSUME NEW m \in Locks, Age(m) PROVE file' = file
    BY <2>12 DEF Age
  <2>13. CASE UNCHANGED vars
    BY <2>2, <2>13 DEF vars
  <2> QED
    BY <2>2, <2>3, <2>4, <2>5, <2>7, <2>8, <2>9, <2>10, <2>11, <2>12, <2>13 DEF Next, Contend
<1> QED BY <1>1, <1>2, LiveStep

\* While no live lock was reclaimed, an owner's lock is in HELD_LOCKS.
LEMMA OwnersHoldStep ==
  ASSUME Structure, Counted, OneLive, OwnersHold, [Next]_vars
  PROVE  OwnersHold'
<1> SUFFICES ASSUME ~stolen', NEW t \in Owners' PROVE held'[Process[t]] = using'[t]
  BY DEF OwnersHold
<1> DEFINE p == Process[t]
<1> USE ProcessType
    DEF Structure, TypeOK, OwnLocks, Making, Goto, RemoveFile, locks, tables, history, Owners
<1>1. ~stolen
  BY Zenon
  DEF Next, Contend, Acquire, Open, Read, Stat, Reclaim, GiveUp, Write, Register, WriteFails,
      Undo, Release, CleanRead, CleanRemove, EndRelease, Age, Watchdog, Crash, Exit, Signal,
      Restart, vars
<1>2. ASSUME t \in Owners, UNCHANGED <<held, using>> PROVE held'[p] = using'[t]
  BY <1>1, <1>2 DEF OwnersHold
<1>3. ASSUME NEW u \in Callers, Acquire(u) PROVE held'[p] = using'[t]
  <2>1. CASE u = t
    BY <1>3, <2>1 DEF Acquire
  <2>2. CASE u # t
    BY <1>1, <1>3, <2>2 DEF Acquire, OwnersHold
  <2> QED BY <2>1, <2>2
<1>4. ASSUME NEW u \in Callers, Open(u) PROVE held'[p] = using'[t]
  BY <1>1, <1>4 DEF Open, OwnersHold
<1>5. ASSUME NEW u \in Callers, Register(u) PROVE held'[p] = using'[t]
  <2>1. CASE u = t
    BY <1>5, <2>1 DEF Register
  <2>2. CASE u # t
    <3>1. t \in Owners /\ using'[t] = using[t] /\ held[p] = using[t] /\ using[t] # 0
      BY <1>1, <1>5, <2>2 DEF Register, OwnersHold
    <3>2. Process[u] # p
      <4> SUFFICES ASSUME Process[u] = p PROVE FALSE
        OBVIOUS
      <4>1. Live(using[t]) /\ using[t] \in Locks
        BY <3>1, LockAssumption DEF Live, Locks
      <4>2. Live(using[u]) /\ using[u] \in Locks
        <5>1. Making(u)
          BY <1>5 DEF Register, Making
        <5> QED BY <1>1, <5>1, UsesLock DEF Live, Making, Structure
      <4>3. using[t] = using[u]
        BY <1>1, <4>1, <4>2 DEF OneLive
      <4> QED BY <1>5, <2>2, <4>3 DEF Register, MakingAlone
    <3> QED BY <1>5, <3>1, <3>2 DEF Register
  <2> QED BY <2>1, <2>2
<1>6. ASSUME NEW u \in Callers, Release(u) PROVE held'[p] = using'[t]
  <2>1. u # t /\ t \in Owners /\ using'[t] = using[t] /\ held[p] = using[t] /\ using[t] # 0
    BY <1>1, <1>6 DEF Release, OwnersHold
  <2>2. CASE held'[p] = held[p]
    BY <2>1, <2>2
  <2>3. CASE held'[p] # held[p]
    <3>1. Process[u] = p /\ held[p] = using[u] /\ count[p] <= 1
      BY <1>6, <2>3 DEF Release
    <3>2. t \in Sharers(p) /\ u \in Sharers(p)
      BY <1>6, <2>1, <3>1 DEF Release, Sharers
    <3>3. count[p] = Cardinality(Sharers(p))
      BY <2>1 DEF Counted
    <3>4. Cardinality(Sharers(p)) # 0
      BY <3>2, SharersFinite, FS_EmptySet
    <3>5. Cardinality(Sharers(p)) = 1
      BY <3>1, <3>3, <3>4
    <3>6. \E x : Sharers(p) = {x}
      BY <3>5, SharersFinite, FS_Singleton
    <3> QED BY <2>1, <3>2, <3>6
  <2> QED BY <2>2, <2>3
<1>7. ASSUME NEW u \in Callers,
             Read(u) \/ Stat(u) \/ Reclaim(u) \/ GiveUp(u) \/ Write(u) \/ WriteFails(u) \/ Undo(u)
               \/ CleanRead(u) \/ CleanRemove(u)
      PROVE  held'[p] = using'[t]
  <2>1. t \in Owners /\ UNCHANGED <<held, using>>
    BY <1>7 DEF Read, Stat, Reclaim, GiveUp, Write, WriteFails, Undo, CleanRead, CleanRemove
  <2> QED BY <1>2, <2>1
<1>8. ASSUME NEW n \in Locks, EndRelease(n) \/ Age(n) PROVE held'[p] = using'[t]
  <2>1. t \in Owners /\ UNCHANGED <<held, using>>
    BY <1>8 DEF EndRelease, Age
  <2> QED BY <1>2, <2>1
<1>9. ASSUME NEW q \in Procs, Watchdog(q) \/ Signal(q) PROVE held'[p] = using'[t]
  BY <1>1, <1>9 DEF Watchdog, Signal, OwnersHold
<1>10. ASSUME NEW q \in Procs, Crash(q) \/ Exit(q) PROVE held'[p] = using'[t]
  BY <1>1, <1>10 DEF Crash, Exit, Restart, OwnersHold
<1>11. CASE UNCHANGED vars
  BY <1>2, <1>11 DEF vars
<1> QED
  BY <1>3, <1>4, <1>5, <1>6, <1>7, <1>8, <1>9, <1>10, <1>11 DEF Next, Contend

\* The verdict of a contender stays true until the file is removed.
LEMMA UpToDateStep ==
  ASSUME Structure, UpToDate, [Next]_vars
  PROVE  UpToDate'
<1> SUFFICES ASSUME Starttimes, NEW t \in Callers, pc'[t] = "removing", t \notin replaced'
             PROVE  file' \in dead' \union old'
  BY DEF UpToDate
<1> USE DEF Structure, TypeOK, Goto, RemoveFile, locks, tables, history
<1>1. dead \subseteq dead' /\ old \subseteq old'
  BY DEF Next, Contend, Acquire, Open, Read, Stat, Reclaim, GiveUp, Write, Register, WriteFails,
      Undo, Release, CleanRead, CleanRemove, EndRelease, Age, Watchdog, Crash, Exit, Signal,
      Restart, vars
<1>2. ASSUME pc[t] = "removing", t \notin replaced, file' = file PROVE file' \in dead' \union old'
  BY <1>1, <1>2 DEF UpToDate
<1>3. ASSUME pc[t] = "removing", t \notin replaced PROVE file # 0
  BY <1>3 DEF UpToDate
<1>4. ASSUME NEW u \in Callers, Read(u) PROVE file' \in dead' \union old'
  <2>1. CASE u = t
    BY <1>4, <2>1 DEF Read, LooksStale, OrphanSelf
  <2>2. CASE u # t
    BY <1>2, <1>4, <2>2 DEF Read
  <2> QED BY <2>1, <2>2
<1>5. ASSUME NEW u \in Callers, Stat(u) PROVE file' \in dead' \union old'
  <2>1. CASE u = t
    BY <1>5, <2>1 DEF Stat
  <2>2. CASE u # t
    BY <1>2, <1>5, <2>2 DEF Stat
  <2> QED BY <2>1, <2>2
<1>6. ASSUME NEW u \in Callers, Open(u) PROVE file' \in dead' \union old'
  BY <1>2, <1>3, <1>6 DEF Open
<1>7. ASSUME NEW u \in Callers, Reclaim(u) \/ Undo(u) \/ CleanRemove(u)
      PROVE  file' \in dead' \union old'
  BY <1>3, <1>7 DEF Reclaim, Undo, CleanRemove
<1>8. ASSUME NEW u \in Callers,
             Acquire(u) \/ GiveUp(u) \/ Write(u) \/ Register(u) \/ WriteFails(u) \/ Release(u)
               \/ CleanRead(u)
      PROVE  file' \in dead' \union old'
  <2>1. pc[t] = "removing" /\ t \notin replaced /\ file' = file
    BY <1>8 DEF Acquire, GiveUp, Write, Register, WriteFails, Release, CleanRead
  <2> QED BY <1>2, <2>1
<1>9. ASSUME NEW n \in Locks, EndRelease(n) PROVE file' \in dead' \union old'
  BY <1>3, <1>9 DEF EndRelease
<1>10. ASSUME NEW n \in Locks, Age(n) PROVE file' \in dead' \union old'
  BY <1>2, <1>10 DEF Age
<1>11. ASSUME NEW q \in Procs, Watchdog(q) \/ Crash(q) PROVE file' \in dead' \union old'
  BY <1>2, <1>11 DEF Watchdog, Crash, Restart
<1>12. ASSUME NEW q \in Procs, Signal(q) \/ Exit(q) PROVE file' \in dead' \union old'
  BY <1>2, <1>3, <1>12 DEF Signal, Exit, Restart
<1>13. CASE UNCHANGED vars
  BY <1>2, <1>13 DEF vars
<1> QED
  BY <1>4, <1>5, <1>6, <1>7, <1>8, <1>9, <1>10, <1>11, <1>12, <1>13 DEF Next, Contend

-----------------------------------------------------------------------------
(* The theorems *)

LEMMA FirstInv == Init => IInv
<1> SUFFICES ASSUME Init PROVE IInv
  OBVIOUS
<1>1. Structure
  BY FirstTypes, ProcessType
  DEF Init, Structure, OwnLocks, HeldLocks, MakingAlone, Making
<1>2. Counted /\ DeadIsOver /\ OwnersHold /\ UpToDate
  BY ProcessType DEF Init, Counted, DeadIsOver, OwnersHold, UpToDate, Owners
<1>3. OneLive
  <2> SUFFICES ASSUME NEW n \in Locks, Live(n) PROVE FALSE
    BY DEF OneLive
  <2>1. n # 0
    BY LockAssumption DEF Locks
  <2> QED BY <2>1 DEF Init, Live
<1> QED BY <1>1, <1>2, <1>3 DEF IInv

LEMMA InvStep == IInv /\ [Next]_vars => IInv'
<1> SUFFICES ASSUME IInv, [Next]_vars PROVE IInv'
  OBVIOUS
<1>1. Structure'
  BY TypeStep, StructureStep DEF IInv, Structure
<1> QED BY <1>1, CountedStep, DeadStep, OneLiveStep, OwnersHoldStep, UpToDateStep DEF IInv

\* The inductive invariant holds in every state.
THEOREM Invariance == Spec => []IInv
BY FirstInv, InvStep, PTL DEF Spec

\* Every variable keeps its type.
THEOREM TypeCorrect == Spec => []TypeOK
<1>1. IInv => TypeOK
  BY DEF IInv, Structure
<1> QED BY <1>1, Invariance, PTL

\* Unless a live lock was reclaimed as stale, whoever owns the lock has its file
\* at the path, however many callers acquire, share and release it, late or not.
THEOREM OwnersKeepTheFile == Spec => []OwnersHaveTheFile
<1>1. IInv => OwnersHaveTheFile
  <2> SUFFICES ASSUME IInv, ~stolen, NEW t \in Owners PROVE using[t] = file
    BY DEF OwnersHaveTheFile
  <2>1. held[Process[t]] = using[t] /\ using[t] # 0 /\ t \in Callers
    BY DEF IInv, Structure, OwnersHold, OwnLocks, Owners
  <2>2. using[t] \in Locks
    BY <2>1, LockAssumption DEF IInv, Structure, TypeOK, Locks
  <2>3. Live(using[t])
    BY <2>1, ProcessType DEF Live
  <2> QED BY <2>2, <2>3 DEF IInv, OneLive
<1> QED BY <1>1, Invariance, PTL

\* With start times a contender whose verdict is up to date removes the file of a
\* process that has ended or one that is too old.
THEOREM VerdictsAreSound == ASSUME Starttimes PROVE Spec => []ReclaimsOnlyStale
<1>1. IInv => ReclaimsOnlyStale
  BY DEF IInv, UpToDate, DeadIsOver, ReclaimsOnlyStale
<1> QED BY <1>1, Invariance, PTL
=============================================================================
