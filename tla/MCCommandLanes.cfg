SPECIFICATION FairSpec
CONSTANTS
  Lanes = {main, session}
  Tasks = {t1, t2, t3}
  MaxConcurrency = 2
  MaxGeneration = 1
  NoTask = NoTask
  NoRun = NoRun
INVARIANTS
  TypeOK
  NoStalledLane
  ActiveMatchesRuns
  EveryEntryAccounted
PROPERTIES
  ImplementsFairService
