SPECIFICATION FairSpec
CONSTANTS
  Lanes = {main}
  Tasks = {t1, t2, t3}
  MaxGeneration = 2
  MaxSignals = 2
  NoTask = NoTask
  NoRun = NoRun
  SignalsWhile = {"up"}
INVARIANTS
  RefusesOnlyDuringRestart
  
  NoLockWithoutServer
PROPERTIES
  InFlightTurnsFinish
  RestartHappens
CHECK_DEADLOCK FALSE
