SPECIFICATION Spec
CONSTANTS
  Callers = {"a", "b", "c"}
  Process <- Where
  Reentrant = {"a", "b"}
  Cleaners = {"b"}
  Starttimes = TRUE
  MaxLocks = 2
  MaxEnds = 1
INVARIANTS
  TypeOK
  OwnersHaveTheFile
  ReclaimsOnlyStale
PROPERTIES
  DeadLockGivesWay
CHECK_DEADLOCK FALSE
