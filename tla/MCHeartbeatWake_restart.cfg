SPECIFICATION Spec
CONSTANTS
  Agents = {"main"}
  Requests <- ManualForAll
  Delays = {1}
  Coalesce = 1
  Retry = 2
  MaxRunners = 2
  MaxUpdates = 0
  MaxBatches = 2
  NoRunner = NoRunner
  NoWake = NoWake
  NoTimer = NoTimer
  NoBatch = NoBatch
INVARIANTS
  PendingHasTimer
  OneBatchAtATime
  RequestIsKept
  
  IntervalComes
CHECK_DEADLOCK FALSE
