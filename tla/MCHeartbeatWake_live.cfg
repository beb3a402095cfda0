SPECIFICATION Spec
CONSTANTS
  Agents = {"main"}
  Requests <- Targeted
  Delays = {1}
  Coalesce = 1
  Retry = 2
  MaxRunners = 1
  MaxUpdates = 1
  MaxBatches = 1
  NoRunner = NoRunner
  NoWake = NoWake
  NoTimer = NoTimer
  NoBatch = NoBatch
PROPERTIES
  RequestsAreHandled
  
CHECK_DEADLOCK FALSE
