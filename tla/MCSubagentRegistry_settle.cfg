SPECIFICATION Spec
CONSTANTS
  RunIds = {"p1", "c1"}
  SessionOf <- Pair
  Requester <- Tree
  Expecting = {"p1"}
  Deleting = {"c1"}
  Spawned = {"p1", "c1"}
  MaxRetries = 2
  MaxCaptures = 1
  MaxTroubles = 1
  NoRun = NoRun
PROPERTIES
  EndedRunSettles
CHECK_DEADLOCK FALSE
