SPECIFICATION Spec
CONSTANTS
  RunIds = {"p1", "p2", "c1"}
  SessionOf <- Family
  Requester <- Tree
  Expecting = {"p1", "p2"}
  Deleting = {"c1"}
  Spawned = {"p1", "c1"}
  MaxRetries = 2
  MaxCaptures = 1
  MaxTroubles = 1
  NoRun = NoRun
INVARIANTS
  AnnouncedAtMostOnce
  
  HandledHasFlow

  
CHECK_DEADLOCK FALSE
