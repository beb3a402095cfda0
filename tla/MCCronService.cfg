SPECIFICATION Spec
CONSTANTS
  Jobs = {"once", "again"}
  Mixes <- OneShotAndInterval
  Kept = {}
  Stores <- OnceOrBoth
  AtTimes = {2}
  Period = 2
  Backoff = 1
  Stagger = 1
  StuckAfter = 2
  MaxRetries = 1
  Outcomes = {"ok", "transient"}
  MaxMissed = 1
  Concurrency = 1
  MaxServices = 2
  NoStore = NoStore
  NoCall = NoCall
  MaxTime = 3
  MaxRequests = 1
  MaxTroubles = 0
INVARIANTS
  
  SchedulerGoesOn
PROPERTIES
  DueSlotsAreKept
CHECK_DEADLOCK FALSE
