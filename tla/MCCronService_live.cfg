SPECIFICATION Spec
CONSTANTS
  Jobs = {"once", "again"}
  Mixes <- OneShotAndCron
  Kept = {}
  Stores <- OnceOrBoth
  AtTimes = {2}
  Period = 2
  Backoff = 1
  Stagger = 1
  StuckAfter = 1
  MaxRetries = 1
  Outcomes = {"transient"}
  MaxMissed = 1
  Concurrency = 1
  MaxServices = 1
  NoStore = NoStore
  NoCall = NoCall
  MaxTime = 3
  MaxRequests = 1
  MaxTroubles = 1
PROPERTIES
  DueJobsRun
  StuckJobsAreFreed
CHECK_DEADLOCK FALSE
