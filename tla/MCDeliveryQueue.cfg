SPECIFICATION FairSpec
CONSTANTS
  Count = 2
  Payloads = 2
  Parts <- TwoAndOne
  MaxRetries = 1
  Kinds <- Mixed
  MaxCrashes = 1
  NoFile = NoFile
INVARIANTS
  TypeOK
  
  
PROPERTIES
  EntriesSettle
CHECK_DEADLOCK FALSE
