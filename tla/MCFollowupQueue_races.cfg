SPECIFICATION Spec
CONSTANTS
  Deliveries <- FourDeliveries
  MessageOf <- FourMessages
  Target <- TwoChats
  Settings <- Tight
  Objects = {o1, o2}
  None = None
  MaxFailures = 1
  Races = {"stale check", "clear in flight"}
INVARIANTS
  FollowupAtMostOnce
CHECK_DEADLOCK FALSE
