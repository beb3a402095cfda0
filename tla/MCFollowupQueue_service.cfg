SPECIFICATION FairSpec
CONSTANTS
  Deliveries <- FourDeliveries
  MessageOf <- FourMessages
  Target <- TwoChats
  Settings <- Roomy
  Objects = {o1, o2}
  None = None
  MaxFailures = 1
  Races = {}
INVARIANTS
  NothingLost
  NoDoubleDrain
PROPERTIES
  ImplementsService
  AcceptedAreHanded
CHECK_DEADLOCK FALSE
