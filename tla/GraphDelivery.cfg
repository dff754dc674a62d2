SPECIFICATION FairSpec
CONSTANTS
  MaxRevision = 2
  MaxRequests = 2
  MaxDelivery = 2
  MaxPages = 2
  MaxQueue = 1
INVARIANT DeliveryOfGraph
INVARIANT PageNeverAhead
PROPERTY NewestGraphShown
PROPERTY RequestsAnswered
CHECK_DEADLOCK FALSE
