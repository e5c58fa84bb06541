SPECIFICATION FairSpec
CONSTANTS
  BURST_SIZE = 3
  LIMIT = 4
  Capacities = {2, 6}
  MaxArrivals = 9
INVARIANTS
  TypeOK
  NothingLost
  EnqueueNeverShort
  StrandedBounded
  OrderedSingleOwner
PROPERTIES
  ImplementsFifo
  ReturnsUnlessStarved
CHECK_DEADLOCK FALSE
