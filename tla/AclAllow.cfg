SPECIFICATION Spec
CONSTANTS
  Mbufs = {m1, m2, m3}
  BURST = 3
  PREFETCH_OFFSET = 2
  OtherArrivals <- ShortLists
  NoFrame = NoFrame
PROPERTIES
  AllowedGoToTx
CHECK_DEADLOCK FALSE
