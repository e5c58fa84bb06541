SPECIFICATION FairSpec
CONSTANTS
  Mbufs = {m1, m2, m3}
  BURST = 3
  PREFETCH_OFFSET = 2
  OtherArrivals <- ShortLists
  NoFrame = NoFrame
INVARIANTS
  TypeOK
  OneOwner
  LostWasRefused
  FailuresAreCaught
  EndsTidy
  ReadsStayInside
  DrainedInOrder
PROPERTIES
  BuffersComeBack
CHECK_DEADLOCK FALSE
