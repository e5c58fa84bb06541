SPECIFICATION FairSpec
CONSTANTS
  retrier = retrier
  first = first
  second = second
  Secondaries <- MCSecondaries
  Launches <- MCLaunches
  NREQUESTS <- MCNREQUESTS
  MAX_RETRIES <- MCMAX_RETRIES
  HandlesSignals <- MCHandlesSignals
  NoReply = NoReply
INVARIANTS
  TypeOK
  NumbersGrow
  BacklogIsTimeouts
  StaleOnlyAfterTimeout
PROPERTIES
  NoAttemptAfterSignal
  SecondariesExit
CHECK_DEADLOCK FALSE
