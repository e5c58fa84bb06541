SPECIFICATION FairSpec
CONSTANTS
  NUM_EVENTS = 4
  WorkerCounts = {2}
  NPORTS = 2
  NoPort = NoPort
PROPERTIES
  EveryWorkerReturns
CHECK_DEADLOCK FALSE
