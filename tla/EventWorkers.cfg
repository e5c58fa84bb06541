SPECIFICATION FairSpec
CONSTANTS
  NUM_EVENTS = 4
  WorkerCounts = {1, 2}
  NPORTS = 3
  NoPort = NoPort
INVARIANTS
  TypeOK
  ProcessedInOrder
  OneWorkerReturns
PROPERTIES
  WorkIsDone
  MainReturnsIfAlone
CHECK_DEADLOCK FALSE
