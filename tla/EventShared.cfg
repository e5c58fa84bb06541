SPECIFICATION Spec
CONSTANTS
  NUM_EVENTS = 4
  WorkerCounts = {2}
  NPORTS = 2
  NoPort = NoPort
INVARIANTS
  PortsAreUnique
CHECK_DEADLOCK FALSE
