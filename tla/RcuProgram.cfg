SPECIFICATION FairSpec
CONSTANTS
  Readers = {r1, r2}
  UPDATES = 3
  None = None
INVARIANTS
  TypeOK
  NoUseAfterFree
  NoDoubleFree
  NoLeak
PROPERTIES
  ImplementsCell
  ProgramExits
CHECK_DEADLOCK FALSE
