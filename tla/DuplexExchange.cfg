SPECIFICATION FairSpec
CONSTANTS
  Blocks = {b1, b2, b3}
  ROUNDS = 4
  CAPACITY = 1
  NoBlock = NoBlock
  Garbage = Garbage
INVARIANTS
  TypeOK
  OneOwner
  AnswersInOrder
PROPERTIES
  BothStop
CHECK_DEADLOCK FALSE
