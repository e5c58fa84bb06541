SPECIFICATION Spec
CONSTANTS
  Mbufs = {m1, m2, m3, m4}
  LIMIT = 3
  MESSAGES = 4
  MaxEvents = 4
  NoEvent = NoEvent
INVARIANTS
  ReplyIsReceived
CHECK_DEADLOCK FALSE
