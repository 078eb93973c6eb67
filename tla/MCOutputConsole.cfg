SPECIFICATION FairSpec
CONSTANTS
  Users = {u1, u2}
  Out = Out
  Idle = Idle
  buff_size = 2
  CountModulus = 8
  MaxChars = 4
INVARIANTS
  MaskedAfterBlocking
  BufferExact
  SentInOrder
  OutThreadKept
PROPERTIES
  OutputDrains
CHECK_DEADLOCK FALSE
