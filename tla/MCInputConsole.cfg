SPECIFICATION FairSpec
CONSTANTS
  Readers = {r1, r2, r3}
  Out = Out
  Idle = Idle
  buff_size = 2
  CountModulus = 4
  MaxKeys = 5
INVARIANTS
  KeysAccounted
  KeysInOrder
PROPERTIES
  KeyboardAlive
CHECK_DEADLOCK FALSE
