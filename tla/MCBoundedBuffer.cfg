SPECIFICATION FairSpec
CONSTANTS
  ThreadNums = {0, 1, 2, 3}
  Sizes = {1, 2}
  MaxKeys = 1
INVARIANTS
  SlotsBalanced
  NothingOverwritten
  DeletedLast
PROPERTIES
  ImplementsFifo
  ProgramEnds
CHECK_DEADLOCK FALSE
