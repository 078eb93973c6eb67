SPECIFICATION Spec
SYMMETRY Symmetry
CONSTANTS
  User = {u1, u2}
  Main = main
  Idle = idle
  Sem = {s1}
  None = none
  TimeSlice = 2
  SleepTimes = {2}
  TimeModulus = 8
  InitialValues = {0, 1}
  MaxValue = 1
INVARIANTS
  NoThreadLost
  OnePlace
  SemQueueMatchesValue
  CloseFlagAddressed
  JoinWaitsForBody
PROPERTIES
  ImplementsSemaphores
CHECK_DEADLOCK FALSE
