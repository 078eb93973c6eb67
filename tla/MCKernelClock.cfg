SPECIFICATION ClockSpec
SYMMETRY Symmetry
CONSTANTS
  User = {u1, u2}
  Main = main
  Idle = idle
  Sem = {}
  None = none
  TimeSlice = 2
  SleepTimes = {1, 3}
  TimeModulus = 8
  InitialValues = {}
  MaxValue = 0
INVARIANTS
  SleepersAwaitTime
  TickTakenAtMostTwice
CHECK_DEADLOCK FALSE
