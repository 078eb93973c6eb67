SPECIFICATION FairSpec
CONSTANTS
  User = {u1, u2}
  Main = main
  Idle = idle
  Sem = {s1}
  None = none
  TimeSlice = 2
  SleepTimes = {}
  TimeModulus = 8
  InitialValues = {0}
  MaxValue = 0
PROPERTIES
  WaitersServed
CHECK_DEADLOCK FALSE
