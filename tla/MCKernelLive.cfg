SPECIFICATION FairSpec
CONSTANTS
  User = {u1, u2}
  Main = main
  Idle = idle
  Sem = {}
  None = none
  TimeSlice = 2
  SleepTimes = {1}
  TimeModulus = 8
  InitialValues = {}
  MaxValue = 0
PROPERTIES
  ReadyRuns
  SleeperWakes
  JoinersReleased
CHECK_DEADLOCK FALSE
