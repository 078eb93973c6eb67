SPECIFICATION Spec
CONSTANTS
  Users = {u1, u2}
  Main = Main
  Out = Out
INVARIANTS
  ResumesOwn
  InterruptsKept
  NestingBounded
SYMMETRY Symmetry
CHECK_DEADLOCK FALSE
