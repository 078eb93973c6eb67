SPECIFICATION Spec
CONSTANTS
  Threads = {t1, t2, t3}
  Idle = Idle
  Nodes = {1, 2, 3}
INVARIANTS
  ListIsQueue
  NodesSuffice
SYMMETRY Symmetry
CHECK_DEADLOCK FALSE
