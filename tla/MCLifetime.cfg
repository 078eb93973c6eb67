SPECIFICATION Spec
CONSTANTS
  Object = {o1, o2, o3}
  Main = Main
  Idle = Idle
  Memory = {m1, m2}
  None = None
INVARIANTS
  HandlesOwn
  DeletedNeverRuns
SYMMETRY Symmetry
