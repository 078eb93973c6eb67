SPECIFICATION FairSpec
CONSTANTS
  Printers = {t1, t2, t3}
  None = None
  Keeps = {TRUE, FALSE}
INVARIANTS
  Exclusive
PROPERTIES
  LockServed
