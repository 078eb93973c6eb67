SPECIFICATION Spec
CONSTANTS
  HeapStart = 1
  HeapEnd = 30
  BlockSize = 2
  DescSize = 1
  IntModulus = 64
  Requests = {0, 1, 3, 6, 40}
INVARIANTS
  Tiled
  Coalesced
  CountsFree
  HeldAreUsed
  RefusedOnlyWhenFull
PROPERTIES
  ImplementsAllocator
