SPECIFICATION Spec
CONSTANTS
  p1 = p1
  p2 = p2
  p3 = p3
  Packages <- MCPackages
  Prefix <- MCPrefix
  ChunksOf <- MCChunksOf
  Blocks = {b1}
  Handlers = {t1}
  Faults = {}
  InitialCapacity = 2
  NULL = NULL
SYMMETRY BlockSymmetry
INVARIANTS NoneDeletedInUse
CHECK_DEADLOCK FALSE
