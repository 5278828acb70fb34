SPECIFICATION Spec
CONSTANTS
  p1 = p1
  p2 = p2
  p3 = p3
  Packages <- MCPackages
  Prefix <- MCPrefix
  ChunksOf <- MCChunksOf
  Blocks = {b1, b2, b3, b4}
  Handlers = {t1}
  Faults = {"realloc"}
  InitialCapacity = 1
  NULL = NULL
SYMMETRY BlockSymmetry
INVARIANTS TypeOK SizeCounts EntriesLive FetchUsesManaged
PROPERTIES PackagesKept
CHECK_DEADLOCK FALSE
