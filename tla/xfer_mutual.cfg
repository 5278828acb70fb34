SPECIFICATION Spec

CONSTANTS
  a = a  b = b  Zero = Zero
  Procs <- Pair
  Asks <- BothWays
  NChunks = 1
  ChunkSize = 2
  DataMax = 1
  Want <- Distinct
  Holds <- AFull
  ChanMax = 1
  FileMax = 2
  Faults = {"hash", "read", "split", "restart"}

INVARIANTS ServesCorrectData
PROPERTIES DistributionSpec
CHECK_DEADLOCK FALSE
