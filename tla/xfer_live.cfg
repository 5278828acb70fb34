SPECIFICATION FairSpec

CONSTANTS
  a = a  b = b
  Zero = Zero
  Procs <- Pair
  Asks <- OneWay
  NChunks = 2
  ChunkSize = 3
  DataMax = 2
  Want <- Distinct
  Holds <- Partial
  ChanMax = 1
  FileMax = 3
  Faults = {}

INVARIANTS TypeOK NoneTurnedDown
PROPERTIES FetchCompletes TransferEnds DistributionSpec
CHECK_DEADLOCK FALSE
