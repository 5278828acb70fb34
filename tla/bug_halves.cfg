SPECIFICATION Spec
CONSTANTS
  Configs <- MCConfigs
  Directories = {"there"}
  Creatable = {"new"}
  MaxPeerRange = 2
  MinPortRange = 4
  MaxPortRange = 6
  IntSpan = 16
  NotSet = NotSet
  Texts <- MCTexts
  NULL = NULL
  Unset = Unset
  FileMax = 5
  Runs <- HalvesRuns
INVARIANTS LeftIsFirstHalf
CHECK_DEADLOCK FALSE
