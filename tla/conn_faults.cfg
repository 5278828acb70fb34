SPECIFICATION Spec

CONSTANTS
  MaxPeers = 1
  OutAddrs = {o1}
  InAddrs = {i1}
  CmdAddrs = {o1, i1}
  Commands = {"CONNECT", "DISCONNECT", "FETCH", "PEERS", "QUIT"}
  Fds = {f1, f2}
  RemoteActs = {"CLOSE", "DSN", "RESET", "BADHELLO"}
  Faults = {"accept", "malloc", "pthread_create"}
  InboxMax = 1
  Stdin = Stdin
  NULL = NULL

SYMMETRY DescriptorSymmetry

INVARIANTS TypeOK SlotExclusive DescriptorOwnership
CHECK_DEADLOCK FALSE
