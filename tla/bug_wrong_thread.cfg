SPECIFICATION Spec
CONSTANTS
  MaxPeers = 1
  OutAddrs = {o1}
  InAddrs = {i1}
  CmdAddrs = {o1}
  Commands = {"CONNECT", "DISCONNECT"}
  Fds = {f1, f2}
  RemoteActs = {}
  Faults = {}
  InboxMax = 1
  Stdin = Stdin
  NULL = NULL
SYMMETRY DescriptorSymmetry
PROPERTIES JoinsOwnThread
CHECK_DEADLOCK FALSE
