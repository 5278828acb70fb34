SPECIFICATION FairSpec
CONSTANTS
  MaxPeers = 1
  OutAddrs = {o1}
  InAddrs = {}
  CmdAddrs = {o1}
  Commands = {"CONNECT", "DISCONNECT"}
  Fds = {f1}
  RemoteActs = {"DSN"}
  Faults = {}
  InboxMax = 1
  Stdin = Stdin
  NULL = NULL
PROPERTIES DisconnectReturns
CHECK_DEADLOCK FALSE
