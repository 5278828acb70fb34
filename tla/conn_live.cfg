SPECIFICATION FairSpec
CONSTANTS
  MaxPeers = 1
  OutAddrs = {o1}
  InAddrs = {i1}
  CmdAddrs = {o1}
  Commands = {"CONNECT", "DISCONNECT", "FETCH", "PEERS"}
  Fds = {f1, f2}
  RemoteActs = {"CLOSE", "DSN", "BADHELLO"}
  Faults = {}
  InboxMax = 1
  Stdin = Stdin
  NULL = NULL
CONSTRAINT InputKept
PROPERTIES CommandReturns ListenerReturns SlotReturned
CHECK_DEADLOCK FALSE
