SPECIFICATION Spec
CONSTANTS
  MaxPeers = 2
  OutAddrs = {o1}
  InAddrs = {i1}
  CmdAddrs = {o1}
  Commands = {"CONNECT", "DISCONNECT"}
  Fds = {f1, f2, f3}
  RemoteActs = {"CLOSE"}
  Faults = {}
  InboxMax = 1
  Stdin = Stdin
  NULL = NULL
SYMMETRY DescriptorSymmetry
CONSTRAINT InputKept
INVARIANTS SlotExclusive UniqueOutgoing DescriptorOwnership SocketsHeld ServedPeerListed
PROPERTIES DisconnectEndsService
CHECK_DEADLOCK FALSE
