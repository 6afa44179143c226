SPECIFICATION Spec
CONSTANT Slots = {1, 2, 3}
CONSTANT Busy = {"tcp", "tcpmux"}
CONSTANT Transport = {"tcp", "ipc", "tcpmux", "ws"}
INVARIANTS
  OnlyKnownAborts
  PipeFollowsSession
  AtWork
  OneMessage
PROPERTIES
  CloseEnds
  HandshakeEnds
  Reconnects
CHECK_DEADLOCK FALSE
