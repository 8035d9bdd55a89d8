SPECIFICATION Spec
CONSTANTS
  Clients = {c1, c2}
  Devices = {d1}
  NoSock = NoSock
  NoCall = NoCall
  NoDev = NoDev
  NoRequest = NoRequest
  NoConn = NoConn
  NoReply = NoReply
  MaxConns = 2
  MaxCalls = 2
  MaxStarts = 1
  Backlog = 1
  ClientOnWindows = FALSE
  ServerOnWindows = FALSE
  MemoryLeakMode = FALSE
  ReplySplit = FALSE
  LossyNetwork = TRUE
  RecvAllocMayFail = TRUE
  AllocMayFail = TRUE
  MayCrash = FALSE
INVARIANTS
  OwnReply
  HeldIsOpen
PROPERTIES
  CallReturns
  QueuedServed
CHECK_DEADLOCK FALSE
