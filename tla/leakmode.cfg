SPECIFICATION Safety
CONSTANTS
  Clients = {c1, c2}
  Devices = {d1}
  NoSock = NoSock
  NoCall = NoCall
  NoDev = NoDev
  NoRequest = NoRequest
  NoConn = NoConn
  NoReply = NoReply
  MaxConns = 2
  MaxCalls = 2
  MaxStarts = 2
  Backlog = 1
  ClientOnWindows = TRUE
  ServerOnWindows = FALSE
  MemoryLeakMode = TRUE
  ReplySplit = TRUE
  LossyNetwork = TRUE
  RecvAllocMayFail = TRUE
  AllocMayFail = TRUE
  MayCrash = TRUE
SYMMETRY Symmetry
INVARIANTS
  IInv
  OrderInv
  LibraryLoaded
  LibrarySerial
  InOrderAtMostOnce
CHECK_DEADLOCK FALSE
