SPECIFICATION Safety
CONSTANTS
  Clients = {c1, c2}
  Devices = {d1}
  NoSock = NoSock
  NoCall = NoCall
  NoDev = NoDev
  NoRequest = NoRequest
  NoConn = NoConn
  NoReply = NoReply
  MaxConns = 3
  MaxCalls = 3
  MaxStarts = 1
  Backlog = 1
  ClientOnWindows = FALSE
  ServerOnWindows = FALSE
  MemoryLeakMode = FALSE
  ReplySplit = FALSE
  LossyNetwork = FALSE
  RecvAllocMayFail = FALSE
  AllocMayFail = FALSE
  MayCrash = FALSE
SYMMETRY Symmetry
INVARIANTS
  TypeOK
  LibrarySerial
  OwnReply
  InOrderAtMostOnce
  SuccessIsReal
  HeldIsOpen
  ClaimsKept
PROPERTIES
  ImplementsRpc
CHECK_DEADLOCK FALSE
