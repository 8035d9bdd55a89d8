SPECIFICATION Spec
CONSTANTS
    Threads = {t1, t2}
    MaxFd = 3
    NoMemory = {}
    MaxConns = 2
    MaxCalls = 3
    Backlog = 1
    ReplySplit = FALSE
    LossyNetwork = FALSE
    Free = Free
    New = New
    File = File
    Invalid = Invalid
    NoCall = NoCall
    NoConn = NoConn
    NoItem = NoItem
SYMMETRY Symmetry
INVARIANTS
    ReplyIsOwn
CHECK_DEADLOCK FALSE
