SPECIFICATION Spec
CONSTANTS
    Threads = {t1, t2}
    MaxFd = 2
    NoMemory = {1}
    MaxConns = 2
    MaxCalls = 3
    Backlog = 1
    ReplySplit = FALSE
    LossyNetwork = FALSE
    Free = Free
    New = New
    File = File
    Invalid = Invalid
    NoCall = NoCall
    NoConn = NoConn
    NoItem = NoItem
SYMMETRY Symmetry
VIEW View
INVARIANTS
    TypeOK
    SerialRepliesOwn
    SerialSocketsKept
    PlainCommandsWhole
    ThreadsInv
CHECK_DEADLOCK FALSE
