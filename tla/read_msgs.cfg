SPECIFICATION Spec
CONSTANTS
    MemoryLeakMode = TRUE
    BusLen = 2
    MaxMsgs = 2
    MaxCalls = 3
    Words <- TwoWords
    Ids <- SomeIds
    IdSpan = 4
    Params = 2
    PtrSize = 4
    Name = Name
    Null = Null
    Keep = Keep
    Old = Old
    Pointer = Pointer
    NoCall = NoCall
INVARIANTS
    CountIsActual
CHECK_DEADLOCK FALSE
