SPECIFICATION FairSpec
CONSTANTS
    n = 3
    File <- FiveBytes
    ChildBuf = 2
    BufSize <- SmallBuffers
    PipeBuf = 2
    PipeCap = 3
INVARIANTS
    TypeOK
    NothingLost
    ClosedWhenDrained
    OwnEndsOnly
PROPERTIES
    ImplementsStream
    Delivered
    AllEnd
CHECK_DEADLOCK FALSE
