SPECIFICATION FairSpec
CONSTANTS
    File <- FiveBytes
    CharBits = 2
    SizeBits = 2
INVARIANTS
    TypeOK
    LockStep
    RightHandler
PROPERTIES
    ImplementsStream
    Delivered
    NoOrphan
CHECK_DEADLOCK FALSE
