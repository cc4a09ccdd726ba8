SPECIFICATION FairSpec
CONSTANTS
    s1 = s1
    s2 = s2
    c1 = c1
    c2 = c2
    Servers = {s1, s2}
    Clients = {c1, c2}
    FileLen <- TwoFiles
    ChunkSize = 1
    ShortWrites = FALSE
    NoServer = NoServer
INVARIANTS
    IInv
    BufferExclusive
    OkMeansPrinted
    FalseAlarmIsHarmless
    OpsAgree
PROPERTIES
    BufferStable
    ImplementsDelivery
    Delivered
    ClientDeathNoticed
    ServerDeathNoticed
CHECK_DEADLOCK FALSE
