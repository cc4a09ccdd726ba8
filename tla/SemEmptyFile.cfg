SPECIFICATION FairSpec
CONSTANTS
    s1 = s1
    s2 = s2
    c1 = c1
    c2 = c2
    Servers = {s1}
    Clients = {c1}
    FileLen <- EmptyFile
    ChunkSize = 1
    ShortWrites = FALSE
    NoServer = NoServer
PROPERTY EarlyDeathNoticed
CHECK_DEADLOCK FALSE
