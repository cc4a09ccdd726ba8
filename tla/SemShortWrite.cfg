SPECIFICATION Spec
CONSTANTS
    s1 = s1
    s2 = s2
    c1 = c1
    c2 = c2
    Servers = {s1}
    Clients = {c1}
    FileLen <- OneChunk
    ChunkSize = 2
    ShortWrites = TRUE
    NoServer = NoServer
INVARIANT PrintsWhatWasSent
CHECK_DEADLOCK FALSE
