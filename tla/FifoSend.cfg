SPECIFICATION FairSpec
CONSTANTS
    s1 = s1
    s2 = s2
    c1 = c1
    c2 = c2
    Servers = {s1, s2}
    Clients = {c1, c2}
    FileLen <- Files
    SyncCap = 2
    FifoCap = 1
    MaxTimeouts = 1
INVARIANTS
    OneToOne
    OneWriter
    SuccessArrives
PROPERTIES
    Delivered
    ServerEndsToo
CHECK_DEADLOCK FALSE
