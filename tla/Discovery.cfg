SPECIFICATION FairSpec
CONSTANTS
    c1 = c1
    c2 = c2
    w1 = w1
    w2 = w2
    Clients = {c1}
    Workers = {w1}
    reach <- Only
    throughput <- One
    N = 4
    Total = 4
    Micro = 2
    QueueCount = 2
    Serving = {w1}
    MaxStarts = 1
    None = None
PROPERTY DiscoveryEnds
CHECK_DEADLOCK FALSE
