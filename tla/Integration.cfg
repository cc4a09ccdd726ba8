SPECIFICATION FairSpec
CONSTANTS
    c1 = c1
    c2 = c2
    w1 = w1
    w2 = w2
    Clients = {c1, c2}
    Workers = {w1, w2}
    reach <- Near
    throughput <- Unequal
    N = 4
    Total = 2
    Micro = 2
    QueueCount = 2
    Serving = {w1}
    MaxStarts = 1
    None = None
INVARIANTS
    RightAnswer
    SharesAreMeasured
    NoSocketLeft
PROPERTY ClientsReturn
CHECK_DEADLOCK FALSE
