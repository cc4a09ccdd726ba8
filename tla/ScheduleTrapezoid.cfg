SPECIFICATION Spec
CONSTANTS
    MaxCpus = 5
    Machines <- AllMachines
    MaxThreads = 6
    MaxWork = 11
    Wrap = 100
INVARIANTS
    PiecePerThread
    Placement
    FewStepsLost
CHECK_DEADLOCK FALSE
