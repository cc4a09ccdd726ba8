SPECIFICATION Spec
CONSTANTS
    Nodes = {n1, n2, n3, n4, n5}
    Values = {v1, v2}
    SENT = SENT
    NULL = NULL
SYMMETRY HeapSymmetry
INVARIANTS
    WellLinked
    NothingLeaked
PROPERTY ImplementsList
