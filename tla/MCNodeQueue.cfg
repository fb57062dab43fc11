SPECIFICATION Spec
CONSTANTS
    Producers = {p1, p2}
    MaxPushes = 2
    Nodes = {n1, n2, n3, n4}
    NIL = NIL
SYMMETRY NodeSymmetry
INVARIANTS
    RecyclingSafe
PROPERTIES
    ImplementsQueue
CHECK_DEADLOCK FALSE
