SPECIFICATION FairSpec
CONSTANTS
    c1 = c1
    c2 = c2
    k1 = k1
    k2 = k2
    idA = idA
    idB = idB
    method1 = method1
    Creators = {c1, c2}
    Kids = {k1, k2}
    Finders = {k2}
    ParentOf <- FirstCall
    Ids = {idA, idB}
    Plans <- Journeys
    Methods = {method1}
    MethodOf <- MethodOfAll
    NONE = NONE
INVARIANTS
    WorkerReachable
    ChildNotOrphaned
PROPERTIES
    StopCompletes
CHECK_DEADLOCK FALSE
