SPECIFICATION FairSpec
CONSTANTS
    Producers = {p1, p2}
    MaxPushes = 3
INVARIANTS
    NoLostWakeup
PROPERTIES
    InOrder
    Delivered
CHECK_DEADLOCK FALSE
