SPECIFICATION FairSpec
CONSTANTS
    Conns = {c1, c2, c3}
    Uids = {u1, u2}
    NONE = NONE
    ChanSize = 1
INVARIANTS
    NoStraySocket
    IndexInv
PROPERTIES
    UidNotStolen
    StopReturns
CHECK_DEADLOCK FALSE
