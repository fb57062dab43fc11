SPECIFICATION MCSpec
CONSTANTS
    Requests = {r1, r2}
    Ids = {id1, id2}
    Kickers = {k1}
    Pushers = {p1}
    Limits = {1, 2}
    WriteQueueSize = 1
    Casts = {{r1, r2}, {r1, k1}, {p1}}
    NONE = NONE
INVARIANTS
    InflightExact
    SweptRequestsEnd
PROPERTIES
    RefusedBeforeRelease
    CloseCompletes
CHECK_DEADLOCK FALSE
