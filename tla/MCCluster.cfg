SPECIFICATION MCSpec
CONSTANTS
    Calls = {c1, c2}
    Requests = {d1}
    Notifies = {d2}
    Malformed = {d3}
    Workers = {w1, w2}
    QueueSize = 1
    MaxFaults = 1
    MaxPublish = 1
    Master = m
    Clients = {a, b}
    EtcdNodes = {a, b}
    Leavers = {m, a}
    MaxLives = 2
    MaxTries = 2
    MaxFailures = 1
INVARIANTS StopDrains AnswersMatch ViewSettles
PROPERTIES StopEnds MembersConverge
CHECK_DEADLOCK FALSE
