SPECIFICATION ClusterSpec
CONSTANTS
    Calls = {c1, c2}
    Requests = {d1}
    Notifies = {d2}
    Malformed = {d3}
    Workers = {w1, w2}
    QueueSize = 1
    MaxFaults = 1
    MaxPublish = 1
INVARIANT
    CorrelationValidated
CHECK_DEADLOCK FALSE
