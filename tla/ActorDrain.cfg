SPECIFICATION Spec
CONSTANTS
    Invokes = {}
    Notifies = {n1, n2}
    Events = {}
    Timers = {}
    Mixes = {{n1, n2}}
    MaxExits = 1
INVARIANT
    DrainOnExit
CHECK_DEADLOCK FALSE
