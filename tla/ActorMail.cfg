SPECIFICATION FairSpec
CONSTANTS
    Invokes = {i1}
    Notifies = {n1}
    Events = {e1}
    Timers = {t1}
    Mixes = {{i1, n1}, {n1, e1, t1}}
    MaxExits = 1
INVARIANTS
    RecycledOnce
    AnswerIsTrue
    QuietStopDrains
PROPERTIES
    ExitCompletes
CHECK_DEADLOCK FALSE
