SPECIFICATION MCSpec
CONSTANTS
    Locks = {l1, l2}
    AutoRenew = {l1}
    MaxTokens = 3
    MaxErrors = 1
    UserComponents <- MCUserComponents
    Late = "late"
    Callers = {s1}
    HttpRequests = {r1}
    MaxFaults = 1
    MaxVersion = 3
    BadVersions = {2}
    RotationTime = 2
    MaxAge = 2
    MaxNow = 5
    MaxGeneration = 1
    MaxLogFaults = 1
    Sizes = {0, 3, 5}
    MethodIds = {6, 7}
    Default <- MCDefault
    ConfiguredLimits <- MCConfiguredLimits
    Radix = 2
    PrefixLength = 2
    PacketLimits = {2, 3, 4, 5}
    DefaultSize = 3
    FramedPackets <- MCFramedPackets
    MaxFramed = 2
    Processes = {p1, p2}
    NodeValues = 4
    StepValues = 2
    MaxTime = 3
    MaxIds = 4
    Alphabet = 3
    BlockDigits = 2
    ByteValues = 4
    Radixes = {2, 5}
    IntWidth = 3
    BigWorldBits = 1
    CommonBits = 2
    Paths <- MCPaths
    Instances = {1, 2}
    UniqueIDs = {1, 2}
    MaxFuncs = 2
    MaxEvents = 1
    MaxHops = 3
    MaxTicks = 4
    TicksPerMs = 2
    CallTimeout = 2
    ClientTimeouts = {0, 3}
    DefaultTimeout = 1
    MaxTimeout = 2
    Times <- MCTimes
    Amounts <- MCAmounts
    Fractions = {0, 999999999}
    MaxMoves = 1
INVARIANTS
    StateTravels LockKept AllStopped ListenersCovered SuccessIsReal ConfigFresh Retention CallIsAnswered FramesIntact IdsUnique EventsReachActors CalendarAgrees
PROPERTIES ShutdownEnds
CHECK_DEADLOCK FALSE
