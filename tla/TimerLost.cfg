SPECIFICATION TimerSpec
CONSTANTS
    Clients = {a1}
    Timers = {1, 2}
    WheelSize = 2
    Levels = 3
    MaxNow = 2
    TimerPlans <- LostPlans
PROPERTIES
    AfterFuncCalls
CHECK_DEADLOCK FALSE
