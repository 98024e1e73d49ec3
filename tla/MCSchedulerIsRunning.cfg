CONSTANTS
    Clients = {c1, c2}
    Tasks = {t1, t2}
    NoOwner = NoOwner
    Period <- MCPeriod
    Duration <- MCDuration
    TickerInterval = 0
    DefaultTickerInterval = 1000
    MaxTasks = 1
    MaxCalls = 2
    MaxStops = 1
    MaxTime = 2
SPECIFICATION Spec
INVARIANT IsRunningReflectsLoop
CHECK_DEADLOCK FALSE
