\* Two Stop calls: the second may block on the full quit channel while
\* holding s.lock.  The stuck state has no successor once the clock bound
\* is reached; the liveness property states that it must not happen.
CONSTANTS
    Clients = {c1, c2}
    Tasks = {t1, t2}
    NoOwner = NoOwner
    Period <- MCPeriod
    Duration <- MCDuration
    TickerInterval = 0
    DefaultTickerInterval = 1000
    MaxTasks = 1
    MaxCalls = 2
    MaxStops = 2
    MaxTime = 2
SPECIFICATION Spec
PROPERTY StopReturnsAndReleasesLock
CHECK_DEADLOCK FALSE
