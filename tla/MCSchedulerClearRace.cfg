\* Every behaviour of this bounded model ends once the clients have made
\* their calls and the clock has reached MaxTime, so the final states have
\* no successor; progress is stated by the two liveness properties.
CONSTANTS
    Clients = {c1, c2}
    Tasks = {t1, t2}
    NoOwner = NoOwner
    Period <- MCPeriod
    Duration <- MCDuration
    TickerInterval = 0
    DefaultTickerInterval = 1000
    MaxTasks = 2
    MaxCalls = 2
    MaxStops = 1
    MaxTime = 3
SPECIFICATION Spec
CHECK_DEADLOCK FALSE
PROPERTY LaunchesOnlyRegisteredTasks
