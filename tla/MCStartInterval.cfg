CONSTANTS
    DefaultTickerInterval <- MCDefaultTickerInterval
    TickerIntervals <- MCTickerIntervals
    Durations <- MCDurations
    MaxTasks = 3
SPECIFICATION Spec
INVARIANT TickNoCoarserThanShortestTask
