SPECIFICATION Spec
CONSTANTS
    Streams = {s1, s2}
    Kinds <- MCKinds
    LogKinds <- MCKinds
    LineBytes <- MCLineBytes
    Filters <- MCFilters
    MaximumStreams = 2
    SubscriberBuffer = 1
    QueueLimit = 3
    ContentBytes = 2
    Threshold = 6
    MaxTime = 3
    ReverseReadChunk = 2
    Budgets <- MCRestartBudgets
    HistoryFilters <- MCHistoryFilters
    Limits = {1, 2}
    BootClock = "forward"
PROPERTY RestartRecovers
CHECK_DEADLOCK FALSE
