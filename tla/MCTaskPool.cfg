SPECIFICATION FairSpec
CONSTANTS
    w1 = w1
    w2 = w2
    w3 = w3
    Workers <- MCWorkers
    QUEUE_SIZE = 3
    MaxPending = 5
    MaxPushed = 7
    NoTask = NoTask
INVARIANTS
    TypeOK
    NobodyOversleeps
PROPERTIES
    OverwrittenOnlyThus
    QueueUntilOverrun
    StartsAndEnds
CHECK_DEADLOCK FALSE
