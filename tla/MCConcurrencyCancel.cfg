CONSTANTS
    j1 = j1
    j2 = j2
    j3 = j3
    w1 = w1
    w2 = w2
    Jobs <- MCJobs
    Workers <- MCWorkers
    QueueDepth = 2
    MaxAttempts = 2
    Cancels = TRUE
    Backlog = 3
    PoolWorkers <- MCWorkers
    Depth = 1
SPECIFICATION FairConcurrency
PROPERTY CancelStopsPool
