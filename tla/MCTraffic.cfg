CONSTANTS
    j1 = j1
    j2 = j2
    j3 = j3
    w1 = w1
    w2 = w2
    Jobs <- MCJobs
    Workers <- MCWorkers
    QueueDepth = 2
    MaxAttempts = 2
    Cancels = TRUE
    Backlog = 3
    PoolWorkers <- MCWorkers
    Depth = 1
    c1 = c1
    c2 = c2
    i1 = i1
    i2 = i2
    Callers <- MCCallers
    Threshold = 2
    Cooldown = 2
    MaxInFlight = 1
    Base = 2
    MaxTries = 2
    Retryable <- MCRetryable
    Budgets <- MCBudgets
    Tasks <- MCCallers
    Ids <- MCIds
    Boxes <- MCBoxes
    GlobalBurst = 1
    Burst = 1
    TTL = 3
    Workloads <- MCWorkloads
    Lag = 1
SPECIFICATION FairTraffic
INVARIANTS
    TypesOK
    MetricsAddUp
    StopDrains
    GatesTypesOK
    FlagHasReporter
    NoExtraBurst
PROPERTIES
    ImplementsWorkQueue
    JobsStop
    PoolsFinish
    CooldownHonoured
    AdmitsAgain
    IdleIsForgotten
