CONSTANTS
    c1 = c1
    c2 = c2
    i1 = i1
    i2 = i2
    Callers <- MCCallers
    Threshold = 2
    Cooldown = 2
    MaxInFlight = 1
    Base = 2
    MaxTries = 2
    Retryable <- MCRetryable
    Budgets <- MCBudgets
    Tasks <- MCCallers
    Ids <- MCIds
    Boxes <- MCBoxes
    GlobalBurst = 2
    Burst = 1
    TTL = 3
    Workloads <- MCWorkloads
    Lag = 1
SPECIFICATION GatesSpec
INVARIANT NotEvictedInUse
