CONSTANTS
    c1 = c1
    c2 = c2
    Callers <- MCCallers
    Threshold = 2
    Cooldown = 2
    MaxInFlight = 1
    Base = 2
    MaxTries = 2
    Retryable <- MCRetryable
    Budgets <- MCBudgets
SPECIFICATION CallersSpec
INVARIANT OneProbe
