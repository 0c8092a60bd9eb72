CONSTANTS
    orders = orders
    bulk = bulk
    c1 = c1
    c2 = c2
    m1 = m1
    m2 = m2
    Queues <- MCQueues
    Consumers <- MCConsumers
    Messages <- MCMessages
    IdChoices <- MCIdChoices
    FirstAttempts <- MCFirstAttempts
    Causes <- MCCauses
    MaxAttempts = 3
    Backoff = 1
    Width = 8
    MaxTime = 1
SPECIFICATION Spec
INVARIANT FirstCauseKept
