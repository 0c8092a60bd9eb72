CONSTANTS
    Procs <- MCProcs
    Partitions <- MCPartitions
    Log <- MCLog
    Assigned <- MCAssigned
    MaxAttempts = 2
    MaxPoll = 2
    Faults <- MCLossFaults
    MaxFaults = 1
SPECIFICATION ConsumerSpec
INVARIANT NothingLost
CHECK_DEADLOCK FALSE
