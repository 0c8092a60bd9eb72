CONSTANTS
    Requests <- MCRequests
    Customers <- MCCustomers
    Inputs <- MCInputs
    StoreErrors = {"ErrInsufficientFunds", "error"}
    MaxCharges = 2
    Calls <- MCCalls
    Carries <- MCCarries
    StoreFaults = {"error", "panic"}
    Procs <- MCProcs
    Partitions <- MCPartitions
    Log <- MCLog
    Assigned <- MCAssigned
    MaxAttempts = 2
    MaxPoll = 2
    Faults <- MCFaults
    MaxFaults = 2
SPECIFICATION FairServices
INVARIANTS
    ConsumerTypeOK
    CommitAfterProcessing
    AppliedOnce
    TypesOK
    AnswersAreTrue
    MetricsTellTheTruth
    GracefulExitLosesNothing
    ApiAnswersAreTrue
    ApiCutsOnlyUploads
PROPERTIES
    RecordsEnd
    ServersShutDown
