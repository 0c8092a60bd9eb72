CONSTANTS
    Requests <- MCRequests
    Customers <- MCCustomers
    Inputs <- MCInputs
    StoreErrors = {}
    MaxCharges = 2
SPECIFICATION Spec
INVARIANT SpansHaveStatus
