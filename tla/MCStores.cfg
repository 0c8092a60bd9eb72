CONSTANTS
    Holders = {"a", "b"}
    Resources = {"jobs", "rows"}
    TTL = 2
    MaxTime = 5
    MaxToken = 3
    MaxPresented = 3
    k1 = k1
    k2 = k2
    k3 = k3
    c1 = c1
    c2 = c2
    Clients <- MCClients
    Accounts <- MCAccounts
    Strangers <- MCStrangers
    Amounts <- MCAmounts
    Opening <- MCOpening
    MaxCharges = 3
    Callers <- MCCallers
    Names = {"cash", "revenue"}
    Currencies = {"USD", "EUR"}
    Width = 3
    Slips <- MCSlips
    Postings <- MCPostings
    MaxPosts = 2
    MaxWrites = 1
    Values <- MCValues
    Keys <- MCKeys
    Image <- MCImage
    Priority <- MCPriority
    Sizes = {0, 2, 3}
    MaxHeap = 5
    MaxCounted = 3
SPECIFICATION StoresSpec
SYMMETRY Symmetry
INVARIANTS
    StoresTypesOK
    SingleHolder
    HolderHasNewestToken
    FencedOrder
    NoOverdraft
    NewestFirst
    BooksBalance
PROPERTIES
    ImplementsTerms
    ImplementsContract
    HistoryKept
    ImplementsCollections
