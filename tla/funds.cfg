CONSTANTS
    Users = {"alice"}
    MaxU64 = 9
    Order <- MCOrder
    Registered = TRUE
    Seed = 2
    PollLimit = 2
    LogSlots = 1
    MaxFaults = 1
    Transfer <- MCTransfer
    FundingStart = 1
    WriterCapacity = 1
    MaxAsked = 2
    MaxLost = 1
    MaxNow = 4
SPECIFICATION Spec
INVARIANTS
    TypeOK
    AcceptedIsLogged
    CancelFollowsOrder
    MoneyAccounted
    LedgerInOrder
CHECK_DEADLOCK FALSE
