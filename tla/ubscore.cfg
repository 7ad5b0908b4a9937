CONSTANTS
    Users = {"alice", "bob"}
    Order <- MCOrder
    MaxU64 = 2
    CacheSize = 1
    MaxDrift = 0
    MaxAhead = 1
    BufferSize = 1
    QueueSize = 1
    MaxNow = 1
    MaxSent = 3
    MaxFaults = 2
    Deltas <- MCDeltas
    MaxDebt = 1
    MaxWraps = 1
SPECIFICATION Spec
INVARIANTS
    TypeOK
    ForgottenAreOld
    AcceptedIsOnDisk
    AcceptedIsCovered
CHECK_DEADLOCK FALSE
