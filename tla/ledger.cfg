CONSTANTS
    Users = {"alice", "bob"}
    MaxU64 = 2
    Commands <- MCCommands
    Batches <- MCBatches
    WalRetention = 2
    SnapshotRetention = 1
    MaxSeq = 4
    MaxEvents = 3
    MaxRotations = 2
SPECIFICATION Spec
INVARIANTS TypeOK OpensOnHistory MoneyConserved FirstRestartKeepsAll
PROPERTIES LatestSnapshotKept
CHECK_DEADLOCK FALSE
