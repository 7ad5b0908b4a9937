CONSTANTS
    Transfers = {1}
    Workers = {w1}
    QueueWorker = w1
    QueueCapacity = 1
    MaxCrashes = 1
    Adapters = {"ubs", "tb"}
    Balance = 1
    MaxLost = 1
    MaxForeign = 1
    MaxApplied = 2
SPECIFICATION Spec
INVARIANTS TypeOK CreditFollowsDebit CommittedIsPosted
