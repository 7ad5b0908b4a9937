CONSTANTS
    Transfers = {1}
    Workers = {w1}
    QueueWorker = w1
    QueueCapacity = 1
    MaxCrashes = 0
    Adapters = {"ubs"}
    Balance = 1
    MaxLost = 1
    MaxForeign = 0
    MaxApplied = 2
SPECIFICATION Spec
INVARIANTS CreditedOnce
