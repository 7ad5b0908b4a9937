CONSTANTS
    Transfers = {t1}
    Workers = {w1}
    QueueWorker = w1
    QueueCapacity = 1
    MaxCrashes = 2
    DepositMayFail = {"trading"}
SPECIFICATION FairSpec
INVARIANTS TypeOK MoneyConserved PersistBeforeCall ToldTruthfully
PROPERTIES FollowsFsm ImplementsAtomic EveryTransferEnds
