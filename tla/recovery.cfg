CONSTANTS
    Orders = {o1, o2, o3}
    Bad = Bad
    MaxMessages = 3
    MaxFaults = 1
    BatchSize = 2
    RingSize = 2
    DedupSize = 2
    MaxReceived = 2
SPECIFICATION Spec
INVARIANTS RecoveryKeepsSot
CHECK_DEADLOCK FALSE
