CONSTANTS
    Orders = {o1, o2}
    Bad = Bad
    MaxMessages = 3
    MaxFaults = 2
    BatchSize = 2
    RingSize = 2
    DedupSize = 2
    MaxReceived = 2
SPECIFICATION Spec
SYMMETRY Symmetry
INVARIANTS TypeOK AtLeastOnce ExecutedOnce SotLinked SettledWhileUp
CHECK_DEADLOCK FALSE
