CONSTANTS
    Order <- MCOrder
    MaxBatch = 2
    Room = 2
    MaxFailures = 1
SPECIFICATION Spec
INVARIANTS
    TypeOK
    HistoryNotAhead
    MirrorsEngine
    DerivedComplete
CHECK_DEADLOCK FALSE
