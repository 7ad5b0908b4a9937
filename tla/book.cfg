CONSTANTS
    OrderIds = {o1, o2, o3}
    Users = {u1, u2}
    Prices = {1, 2}
    MaxQty = 2
    MaxPlaced = 4
    NoOrder = NoOrder
SPECIFICATION BookSpec
SYMMETRY Symmetry
INVARIANTS BookTypeOK NeverCrossed BookIndexed FrozenIsBacked
PROPERTIES PriceTimePriority
CHECK_DEADLOCK FALSE
