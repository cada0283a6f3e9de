SPECIFICATION Spec
CONSTANTS
    Calls = {c1, c2}
    Other = Other
    MaxForeign = 0
    LiveOrders = TRUE
INVARIANT RejectionIsDefinitive
CHECK_DEADLOCK FALSE
