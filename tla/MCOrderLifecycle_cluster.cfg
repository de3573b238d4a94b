SPECIFICATION Spec
CONSTANTS
    Orders = {o1}
    Automatic = {o1}
    Instances = {i1, i2}
    Calls = {c1, c2}
    NoOrder = NoOrder
    Slug = "plugin"
    Price = 2
    Quantity = 2
    MaxRetry = 2
    MaxCalls = 2
    MaxFaults = 1
    MaxCrashes = 1
    MaxLostAcks = 1
CHECK_DEADLOCK FALSE
SYMMETRY Symmetric
INVARIANTS
    TypeOK
    NeverOverRefunded
    RefundedMeansCredited
    RefundedLeavesQueue
    NeverExhausted
PROPERTY OverwritesAreTrue
