SPECIFICATION Spec
CONSTANTS
    Orders = {o1}
    Automatic = {o1}
    Instances = {i1}
    Calls = {}
    NoOrder = NoOrder
    Slug = "alkasr"
    Price = 2
    Quantity = 2
    MaxRetry = 2
    MaxCalls = 0
    MaxFaults = 0
    MaxCrashes = 0
    MaxLostAcks = 0
CHECK_DEADLOCK FALSE
INVARIANT BlipIsNotRefunded
