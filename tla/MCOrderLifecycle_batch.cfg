SPECIFICATION Spec
CONSTANTS
    Orders = {o1, o2, o3}
    Automatic = {o1, o2}
    Instances = {i1}
    Calls = {}
    NoOrder = NoOrder
    Slug = "toros"
    Price = 3
    Quantity = 2
    MaxRetry = 3
    MaxCalls = 0
    MaxFaults = 0
    MaxCrashes = 0
    MaxLostAcks = 0
CHECK_DEADLOCK FALSE
INVARIANTS
    CompletedKeepsCharge
    DeliveredIsPaid
