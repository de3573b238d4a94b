SPECIFICATION ResponsiveSpec
CONSTANTS
    Orders = {o1}
    Automatic = {o1}
    Instances = {i1, i2}
    Calls = {c1}
    NoOrder = NoOrder
    Slug = "royal-crown"
    Price = 2
    Quantity = 3
    MaxRetry = 3
    MaxCalls = 1
    MaxFaults = 0
    MaxCrashes = 0
    MaxLostAcks = 0
CHECK_DEADLOCK FALSE
PROPERTIES
    QueueDrains
    RefundsSettle
