SPECIFICATION Spec
CONSTANTS
    Items = {i1, i2}
    NoItem = none
    Products = {r1}
    Processes = {p1}
    Admins = {a1}
    Orders = {o1}
    Markups = {1}
    Adjustments <- OneLess
    Off = off
    Entries <- Offered
    MaxPrice = 2
    MaxRequests = 2
    MaxEvents = 1
CHECK_DEADLOCK FALSE
INVARIANTS
    TypeOK
    SoldAboveCost
PROPERTIES
    RawNeverGoesBack
    CatalogueFollows
    PricesFollow
