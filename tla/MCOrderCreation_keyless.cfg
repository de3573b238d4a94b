SPECIFICATION Spec
CONSTANTS
    Users = {u1}
    Requests = {r1, r2}
    Keys = {k1}
    NoKey = NoKey
    NoRequest = NoRequest
    Automatic = TRUE
    Opening = 2
    Limit = 1
    ListPrice = 1
    Quotes = {2}
    TopUps = {1}
    MaxTopUps = 1
    MaxFaults = 0
CHECK_DEADLOCK FALSE
INVARIANT KeylessIsNotEnforced
