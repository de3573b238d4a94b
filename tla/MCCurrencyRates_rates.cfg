SPECIFICATION Spec
CONSTANTS
    Processes = {p1, p2}
    Schedulers = {p2}
    Admins = {a1}
    Orders = {o1}
    Users = {u1, u2}
    NoProcess = none
    Rates = {1, 2, 4}
    FirstRate = 2
    Debt = 4
    MaxAge = 2
    MaxChanges = 2
    MaxFaults = 1
CHECK_DEADLOCK FALSE
INVARIANTS
    OwnUpdatesApply
    DebtsPegged
PROPERTIES
    RatesTakeEffect
