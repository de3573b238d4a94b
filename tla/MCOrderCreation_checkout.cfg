SPECIFICATION Spec
CONSTANTS
    Users = {u1, u2}
    Requests = {r1, r2, r3}
    Keys = {k1}
    NoKey = NoKey
    NoRequest = NoRequest
    Automatic = TRUE
    Opening = 2
    Limit = 1
    ListPrice = 1
    Quotes = {2}
    TopUps = {1}
    MaxTopUps = 1
    MaxFaults = 1
CHECK_DEADLOCK FALSE
SYMMETRY Symmetric
INVARIANTS
    TypeOK
    OneOrderPerKey
    WithinLimit
    NumbersAreUnique
    AnswersAreTrue
    StartedOnce
    PaidIsStarted
PROPERTY PurchasesAreAtomic
