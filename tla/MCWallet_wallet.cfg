SPECIFICATION Spec
CONSTANTS
    Orders = {o1}
    Callers = {w1, w2}
    Opening = 0
    Limit = 2
    Limits = {1}
    Amounts = {1, 2}
    Targets <- Debts
    Percents = {50}
    HomeRate = 1
    AwayRate = 3
    MaxCalls = 3
    MaxFaults = 1
CHECK_DEADLOCK FALSE
SYMMETRY Symmetric
INVARIANTS
    TypeOK
    CreditLine
    BooksBalance
