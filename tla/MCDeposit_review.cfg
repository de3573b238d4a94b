SPECIFICATION FairSpec
CONSTANTS
    Users = {u1}
    Deposits = {d1, d2}
    Reviewers = {r1, r2}
    NoDeposit = NoDeposit
    Amounts = {1, 3}
    Rates = {2, 3}
    MaxCalls = 4
    MaxFaults = 1
    Owner <- OneOwner
CHECK_DEADLOCK FALSE
INVARIANTS
    CreditedOnce
    OnePendingUnlessRaced
PROPERTIES
    ApprovedIsPaid
