SPECIFICATION Spec
CONSTANTS
    Calls = {c1, c2}
    MaxCalls = 4
    MaxIssued = 2
CHECK_DEADLOCK FALSE
SYMMETRY Symmetric
INVARIANTS
    TypeOK
    DecisionStands
    SessionsAreEarned
    OneVerdict
    PermissionsOfSupervisors
    CodeOpensOnce
