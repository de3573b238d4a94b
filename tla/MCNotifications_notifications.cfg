SPECIFICATION Spec
CONSTANTS
    Owner = u1
    Admins = {a1}
    Supervisors = {s1}
    Grants <- MCGrants
    Happenings = {"created", "review", "announced", "completed"}
    MaxEvents = 2
    MaxOpens = 2
    MaxTroubles = 1
CHECK_DEADLOCK FALSE
INVARIANTS
    OncePerEvent
PROPERTIES
    EveryoneIsTold
