CONSTANTS
    j1 = j1
    j2 = j2
    o1 = o1
    o2 = o2
    b1 = b1
    b2 = b2
    JobIds = {j1, j2}
    Orgs = {o1, o2}
    Businesses = {b1, b2}
    Owned <- MCOwned
    DefaultOrg = o1
    HasPhone = {b2}
    Configured = TRUE
    MaxAttempts = 2
    System = System
INVARIANTS TypeOK LedgerHonest FailedJobsSendNothing TenantView StatsAgree JobsConclude
CHECK_DEADLOCK FALSE
SYMMETRY JobSymmetry
SPECIFICATION Spec
