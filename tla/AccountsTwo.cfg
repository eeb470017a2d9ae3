SPECIFICATION Spec
CONSTANTS
    Users = {u1, u2}
    Orgs = {o1, o2}
    Businesses = {b1}
    Requests = {r1, r2}
    BootstrapEnabled = TRUE
    Expiry = 1
    Patches <- MCPatches
    Null = Null
    Keep = Keep
    MaxRequests = 3
    Deployments <- MCDeployments
INVARIANTS DisabledRunsOut OneFirstAdmin OrganizationsWhole
PROPERTY TenantsApart
SYMMETRY MCSymmetry
CHECK_DEADLOCK FALSE
