SPECIFICATION Spec
CONSTANTS
    super = super
    tenant = tenant
    org = org
    None = None
    Nobody = Nobody
    Users <- MCUsers
    SuperAdmins <- MCSuperAdmins
    Orgs <- MCOrgs
    Jobs <- MCJobs
    MaxPolls = 2
INVARIANT ContextSurvives
CHECK_DEADLOCK FALSE
