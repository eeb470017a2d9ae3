SPECIFICATION FairSpec
CONSTANTS
    super = super
    tenant = tenant
    org = org
    None = None
    Nobody = Nobody
    Users <- MCUsers
    SuperAdmins <- MCSuperAdmins
    Orgs <- MCOrgs
    Jobs <- MCJobs
    MaxPolls = 2
INVARIANTS TypeOK SessionWhole TenantsSendNone FollowsOneJob
PROPERTY EndIsShown
CHECK_DEADLOCK FALSE
