SPECIFICATION PartSpec
CONSTANTS
    Requests = {"r1", "r2"}
    MaxEpoch = 2
    SiteRoles = {"user", "admin"}
    OrgRoles = {"none", "owner"}
    ProjectRoles = {"none", "writer"}
    Slots = {"s1", "s2", "s3"}
    Keys = {"k1"}
    Kinds = {"put org", "delete org", "put site", "delete site"}
    Claims = {0, 3}
    AllowLocalSiteAdmins = TRUE
    SignIns = {"r1", "r2"}
    MaxTime = 1
    Calls = {"r1", "r2"}
    MaxTokens = 3
    MaxFlows = 2
    BackendKinds = {"sstate"}
    Hashserv = {}
    ObjectKeys = {1, 2}
    Admins = {"a1"}
    OrgAdmins = {"a1"}
    MaxBackends = 2
    MaxProjects = 1
    BatchSize = 1
    MaxPages = 1
    Stuck = {}
    AdminOps = {"create", "update", "delete", "delete project"}
INVARIANTS
    KeysFollowTheRole
    LocksAreOrdered
    AuthorityIsSound
    SessionsFollowTheLogin
PROPERTIES
    NothingLostUnasked
    MembershipsAreHonest
    MembershipsFollowReadableClaims
