\* The surfaces, asked where a call runs as the development identity.
SPECIFICATION MCSpec
CONSTANTS
    o1 = o1
    o2 = o2
    operator = operator
    manager = manager
    assistant = assistant
    CallIds = {1}
    Orgs = {o1, o2}
    ActorRoles = {operator, manager}
    Skills = {"list", "approve", "draft", "later"}
    Manifest <- MCManifest
    PERMISSION_ROLES <- MCPermissionRoles
    ROLE_HIERARCHY <- MCHierarchy
    DevRoles = {operator}
    DevOrg = o1
    TokenOrg = o2
    Deployments <- MCDeployments
    InitialContexts <- MCContexts
    NoRole = NoRole
    NoOrg = NoOrg
    NoSession = NoSession
    NoCall = NoCall
    QUOTA_WINDOW = 2
    MaxNow = 2
    MaxAdminChanges = 1
    MaxAuditFaults = 1
    Agents = {assistant}
    AgentSkills <- MCAgentSkills
    AuthorizationMode <- MCAuthorizationMode
    RoleSystem = manager
    Jobs = {1, 2}
    TaskIds = {"t1"}
    NoState = NoState
    NoTask = NoTask
    NoJob = NoJob
    HTTP_TIMEOUT = 1
    BLOCK_TIMEOUT = 1
    POLL_INTERVAL = 1
    MaxElapsed = 6
    u1 = u1
    u2 = u2
    s1 = s1
    d1 = d1
    d2 = d2
    d3 = d3
    k1 = k1
    k2 = k2
    q1 = q1
    q2 = q2
    Packages = {p}
    Seeded = {}
    Requests = {t1, t2}
    Nobody = Nobody
    MaxCalls = 4
    MaxFaults = 2
    Candidates = {d1, d2, d3}
    Capabilities = {k1, k2}
    ProductRoles = {q1}
    CapabilityOf <- MCCapabilityOf
    RoleRefOf <- MCRoleRefOf
    ManifestCapabilities = {k1, k2}
    RegistryRoles <- MCRegistryRoles
    PackagedCapabilities = {k1}
    EnablerRoles = {q1}
    ACCOUNT_ADMIN = q2
    Situations = {"none", "surface_not_exposed", "actor_disabled", "cross_tenant", "org_mismatch"}
    NoRoleRef = NoRoleRef
    NoReview = NoReview
    MaxReviewCrashes = 1
    Users = {u1, u2}
    Subs = {s1}
    OrgUnits = {o1}
    Roles = {manager}
    Aux <- MCAux
    ActorRows <- MCActorRows
    NoUser = NoUser
    NoSub = NoSub
    Idle = Idle
    MaxIdentityCrashes = 1
    MaxEdits = 3
    MaxImports = 2
SYMMETRY RequestSymmetry
CHECK_DEADLOCK FALSE
INVARIANT
    DevIdentityUnderBypass
