\* One login, one session, two requests in flight, either store; an application
\* for a resource of either kind under every skill, and a second one that is
\* opened and submitted meanwhile.
SPECIFICATION MCSpec
CONSTANTS
    Sids = {s1}
    Logins = {l1}
    Roles = {r1, r2}
    Threads = {t1, t2}
    None = None
    AccessLife = 2
    RefreshLife = 3
    Threshold = 2
    StateLife = 1
    MaxNow = 3
    MaxTokens = 2
    MaxFaults = 1
    MaxChanges = 2
    operator = operator
    manager = manager
    consumer = consumer
    provider = provider
    first = a1
    Apps = {a1, a2}
    Resources = {open, guarded}
    Conditional = {guarded}
    Users = {operator, manager}
    Orgs = {consumer, provider}
    Org <- MCOrg
    Owner <- MCOwner
    Managers = {manager}
    Nobody = Nobody
    NoResource = NoResource
    MaxRounds = 2
SYMMETRY SessionSymmetry
CHECK_DEADLOCK FALSE
INVARIANTS
    ServedAsHeld
    ApprovedByTheBook
    CredentialAfterApproval
PROPERTIES
    SessionsGoForward
    KeepsConditionalFlow
