SPECIFICATION MCSpec
CONSTANTS
    oA = oA
    oB = oB
    oC = oC
    Cases = {"c1"}
    Threads = {t1, t2}
    CreateStates = {"resolved"}
    AssignTargets = {"resolved"}
    Idle = Idle
    None = None
    Dumps <- MCDumps
    ImportTime = 9
    MaxPasses = 2
    MaxCrashes = 1
    AuditThreads = {"t1", "t2"}
    Calls <- MCCalls
    Actors = {"a1"}
    Auditor = "auditor"
    AGENT = "agent"
    Tenant = "sd"
    Residue <- MCResidue
    NoWork = NoWork
    QUERY_LIMIT = 3
    LIST_LIMIT = 2
    MIN_FAILURES = 1
    TOP_N = 1
    MaxOps = 2
    MaxClock = 1
    MaxSinkFaults = 1
    NoOrgCode = NoOrgCode
    Apps = {"a1", "a2", "a3"}
    AppOf <- MCAppOf
    Entries = {"e1"}
    EntryOf <- MCEntryOf
    Assets = {"x1"}
    AssetOf <- MCAssetOf
    BenchCases = {"j1"}
    CaseOf <- MCCaseOf
    Demands = {"d1"}
    OrgCodes = {oA, oB, oC}
    Parent <- MCParent
    OrgNames = {"nameA", "nameB", "nameC", "dup"}
    OrgName <- MCOrgName
    Viewers = {"v1", "v2", "v3", "v4"}
    ViewerOf <- MCViewerOf
    MAX_ORG_TREE_DEPTH = 2
    BenchBudgets <- MCBenchBudgets
    Elements = {"e1"}
    Escalated = {"a1"}
    Operations <- MCOperations
    NatEnvs <- MCNatEnvs
    MaxEscalations = 2
    MaxNatRestarts = 1
    CaseIds = {"c1", "c2"}
    ComplianceThreads = {"t1", "t2"}
    MaxCaseSteps = 3
    MaxDisturbances = 2
SYMMETRY ThreadSymmetry
INVARIANTS
    ClosedAfterReview
    RowsConverge
    TrailComplete
    TrailReadWhole
    PagesInScope
    WorkReachesHolder
    NationalHonest
    RegisterMirrored
PROPERTIES
    CasesEndOnce
CHECK_DEADLOCK FALSE
