\* One application, two requests in flight, one broken bracket; one file, two
\* reviews at once; one delivery task, three skills on it, one failing commit; one
\* form, five skills on it.
SPECIFICATION MCSpec
CONSTANTS
    Apps = {a1}
    Threads = {t1, t2}
    Idle = Idle
    NoApp = NoApp
    MaxRounds = 2
    MaxFaults = 1
    Codes = {"f1"}
    Reviewers = {"t1", "t2"}
    MaxAudits = 3
    MaxCardWrites = 3
    MaxBreaks = 1
    Deliveries = {"d1"}
    DeliveryAudits <- MCDeliveryAudits
    ReceiptNos = {"n1"}
    ReceiptStates = {"received"}
    AttemptIds = {"x1"}
    MaxCommitFaults = 1
    Texts = {"text"}
    OrganCodes = {"o1", "o2", "ox"}
    RegionCodes = {"r1", "rx"}
    Entries <- MCEntries
    ReferenceData <- MCReferenceData
    MaxFormSteps = 5
SYMMETRY SkillSymmetry
CHECK_DEADLOCK FALSE
INVARIANTS
    GrantsInOrder
    ApprovalFileKept
    DeliveryTrailKept
    FormKept
