\* Two requests for one resource, each about to write its draft.
SPECIFICATION MCSpec
CONSTANTS
    Apps = {a1, a2}
    Threads = {t1, t2}
    Idle = Idle
    NoApp = NoApp
    MaxRounds = 2
    MaxFaults = 1
    Codes = {"f1"}
    Reviewers = {"t1", "t2"}
    MaxAudits = 3
    MaxCardWrites = 3
    MaxBreaks = 1
    Deliveries = {"d1"}
    DeliveryAudits <- MCDeliveryAudits
    ReceiptNos = {"n1"}
    ReceiptStates = {"received"}
    AttemptIds = {"x1"}
    MaxCommitFaults = 1
    Texts = {"text"}
    OrganCodes = {"o1", "o2", "ox"}
    RegionCodes = {"r1", "rx"}
    Entries <- MCEntries
    ReferenceData <- MCReferenceData
    MaxFormSteps = 5
SYMMETRY SkillSymmetry
CHECK_DEADLOCK FALSE
INVARIANT
    OneDraftPerResource
