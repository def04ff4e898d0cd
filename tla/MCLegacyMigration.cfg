\* Two schemas, two codes, two dumps of each, two runs, one fault; one topic
\* package, four review rows, one crash.
SPECIFICATION MCSpec
CONSTANTS
    Schemas = {s1, s2}
    Refs = {r1, r2}
    Bad = Bad
    None = None
    MaxFiles = 2
    MaxRuns = 2
    MaxFaults = 1
    MaxRollbacks = 1
    p1 = p1
    c1 = c1
    NoPackage = NoPackage
    Packages = {p1}
    Catalogs = {c1}
    PackageStarts = {"draft", "offline_pending"}
    ZoneStatuses = {"draft", "published"}
    PackageRows <- MCPackageRows
    MaxTrail = 4
    MaxEvidence = 1
    MaxImportCrashes = 1
SYMMETRY MigrationSymmetry
CHECK_DEADLOCK FALSE
INVARIANTS
    AmbiguousNeverMapped
    PackagesAccounted
PROPERTIES
    AccountsAreTrue
