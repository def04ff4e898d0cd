\* One entry and one asset, two orgs, two requests at once.
SPECIFICATION Spec
CONSTANTS
    Catalogs = {c1}
    Seeded = {c1}
    Assets = {a1}
    Targets = {c1}
    AssetStarts = {"draft", "approved_pending_publish"}
    Orgs = {o1, o2}
    Threads = {t1, t2}
    Idle = Idle
    Nothing = Nothing
SYMMETRY ThreadSymmetry
INVARIANTS
    NoStaleReason
PROPERTIES
    ReviewsAndOwnersKept
