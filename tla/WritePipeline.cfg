\* Two requests of any kind on one card, overlapping or not, two faults.
SPECIFICATION Spec
CONSTANTS
    Dispatches = {d1, d2}
    Cards = {c1}
    Nobody = Nobody
    MaxInFlight = 2
    MaxFaults = 2
INVARIANTS
    AuditedFirst
    WritesKept
    TrailCloses
PROPERTIES
    EveryRequestEnds
