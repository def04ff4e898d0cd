\* Two rows, two drain loops, a lease of two ticks, one fault.
SPECIFICATION Spec
CONSTANTS
    Hashes = {h1, h2}
    Workers = {w1, w2}
    LeaseTicks = 2
    MaxFaults = 1
INVARIANTS
    DeliveredIsAnchored
    OneTxPerLease
PROPERTIES
    KeepsLedger
