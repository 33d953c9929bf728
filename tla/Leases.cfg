SPECIFICATION Spec
CONSTANTS
    a1 = a1
    a2 = a2
    a3 = a3
    Actors = {a1, a2, a3}
    HolderOf <- TwoIncarnations
    Plain = {a3}
    TTL = 1
    Skew = 1
    MaxEpoch = 2
    MaxTime = 2
SYMMETRY IncarnationSymmetry
INVARIANTS
    UniqueTenure
PROPERTIES
    FencedWritesAdvance
    LiveTenureProtected
CHECK_DEADLOCK FALSE
