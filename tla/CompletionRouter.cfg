\* Two routers share the completion of one child through stops and reopenings.
SPECIFICATION Spec
CONSTANTS
    Tasks = {t1}
    Parents = {p1}
    Routers = {r1, r2}
    Lane <- AllFollowup
    Legacy = {}
    MaxAttempts = 1
    MaxEpoch = 3
    MaxToken = 2
SYMMETRY RouterSymmetry
INVARIANTS
    CloseIsComplete
    PermitIsCurrent
PROPERTIES
    ClaimEndsWithItsHolder
