\* tombstone() of a pending completion against the acknowledgement of its delivery.
SPECIFICATION Spec
CONSTANTS
    Tasks = {t1}
    Parents = {p1}
    Routers = {r1, r2}
    Lane <- AllHeld
    Legacy = {t1}
    MaxAttempts = 2
    MaxEpoch = 2
    MaxToken = 2
PROPERTIES
    DeliveredIsFinal
