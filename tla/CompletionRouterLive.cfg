\* A pending completion, recorded before the markers or after, is settled
\* whatever claims are lost on the way.
SPECIFICATION FairSpec
CONSTANTS
    Tasks = {t1}
    Parents = {p1}
    Routers = {r1, r2}
    Lane <- AllHeld
    Legacy = {t1}
    MaxAttempts = 2
    MaxEpoch = 1
    MaxToken = 2
PROPERTIES
    DeliverableSettles
