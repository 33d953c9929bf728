\* Two runs under one id: duplicates, retries and resumptions.
SPECIFICATION LiveSpec
CONSTANTS
    r1 = r1
    r2 = r2
    t1 = t1
    c1 = c1
    c2 = c2
    Runs = {r1, r2}
    Tasks = {t1}
    TaskOf <- Resumed
    Spawned = {r1}
    Managed = {r2}
    Owners = {"o1"}
    OwnerOf <- OneOwner
    Callers = {c1, c2}
    ActsFor <- BothFirst
    SoftCap = 1
PROPERTIES
    LostToALateWait
    CallsTakeEffect
