SPECIFICATION FairSpec
CONSTANTS
    MaxModelCalls = 3
    Retries <- MCRetries
    Tools = {"search"}
    Permits = 1
    MaxBatch = 2
    MaxEvents = 1
INVARIANTS
    MirrorAgrees
    TurnsPaired
    CallsAreAnswered
    HostMessagesKept
    ExitIsEarned
PROPERTY RunEnds
CHECK_DEADLOCK FALSE
