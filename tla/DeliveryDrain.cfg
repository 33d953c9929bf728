SPECIFICATION FairSpec
CONSTANTS
    Workers = {w1, w2}
    Records = {r1, r2}
    BatchSize = 2
    MaxAttempts = 2
    MaxFaults = 1
INVARIANTS
    ExtraTurnsExplained
    AttemptsExplained
    GiveUpIsWritten
PROPERTIES
    RecordsSettle
