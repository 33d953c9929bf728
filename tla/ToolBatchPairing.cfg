\* Two calls of a concurrent batch.
SPECIFICATION Spec
CONSTANTS
    N = 2
    Safe = {}
    Ids = {"a", "b"}
    Earlier = {}
    LedgerBefore <- Ledger
    MaxToolCalls = 2
    Concurrency = 2
    Policies = {"Abort"}
    MaxCrashes = 0
    MaxResumes = 0
INVARIANTS
    EveryStartIsAnswered
