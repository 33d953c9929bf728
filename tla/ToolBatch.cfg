\* Two calls, one replayable, whatever ids the provider gives them; an earlier turn
\* used the id "b".
SPECIFICATION FairSpec
CONSTANTS
    N = 2
    Safe = {2}
    Ids = {"a", "b"}
    Earlier = {"b"}
    LedgerBefore <- Ledger
    MaxToolCalls = 2
    Concurrency = 2
    Policies = {"Abort", "Continue"}
    MaxCrashes = 1
    MaxResumes = 2
INVARIANTS
    Paired
    SlotsAreAccounted
    AnsweredOnce
    TranscriptIsFold
    LeftAnswered
    RerunIsDecided
PROPERTIES
    BatchSettles
