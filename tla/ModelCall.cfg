\* Two calls, of one run or of two that share the cache, over a chain of three
\* names, one of which does not resolve, and a model outside it.
SPECIFICATION Spec
CONSTANTS
    Models = {"a", "b", "d", "x"}
    Bound = {"a", "x"}
    Usable = {"a", "b", "x"}
    Steered = {"x"}
    Chain <- Named
    Fallbacks <- Spares
    CacheIdentity <- Identities
    Window <- Windows
    Harnesses <- Built
    MaxAttempts = 2
    MaxTries = 3
    MaxIdle = 2
    MaxDeltas = 1
    MaxCalls = 2
CHECK_DEADLOCK FALSE
INVARIANTS
    FragmentsAreTheAnswers
    AttemptsBounded
    CacheKeepsItsModel
    WrittenOffIsLastResort
