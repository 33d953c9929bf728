SPECIFICATION FairSpec
CONSTANTS
    c1 = c1
    c2 = c2
    d1 = d1
    d2 = d2
    d3 = d3
    g1 = g1
    g2 = g2
    Calls = {c1, c2}
    Drivers = {d1, d2, d3}
    Groups = {g1, g2}
    GroupOf <- TwoGroups
    MaxRetries = 1
    MaxFaults = 2

INVARIANTS
    AnswersAgree
    FinishedIsNotReopened
    CompletionIsTheTerminal
PROPERTIES
    ImplementsResumableTask
    CallsReturn
CHECK_DEADLOCK FALSE
