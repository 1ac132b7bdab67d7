SPECIFICATION FairSpec
CONSTANTS
    N = 2
    Jobs = 2
    Group = TRUE
    MaxBudget = 1
    MaxDepth = 1
    MaxEnters = 1
    Fallbacks = {FALSE}
    Forkers = {}
INVARIANTS
    EachTaskHeld
PROPERTIES
    ResultsSpec
    EndReported
    DeadlineEnforced
    AllEnd
