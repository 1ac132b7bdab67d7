SPECIFICATION Spec
CONSTANTS
    N = 2
    Jobs = 1
    Group = TRUE
    MaxBudget = 2
    MaxDepth = 2
    MaxEnters = 2
    Fallbacks = {TRUE, FALSE}
    Forkers = {1}
INVARIANTS
    Inv
