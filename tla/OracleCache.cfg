SPECIFICATION Spec
CONSTANTS
    Procs = {p1, p2}
    Traces = {t1, t2}
    MaxCalls = 1
    MaxImages = 2
    MaxKills = 1
    AnyTime = FALSE
INVARIANTS
    StampTrue
    RowsCurrent
