SPECIFICATION Spec
CONSTANTS
    LEAD = 1
    NEAR = 1
    VoiceRegs = 3
    Bytes = 4
    FcLow = 2
    Songs = {"a"}
    Renderers = {1, 2}
    Groups <- MCGroups
    Listed = {1, 2, 3}
    Results <- MCResults
    Matches <- MCMatches
    Tunes = {tune1, tune2}
    Modes = {lead, onset}
    NameLists <- MCNames
    MaxBuilds = 3
    Manifests <- MCManifests
    Fuzzes <- MCFuzzes
    Reductions <- MCReductions
    MaxTrace = 5
    MaxDepth = 3
    Locals = {"x", "y"}
    Params = {"x"}
    Attributes = {"v", "c"}
    Containers = {"c"}
    Indices = {"0"}
    Code <- MCCode
INVARIANTS
    RowsOwn
    TablesTrue
    GraphTrue
    CasesTrue
    KeptTrue
    BlameTrue
    FuzzTrue
    OriginsKnown
    WhyTrue
SYMMETRY Alike
CHECK_DEADLOCK FALSE
