SPECIFICATION Spec
CONSTANTS
    Bits <- MCBits
    PortBits = {0}
    Entry = 10
    Entries <- MCEntries
    Modelled <- MCModelled
    Plays <- MCPlays
    Code <- MCCode
    Own <- MCOwn
    Program <- MCProgram
    Count <- MCCount
    Answer = {1}
    Gate = {1}
    BAILS = 1
    BAIL_FRAMES = 1
    MaxFrames = 3
    Memories <- MCMemories
    Builds <- MCBuilds
    States <- MCStates
    Late = FALSE
INVARIANTS
    LastReported
PROPERTIES
    Undoable
    PlaysAsPython
    NeedTeaches
