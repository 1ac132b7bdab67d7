SPECIFICATION Spec
CONSTANTS
    Frame = 12
    MaxCycles = 90
    Frames = 3
    IrqHandler = 20
    NmiHandler = 30
    BrkHandler = 35
    IrqRet = 37
    KernalBase = 50
    Registers = {0, 1}
    MaxWait = 2
    Logs <- MCLogs
    Chips = {0, 1}
    Probes = {0, 14}
    Cpf = 6
    Players <- MCPlayers
    Renders <- MCRenders
    Voices = 1
    Sides <- MCSides
    VoiceRegs = 3
    LEAD = 2
    Bytes = 4
    FcLow = 2
INVARIANTS
    LoopsAgree
    FramesTrue
    LogFramed
    GridsCompared
CHECK_DEADLOCK FALSE
