SPECIFICATION Spec
CONSTANTS
    Byte = 256
    JUMPS = 4
    Devices = {}
    REGISTERS = 3
    Frames = 2
    Compiled <- MCElaborate
    Began <- MCStart
    Reference <- MCPlayed
INVARIANTS
    SameRun
    Diagnosed
CHECK_DEADLOCK FALSE
