SPECIFICATION Spec
CONSTANTS
    Byte = 16
    JUMPS = 4
    Devices = {}
    Voices = 1
    EDGE_BITS = 9
    Base = 32
    MERGE = 64
    Pieces = 2
    Call <- MCCall
INVARIANTS
    Reordered
    SegmentsHeld
    WellPlaced
CHECK_DEADLOCK FALSE
