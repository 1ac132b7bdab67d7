SPECIFICATION Spec
CONSTANTS
    Byte = 4
    JUMPS = 4
    MaxColumns = 2
    Cursors <- MCCursors
    Scalars <- MCScalars
    Devices = {10}
    Ports = {1}
    Wide = {3}
    MaxCalls = 2
    Loads <- MCLoads
    PyFrame <- MCPyFrame
INVARIANTS
    ObjectsAgree
    RunsAsPython
    StackAsVerified
CHECK_DEADLOCK FALSE
