SPECIFICATION Spec
CONSTANTS
    N = 2
    Buffers = 2
    MaxRecords = 1
    Env = {"twice"}
    MaxEvents = 6
PROPERTIES
    AutoClosed
CHECK_DEADLOCK FALSE
