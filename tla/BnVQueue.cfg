SPECIFICATION Spec
CONSTANTS
    Capacity = 3
    MaxMsgs = 3
    Env = {}
INVARIANTS
    PendingAreSent
CHECK_DEADLOCK FALSE
