SPECIFICATION FairSpec
CONSTANTS
    N = 2
    Buffers = 2
    MaxRecords = 1
    Env = {"loss", "late", "reboot", "twice"}
    MaxEvents = 6
INVARIANTS
    TypeOK
    HandedInOrder
    OneAtATime
    ClientUpToDate
PROPERTIES
    MessagesMoveOn
CHECK_DEADLOCK FALSE
