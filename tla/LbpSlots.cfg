SPECIFICATION FairSpec
CONSTANTS
    d1 = d1
    d2 = d2
    d3 = d3
    Devices <- TwoDevices
    NoDevice = NoDevice
    Unset = Unset
    MaxLbds = 1
    ShortFromExt = FALSE
    ExtShort <- AnyExtShort
    NumSlots = 1
    Api = {"kick", "manual", "initial", "blacklist", "rekey"}
    Env = {"late", "slow", "preempt", "restart", "reorder", "randp"}
    MaxStimuli = 2
PROPERTIES
    SlotsAreFreed
CHECK_DEADLOCK FALSE
