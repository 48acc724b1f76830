SPECIFICATION RekeySpec
CONSTANTS
    d1 = d1
    d2 = d2
    d3 = d3
    Devices <- ThreeDevices
    NoDevice = NoDevice
    Unset = Unset
    MaxLbds = 3
    ShortFromExt = FALSE
    ExtShort <- AnyExtShort
    NumSlots = 2
    Api = {"rekey"}
    Env = {"early", "overrun", "loss", "slow", "drop", "late"}
    MaxStimuli = 1
PROPERTIES
    NextPhaseWhenAllProvided
    SwitchWhenAllSwitched
    RekeyingEndsUntroubled
CHECK_DEADLOCK FALSE
