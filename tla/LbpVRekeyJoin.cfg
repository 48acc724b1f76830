SPECIFICATION TwoRegistered
CONSTANTS
    d1 = d1
    d2 = d2
    d3 = d3
    Devices <- ThreeDevices
    NoDevice = NoDevice
    Unset = Unset
    MaxLbds = 3
    ShortFromExt = FALSE
    ExtShort <- AnyExtShort
    NumSlots = 2
    Api = {"rekey"}
    Env = {}
    MaxStimuli = 2
PROPERTIES
    NextPhaseWhenAllProvided
CHECK_DEADLOCK FALSE
