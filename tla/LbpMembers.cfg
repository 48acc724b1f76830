SPECIFICATION Spec
CONSTANTS
    d1 = d1
    d2 = d2
    d3 = d3
    Devices <- TwoDevices
    NoDevice = NoDevice
    Unset = Unset
    MaxLbds = 3
    ShortFromExt = FALSE
    ExtShort <- AnyExtShort
    NumSlots = 1
    Api = {"kick", "blacklist"}
    Env = {"early", "overrun", "loss", "restart", "leave"}
    MaxStimuli = 4
SYMMETRY Symmetry
INVARIANTS
    TypeOK
    NoDeviceListedTwice
    EntriesBelowSize
    AddressesBelowSize
    NoSharedShort
PROPERTIES
    KickRemovesItsDevice
CHECK_DEADLOCK FALSE
