SPECIFICATION JoinSpec
CONSTANTS
    d1 = d1
    d2 = d2
    d3 = d3
    Devices <- TwoDevices
    NoDevice = NoDevice
    Unset = Unset
    MaxLbds = 3
    ShortFromExt = FALSE
    ExtShort <- AnyExtShort
    NumSlots = 2
    Api = {"blacklist"}
    Env = {"early", "loss"}
    MaxStimuli = 2
SYMMETRY Symmetry
INVARIANTS
    OneSlotPerDevice
    AwaitedConfirmComes
    FreeSlotAwaitsNothing
    JoinedUntroubledIsListed
PROPERTIES
    EntersWithItsAddress
    ConfirmMovesItsExchange
    NewAddressNotInUse
CHECK_DEADLOCK FALSE
