SPECIFICATION FairSpec
CONSTANTS
    Attributes <- AllAttributes
    NoAttribute = NoAttribute
    Modem = {"late", "drop"}
    Params <- SomeParams
    Prefix = "prefix"
    Hops = "hops"
    MaxPackets = 2
    MaxIndications = 2
    MaxNested = 1
INVARIANTS
    TypeOK
    StopsSending
    FileMeansNotReady
PROPERTIES
    SetIsAnswered
    BsProcessGoesOn
