SPECIFICATION FairSpec
CONSTANTS
    Attributes <- AllAttributes
    NoAttribute = NoAttribute
    Modem = {"late", "drop"}
    Params <- SomeParams
    Prefix = "prefix"
    Hops = "hops"
    MaxPackets = 2
    MaxIndications = 1
    MaxNested = 1
PROPERTIES
    StartIsRetried
