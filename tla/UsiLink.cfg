SPECIFICATION FairSpec
CONSTANTS
    LenMod = 8
    Size = 10
    MinOverhead = 3
    Messages <- MixedMessages
    Threads <- OneThread
    RxSize = 5
    Gone = Gone
    Damages <- AnyDamage
    MaxNoise = 1
INVARIANTS
    TypeOK
    RingInSync
    RingHoldsFrames
    StaysInBuffer
PROPERTIES
    KeepsPromise
    SendsInOrder
    AcceptedArrive
CHECK_DEADLOCK FALSE
