SPECIFICATION FairSpec
CONSTANTS
    Sizes = {16, 5}
    Tries = 2
    NumTargets = 1
    Signed = TRUE
    Env = {"loss", "nack", "late"}
    MaxLate = 2
    MaxOps = 3
INVARIANTS
    TypeOK
    SuccessIsComplete
    ImageIsGood
    RunningIsRunning
PROPERTIES
    OperationEnds
CHECK_DEADLOCK FALSE
