SPECIFICATION EngineSpec
CONSTANTS
    M = 2
    K = 2
    AdaptLimit = 1
    ScrewedLimit = 2
    IntMax = 1000
    Levels = {1, 3}
    Steps <- SmallSteps
    Windows <- SmallWindows
    AdaptCap = 6
    Fade = 2
    Blocks <- SomeBlocks
    MaxBlocks = 4
    P = 6719
    Root <- CircleRoot
    Jobs <- NoJobs
PROPERTIES
    SuppressionActs
CHECK_DEADLOCK FALSE
