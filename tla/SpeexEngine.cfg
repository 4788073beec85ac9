SPECIFICATION EngineSpec
CONSTANTS
    M = 4
    K = 2
    AdaptLimit = 1
    ScrewedLimit = 2
    IntMax = 1000
    Levels = {1, 3}
    Steps <- SmallSteps
    Windows <- SmallWindows
    AdaptCap = 6
    Fade = 2
    Blocks <- SomeBlocks
    MaxBlocks = 7
    P = 6719
    Root <- CircleRoot
    Jobs <- SmallJobs
INVARIANTS
    LearnsTimeAligned
    ClippedNeverLearnt
    ErrorOfBackground
    SmoothHandOver
    AliasBounded
    MinimaTracked
    
    TransformTrue
    FilterConvolves
    GradientCorrelates
CHECK_DEADLOCK FALSE
