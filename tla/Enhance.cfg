SPECIFICATION Spec
CONSTANTS
    Photos = 2
    Models = 1
    Downscale = TRUE
    MaxScore = 1
    MaxBatches = 2
    MaxDeaths = 1
INVARIANTS
    RenderFollowsPlan
    EnhancedAgrees
    IntermediatesRemoved
    VerdictDescribesRender
PROPERTIES
    BatchEnds
CHECK_DEADLOCK FALSE
