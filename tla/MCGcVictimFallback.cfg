\* The policy that promises to fall back.
CONSTANTS
    NumStreams = 1
    NumBlocks = 5
    PagesPerBlock = 1
    GcThreshold = 2
    MaxOngoingGc = 1
    GcPolicy = "RANDOM"
    DynamicWl = TRUE
    CreditReclaimed = FALSE
    MaxErase = 1
    MaxPrograms = 1
    MaxReads = 0
    RgaSizes = {0, 2}
    RhoPages = 1
SPECIFICATION SearchSpec
PROPERTY ThresholdFallsBack
CHECK_DEADLOCK FALSE
