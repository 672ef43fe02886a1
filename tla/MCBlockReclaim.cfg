\* With the erase credit balanced: blocks are erased, pooled and opened again.
CONSTANTS
    NumStreams = 1
    NumBlocks = 4
    PagesPerBlock = 2
    GcThreshold = 4
    MaxOngoingGc = 1
    GcPolicy = "FIFO"
    DynamicWl = TRUE
    CreditReclaimed = TRUE
    MaxErase = 1
    MaxPrograms = 1
    MaxReads = 0
SPECIFICATION Spec
INVARIANTS HolderExclusive PointersFitHolder HeldPagesIntact CountersAgree
PROPERTY ImplementsFlashPages
\* The process may end (exit), and a plane of full blocks takes no more calls.
CHECK_DEADLOCK FALSE
