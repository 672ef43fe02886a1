\* The code as it is: two streams and one pool, every write fills its block.
CONSTANTS
    NumStreams = 2
    NumBlocks = 8
    PagesPerBlock = 1
    GcThreshold = 2
    MaxOngoingGc = 1
    GcPolicy = "FIFO"
    DynamicWl = TRUE
    CreditReclaimed = FALSE
    MaxErase = 2
    MaxPrograms = 2
    MaxReads = 1
SPECIFICATION Spec
INVARIANTS TypeOK PointersFitHolder HistoryNeverEmpty SomeExitsUnreachable VictimsClosed
\* The process may end (exit), and a plane of full blocks takes no more calls.
CHECK_DEADLOCK FALSE
