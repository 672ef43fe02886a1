\* The code as it is: does the check after an erase ever fail?
CONSTANTS
    NumStreams = 1
    NumBlocks = 4
    PagesPerBlock = 2
    GcThreshold = 2
    MaxOngoingGc = 1
    GcPolicy = "FIFO"
    DynamicWl = TRUE
    CreditReclaimed = FALSE
    MaxErase = 2
    MaxPrograms = 2
    MaxReads = 1
SPECIFICATION Spec
INVARIANT BookKeepingStaysConsistent
\* The process may end (exit), and a plane of full blocks takes no more calls.
CHECK_DEADLOCK FALSE
