\* Two pages of channel 1, written while a block of theirs is collected; balanced credits,
\* filled slots, a driver that knows its LPAs.
CONSTANTS
    NumStreams = 1
    NumBlocks = 6
    PagesPerBlock = 2
    GcThreshold = 2
    MaxOngoingGc = 1
    GcPolicy = "FIFO"
    DynamicWl = TRUE
    CreditReclaimed = TRUE
    channel_no = 2
    chips_per_channel = 1
    dies_per_chip = 1
    planes_per_die = 1
    blocks_per_plane = 6
    pages_per_block = 2
    LpnSpan = 4
    InsertsReserved = TRUE
    Lpas = {1, 3}
    Bitmaps = {{0}, {0, 1}}
    NoValue = NoValue
    Unset = Unset
    DriverReadsLpa = TRUE
    MaxErase = 3
    MaxPrograms = 1
    MaxReads = 1
    MaxStalled = 1
SPECIFICATION Spec
INVARIANTS TypeOK MappedPagesValid LockedPagesHeld InFlightUndisturbed AssertionsHold
PROPERTY ImplementsPageMap
\* The process may end, and a plane of full blocks takes no more calls.
CHECK_DEADLOCK FALSE
