\* Two collections at a time and writes that go on meanwhile, for two pages of channel 1 and
\* writes of a whole page; balanced credits, filled slots, a driver that knows its LPAs.
CONSTANTS
    NumStreams = 1
    NumBlocks = 7
    PagesPerBlock = 2
    GcThreshold = 2
    MaxOngoingGc = 2
    GcPolicy = "FIFO"
    DynamicWl = TRUE
    CreditReclaimed = TRUE
    channel_no = 2
    chips_per_channel = 1
    dies_per_chip = 1
    planes_per_die = 1
    blocks_per_plane = 7
    pages_per_block = 2
    LpnSpan = 4
    InsertsReserved = TRUE
    Lpas = {1, 3}
    Bitmaps = {{0}}
    NoValue = NoValue
    Unset = Unset
    DriverReadsLpa = TRUE
    MaxErase = 3
    MaxPrograms = 1
    MaxReads = 1
    MaxStalled = 0
SPECIFICATION Spec
INVARIANT AssertionsHold
PROPERTIES CollectionsPayBack LeastWornFirst
\* The process may end, and a plane of full blocks takes no more calls.
CHECK_DEADLOCK FALSE
