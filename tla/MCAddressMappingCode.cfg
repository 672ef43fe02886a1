\* The first write of a page, once an entry can be loaded; the code's credits and driver.
CONSTANTS
    NumStreams = 1
    NumBlocks = 6
    PagesPerBlock = 2
    GcThreshold = 2
    MaxOngoingGc = 1
    GcPolicy = "FIFO"
    DynamicWl = TRUE
    CreditReclaimed = FALSE
    channel_no = 2
    chips_per_channel = 1
    dies_per_chip = 1
    planes_per_die = 1
    blocks_per_plane = 6
    pages_per_block = 2
    LpnSpan = 4
    InsertsReserved = TRUE
    Lpas = {1, 3}
    Bitmaps = {{0}, {0, 1}}
    NoValue = NoValue
    Unset = Unset
    DriverReadsLpa = FALSE
    MaxErase = 1
    MaxPrograms = 1
    MaxReads = 1
    MaxStalled = 0
SPECIFICATION Spec
INVARIANT FirstWritesServed
CHECK_DEADLOCK FALSE
