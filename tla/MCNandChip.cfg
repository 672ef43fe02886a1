\* Two callers, three commands of seven kinds, one block of two pages.
CONSTANTS
    Erased = Erased
    Absent = Absent
    b1 = b1
    p1 = p1
    p2 = p2
    x = x
    c1 = c1
    c2 = c2
    Blocks <- MCBlocks
    Pages <- MCPages
    Contents <- MCContents
    Clients <- MCClients
    Requests <- MCRequests
    MaxCommands = 3
SPECIFICATION Spec
INVARIANTS TypeOK NoLostWakeup PendingInOrder ExitIsClean
PROPERTIES ImplementsNandStore EveryFutureResolves DestructorReturns
CHECK_DEADLOCK FALSE
