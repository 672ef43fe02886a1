\* Three pages in a cache of none, one or two, two contents, two write-backs in flight.
CONSTANTS
    Pages = {k1, k2, k3}
    Contents = {x, y}
    Initial = x
    Capacities = {0, 1, 2}
    MaxFlushing = 2
SPECIFICATION Spec
INVARIANTS TypeOK LruMatchesSlots NewestVisible FlushedIsSafe
PROPERTY LeastRecentlyUsed
\* The crash that RemoveSlot risks ends the process.
CHECK_DEADLOCK FALSE
