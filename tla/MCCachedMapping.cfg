\* Three streams with a page each in a table of two slots; reserved slots can be filled.
CONSTANTS
    Streams = {0, 1, 2}
    LpnSpan = 4
    Lpas = {3}
    Mappings = {x, y}
    Initial = x
    Unset = Unset
    Capacity = 2
    InsertsReserved = TRUE
    MaxWriting = 2
SPECIFICATION Spec
INVARIANTS TypeOK ListMatchesMap WaitingIsReading CleanIsStored
PROPERTIES OnlyWritesRemap
