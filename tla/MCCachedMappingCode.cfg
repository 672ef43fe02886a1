\* The code as it is: can a reserved slot be filled?
CONSTANTS
    Streams = {0, 1, 2}
    LpnSpan = 4
    Lpas = {3}
    Mappings = {x, y}
    Initial = x
    Unset = Unset
    Capacity = 2
    InsertsReserved = FALSE
    MaxWriting = 2
SPECIFICATION Spec
INVARIANT NeverRefused
\* The error ends the process.
CHECK_DEADLOCK FALSE
