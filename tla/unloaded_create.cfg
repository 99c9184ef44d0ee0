\* A create that finds the list unloaded.
SPECIFICATION Spec
CONSTANTS
    Callers = {g1, g2}
    Getters = {TRUE}
    InitialRows = {0}
    MaxRows = 2
    MaxVersion = 2
    MaxPushes = 2
    MaxReconnects = 1
SYMMETRY Interchangeable
INVARIANTS
    UnloadedCreateIsReadBack
CHECK_DEADLOCK FALSE
