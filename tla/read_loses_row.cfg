\* The list is emptied between EnsureLoaded and the lookup.
SPECIFICATION Spec
CONSTANTS
    Callers = {g1, g2}
    Getters = {FALSE}
    InitialRows = {1}
    MaxRows = 2
    MaxVersion = 2
    MaxPushes = 2
    MaxReconnects = 1
SYMMETRY Interchangeable
PROPERTIES
    ReadNeverLosesARow
CHECK_DEADLOCK FALSE
