\* Two writes, two pushes: the first one ends the update's wait.
SPECIFICATION Spec
CONSTANTS
    Callers = {g1, g2}
    Getters = {FALSE}
    InitialRows = {1}
    MaxRows = 2
    MaxVersion = 2
    MaxPushes = 2
    MaxReconnects = 1
SYMMETRY Interchangeable
INVARIANTS
    UpdateReadsBackItsWrite
CHECK_DEADLOCK FALSE
