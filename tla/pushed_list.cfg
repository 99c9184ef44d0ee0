\* Two goroutines create, update, delete and read rows of a list without a getter.
SPECIFICATION Spec
CONSTANTS
    Callers = {g1, g2}
    Getters = {FALSE}
    InitialRows = {0}
    MaxRows = 2
    MaxVersion = 2
    MaxPushes = 2
    MaxReconnects = 1
SYMMETRY Interchangeable
INVARIANTS
    TypeOK
    NoLostWakeup
    
CHECK_DEADLOCK FALSE
