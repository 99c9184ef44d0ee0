\* Two goroutines, three sessions, every configuration, faults during login too.
SPECIFICATION Spec
CONSTANTS
    Callers = {g1, g2}
    NoCaller = none
    MaxRetries = 1
    Configs <- AllConfigs
    LoginFaults = TRUE
    MaxSessions = 3
SYMMETRY Interchangeable
INVARIANTS
    TypeOK
    CallsRideALiveSession
    OneConnection
    TokenOutlivesSession
PROPERTIES
    ReloadGetsNewSession
    ImplementsSharedSession
\* A goroutine blocked on its own mutex, or New failing, stops the system.
CHECK_DEADLOCK FALSE
