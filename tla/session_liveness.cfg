\* Two goroutines, two sessions; the server answers every login emit.
SPECIFICATION FairSpec
CONSTANTS
    Callers = {g1, g2}
    NoCaller = none
    MaxRetries = 1
    Configs <- UserConfigs
    LoginFaults = FALSE
    MaxSessions = 2
PROPERTIES
    EveryOperationEnds
\* New may fail, after which nobody ever sees the client.
CHECK_DEADLOCK FALSE
