\* A login that goes unanswered: the goroutine locks mu a second time.
SPECIFICATION FairSpec
CONSTANTS
    Callers = {g1, g2}
    NoCaller = none
    MaxRetries = 0
    Configs <- UserConfigs
    LoginFaults = TRUE
    MaxSessions = 2
PROPERTIES
    EveryOperationEnds
CHECK_DEADLOCK FALSE
