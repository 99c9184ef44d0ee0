\* A reconnect whose own context ends while the server considers the token.
SPECIFICATION Spec
CONSTANTS
    Callers = {g1, g2}
    NoCaller = none
    MaxRetries = 0
    Configs <- UserConfigs
    LoginFaults = FALSE
    MaxSessions = 2
SYMMETRY Interchangeable
PROPERTIES
    TokenDroppedOnlyWhenRefused
CHECK_DEADLOCK FALSE
