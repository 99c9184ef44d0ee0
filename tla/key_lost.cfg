CONSTANTS
    Rows = {r1, r2, r3, r4, r5}
    Subjects <- APIKeyKey
    MaxFaults = 1
    MaxChanges = 3
SPECIFICATION Spec
PROPERTY ClearTextStored
CHECK_DEADLOCK FALSE
