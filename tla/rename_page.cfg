CONSTANTS
    Rows = {r1, r2, r3, r4, r5}
    Subjects <- PageSlug
    MaxFaults = 1
    MaxChanges = 3
SPECIFICATION Spec
INVARIANT RenameWorks
CHECK_DEADLOCK FALSE
