CONSTANTS
    Rows = {r1, r2, r3, r4, r5}
    Subjects <- AllSubjects
    MaxFaults = 1
    MaxChanges = 3
SPECIFICATION FairSpec
INVARIANTS TypeOK SuccessIsApplied  InconsistentOnlyFor
PROPERTIES KeyIsKept ApplyConverges
CHECK_DEADLOCK FALSE
