CONSTANTS
    Backups = {10, 20}
    Surpluses = {60}
    MaxRequests = 2
    MaxOthers = 1
    Absent = Absent
SPECIFICATION FairSlidersSpec
PROPERTIES
    CycleResolves
    RollbackReaches
CHECK_DEADLOCK FALSE
