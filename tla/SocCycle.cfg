CONSTANTS
    \* slider levels in percent, of ranges that cannot meet: never clamped
    Backups = {10, 20}
    Surpluses = {60}
    MaxRequests = 3
    MaxOthers = 1
    Absent = Absent
SPECIFICATION Spec

    
PROPERTIES
    FrozenByShutdown
CHECK_DEADLOCK FALSE
