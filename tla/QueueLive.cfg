CONSTANTS
    Calls = {c1, c2}
    Bits = {b1}
    Action = charge
    NoCall = none
    MaxReports = 1
    MaxWrites = 1
    MayCancel = TRUE
    MayLose = TRUE
    Prompt = FALSE
SPECIFICATION FairSpec
PROPERTIES
    CallsEnd
CHECK_DEADLOCK FALSE
