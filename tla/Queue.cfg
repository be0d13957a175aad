CONSTANTS
    Calls = {c1, c2}
    b1 = b1  b2 = b2
    Bits = {b1, b2}
    Action = charge
    NoCall = none
    MaxReports = 1
    MaxWrites = 2
    MayCancel = TRUE
    MayLose = TRUE
    Prompt = TRUE
    Levels = {l1, l2}
    Rods = {r1, r2}
    PromptFrames = TRUE
    LateWrites = FALSE
SPECIFICATION ConfirmedSpec
INVARIANTS
    PressHappened
    ConfirmedStands
PROPERTIES
    NewestSends
    OthersUntouched
SYMMETRY Symmetry
CHECK_DEADLOCK FALSE
