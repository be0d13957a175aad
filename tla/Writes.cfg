SPECIFICATION DeviceSpec
CONSTANTS
    w1 = w1  w2 = w2  l1 = l1  l2 = l2  off = off  on = on
    Writes = {w1, w2}  NoWrite = NoWrite
    Levels = {l1, l2}  Switch = {off, on}  Unset = Unset
    Overlap = {"retry"}
    MaxReports = 2  MaxFrames = 2  Hurried = FALSE
    MaxSlot = 3  MaxTaskFrames = 1
    Top = 1  SettledFirst = TRUE  RestartSettles = FALSE
INVARIANT RefusedNotShown SetpointLands
PROPERTY Ocean2Honest  TasksKept NothingElseMoves
SYMMETRY Symmetry
CHECK_DEADLOCK FALSE
