SPECIFICATION ReadsSpec
SYMMETRY Symmetry
CONSTANTS
    x1 = x1  x2 = x2  y1 = y1  y2 = y2  y3 = y3  s1 = s1  s2 = s2
    Percents = {p1, p2, p3}  Unknown = Unknown
    MaxWrites = 2  MaxWay = 2  EchoPrompt = TRUE
    Stale = 3  Hard = 6  Check = 2  Window = 7  Failing = 3  Refusals = 5
    Telemetry = {x1, x2}  Writes = {y1, y2, y3}  KeysMax = 1  WriteReserve = 1
    SamplesMax = 2  Periodic = 2  MaxClock = 3  MaxFrames = 5
    Calls = {x1, x2}  Free = Free
    Interval = 3  Lapse = 8  Margin = 1  Latency = 1  MaxHold = 2  MaxCalls = 4
    Top = 2  Settings = {s1, s2}  None = None  Failures = 2
    Unreported = Unreported  FirstNew = TRUE  LimitsStay = TRUE
INVARIANT SyncGivesUp AvailabilityHonest RecordingWhole SwitchHonest NoticesJustified 
PROPERTY  MeterNeverFalls
CHECK_DEADLOCK FALSE
