CONSTANTS
    FromApi = TRUE
    \* 40 and 100 are far apart, 40 and 43 within tolerance; 500 is implausible
    Readings = {40, 43, 100, 500}
    Powers = {2}
    MaxTotal = 120
    MaxPower = 50
    Floor = 5
    EarlyFrames = TRUE
    MaxFrames = 4
    MaxCrashes = 0
    MaxStops = 0
    MaxFailures = 0
SPECIFICATION Spec
PROPERTIES
    PlaceholderNeverShown
CHECK_DEADLOCK FALSE
