SPECIFICATION ValuesSpec
CONSTANTS
    FromApi = TRUE
    Readings <- DeviceTotals
    Powers <- DevicePowers
    MaxTotal = 120  MaxPower = 50  Floor = 5  EarlyFrames = TRUE
    MaxFrames = 3  MaxCrashes = 1  MaxStops = 1  MaxFailures = 1
    Full = 2  Hold = 1  Confirm = 5
    u1 = u1  u2 = u2
    Units = {u1, u2}  Streams = {}
    BatteryPowers <- UnitPowers
    HoldFor = 2  Lag = 1  WholeLists = TRUE  MaxPushes = 2
    Tasks = {1, 2}  Packs = {1, 2}  PackSlots = 1  Inverters = {1, 2}  InverterSlots = 2
    FirstReadable = TRUE  Prompt = TRUE  MaxSent = 3  MaxStarts = 1
    FlagsTogether = TRUE  TimesWithState = TRUE  MaxChanges = 3
INVARIANTS
    CoversRestored ChargeHonest SignRight FramesReadRight ReadingsRight
PROPERTIES
    ReadingsConfirmed ChangeConfirmed 
SYMMETRY Symmetry
CHECK_DEADLOCK FALSE
