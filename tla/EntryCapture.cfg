SPECIFICATION AccountSpec
CONSTANTS
    x1 = x1  x2 = x2  v1 = v1  v2 = v2  ch1 = ch1  ch2 = ch2
    Coordinators = {x1, x2}  Probes = {x1, x2, v1, v2}  Skipped = 2
    SlowSetup = TRUE  StopInSetup = FALSE
    Chargers = {ch1, ch2}  Vehicles = {v1, v2}  OrdersOf <- TwoAndNone
    None = None  Damaged = Damaged  Budget = 1  BackOff = 2  Jump = 1
    ocean = ocean  micro = micro  glow = glow  secret = secret
    Entries = {x1, x2}  Dialogs = {v1, v2}  Opens = 0  Hasty = FALSE
    Serials = {ocean, micro, glow}  Oceans = {ocean}  StandardOnly = {micro}  EnhancedOnly = {glow}
    Lists <- AllOrNothing  Secrets = {secret}  Hosts = {ch1, ch2}
INVARIANT CaptureHasAnEnd
CHECK_DEADLOCK FALSE
