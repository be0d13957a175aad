SPECIFICATION CloudSpec
CONSTANTS
    AppAuth = TRUE
    Workers = {w1, w2}
    MaxAttempts = 2  MaxNetDrops = 1  MaxRotations = 1
    BrokerMoves = TRUE  MayShutDown = TRUE
    Hosts = 2  MaxRenewals = 1  MaxTroubles = 2
    OneVoice = TRUE  Reachable = TRUE  KeysServed = TRUE
INVARIANTS NoOrphan 
PROPERTIES ComesBack CertificateArrives
CHECK_DEADLOCK FALSE
