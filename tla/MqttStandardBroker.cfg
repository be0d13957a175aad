CONSTANTS
    AppAuth = FALSE
    Workers = {w1, w2}
    MaxAttempts = 2
    MaxNetDrops = 0
    MaxRotations = 1
    BrokerMoves = TRUE
    MayShutDown = FALSE
SPECIFICATION FairSpec
PROPERTIES
    LostSessionReturns
CHECK_DEADLOCK FALSE
