SPECIFICATION FairSpec
CONSTANTS
    v1 = v1
    v2 = v2
    Worker = {v1}
    NoWorker = NoWorker
    Ttl = 2
    DefaultTtl = 2
    DefaultInterval = 1
    Faults = TRUE
    MayReject = FALSE
    MayAbort = TRUE
PROPERTY StopIsHeard HandlerEnds
CHECK_DEADLOCK FALSE
