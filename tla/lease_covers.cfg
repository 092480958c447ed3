SPECIFICATION Spec
CONSTANTS
    v1 = v1
    v2 = v2
    Worker = {v1, v2}
    NoWorker = NoWorker
    Ttl = 4
    DefaultTtl = 15
    DefaultInterval = 5
    Faults = FALSE
    MayReject = FALSE
    MayAbort = FALSE
INVARIANT LeaseCoversRun
CHECK_DEADLOCK FALSE
