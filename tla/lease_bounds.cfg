SPECIFICATION Spec
CONSTANTS
    v1 = v1
    v2 = v2
    Worker = {v1, v2}
    NoWorker = NoWorker
    Ttl = 3
    DefaultTtl = 3
    DefaultInterval = 1
    Faults = TRUE
    MayReject = TRUE
    MayAbort = TRUE
SYMMETRY Interchangeable
INVARIANT TypeOK StaleWorkerStops LostIsLeftAlone
CHECK_DEADLOCK FALSE
