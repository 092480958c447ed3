SPECIFICATION Spec
CONSTANTS
    a = a
    b = b
    Call = {a, b}
    NoCall = NoCall
    Permission <- GatedAndPlain
    Owned = {a, b}
    Elsewhere = {}
    UserVerdicts = {"allow", "deny"}
    IdleEnabled = TRUE
    MayTerminate = FALSE
    ListMayFail = TRUE
    MaxIdle = 1
    MaxGiveUps = 1
    MaxSkip = 0
    MaxQueue = 0
INVARIANT TypeOK GateRespected IdleNeverCutsWork BlockersAccounted
PROPERTY KeepsPromise
CHECK_DEADLOCK FALSE
