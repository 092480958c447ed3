SPECIFICATION Spec
CONSTANTS
    a = a
    b = b
    Call = {a, b}
    NoCall = NoCall
    Permission <- SplitClient
    Owned = {b}
    Elsewhere = {a}
    UserVerdicts = {"allow", "other"}
    IdleEnabled = TRUE
    MayTerminate = TRUE
    ListMayFail = TRUE
    MaxIdle = 1
    MaxGiveUps = 0
    MaxSkip = 1
    MaxQueue = 0
INVARIANT SeenMeansDispatched SurfacedIsYielded
CHECK_DEADLOCK FALSE
