SPECIFICATION FairSpec
CONSTANTS
    a = a
    b = b
    Call = {a, b}
    NoCall = NoCall
    Permission <- GatedAndPlain
    Owned = {a, b}
    Elsewhere = {}
    UserVerdicts = {"allow", "deny"}
    IdleEnabled = TRUE
    MayTerminate = FALSE
    ListMayFail = FALSE
    MaxIdle = 1
    MaxGiveUps = 1
    MaxSkip = 0
    MaxQueue = 0
PROPERTY AbortedRunEnds QuietRunStops EveryCallIsAnswered
CHECK_DEADLOCK FALSE
