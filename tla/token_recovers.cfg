SPECIFICATION FairSpec
CONSTANTS
    r1 = r1
    r2 = r2
    c1 = c1
    c2 = c2
    c3 = c3
    NoCall = NoCall
    Request = {r1, r2}
    Call = {c1, c2}
    NewLife = {"advisory"}
    MaxEpoch = 1
    MaxRetries = 1
    Faults = FALSE
PROPERTY Recovers
CHECK_DEADLOCK FALSE
