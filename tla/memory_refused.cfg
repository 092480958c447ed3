SPECIFICATION Spec
CONSTANTS
    m1 = m1
    m2 = m2
    t1 = t1
    t2 = t2
    N = 2
    Mine = {m1, m2}
    Theirs = {t1}
    Refusable = {m2}
    Absent = Absent
    NoRequest = NoRequest
    Attachments <- Writable
    DeleteCap = 1
    LostDeletes = FALSE
    MaxEdits = 2
    MaxFaults = 0
INVARIANT RefusedWasRefused
CHECK_DEADLOCK FALSE
