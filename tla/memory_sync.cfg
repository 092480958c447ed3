SPECIFICATION FairSpec
CONSTANTS
    m1 = m1
    m2 = m2
    t1 = t1
    t2 = t2
    N = 2
    Mine = {m1, m2}
    Theirs = {t1}
    Refusable = {m2}
    Absent = Absent
    NoRequest = NoRequest
    Attachments <- Kinds
    DeleteCap = 1
    LostDeletes = FALSE
    MaxEdits = 2
    MaxFaults = 1
INVARIANT TypeOK FlushSaves
PROPERTY NoForeignLoss NoSelfLoss WipeSparesServer AttachmentHonoured Converges
CHECK_DEADLOCK FALSE
