\* Fair scheduling: nothing stays pending.
SPECIFICATION FairSpec
CONSTANTS
    t1 = t1
    t2 = t2
    id1 = id1
    id2 = id2
    body = body
    work = work
    nominal = nominal
    degraded = degraded
    Keys = {body}
    Statuses = {degraded}
    Unmarked = unmarked
    Tabs = {t1, t2}
    TabIds = {id1, id2}
    TabIdOf <- OwnIds
    Payloads <- EmptyFile
    MaxStamp = 3
    Lossy = FALSE
    CommitHeardFirst = TRUE
INVARIANT
    VerifiedCheckInReachesUndo
PROPERTIES
    StaleUndoIsWithdrawn
    CheckInsEnd
