\* Tabs that share an id, announcements that may be lost or come early.
SPECIFICATION Spec
CONSTANTS
    t1 = t1
    t2 = t2
    id1 = id1
    id2 = id2
    body = body
    work = work
    nominal = nominal
    degraded = degraded
    Keys = {body, work}
    Statuses = {degraded}
    Unmarked = unmarked
    Tabs = {t1, t2}
    TabIds = {id1, id2}
    TabIdOf <- SharedId
    Payloads <- MCPayloads
    MaxStamp = 3
    Lossy = TRUE
    CommitHeardFirst = FALSE
INVARIANTS
    TypeOK
    OwnCheckInDisablesUndo
    OfferedUndoIsHonoured
PROPERTY
    StoreFollowsLedger
