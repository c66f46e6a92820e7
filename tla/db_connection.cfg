\* Two overlapping operations under fairness, sessionStorage available.
SPECIFICATION FairSpec
CONSTANTS
    c1 = c1
    c2 = c2
    Calls = {c1, c2}
    MaxAttempts = 2
    GuardWindow = 2
    RetryBuffer = 1
    SessionStorage = TRUE
INVARIANTS
    TypeOK
    NoReloadOfHealthyPage
    HeldBackTabHasRetry
PROPERTIES
    SchemaReloadsAreSpaced
    OnlyLeavingPageIsHeldBack
    CallsEnd
    HeldBackTabRecovers
