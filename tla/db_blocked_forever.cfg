\* A blocked upgrade whose pending open fails.
SPECIFICATION Spec
CONSTANTS
    c1 = c1
    c2 = c2
    Calls = {c1, c2}
    MaxAttempts = 3
    GuardWindow = 2
    RetryBuffer = 1
    SessionStorage = TRUE
INVARIANTS
    BlockedTabHasWayOut
