\* Two tabs under fairness: guidance ends and the update is offered.
SPECIFICATION FairSpec
CONSTANTS
    t1 = t1
    t2 = t2
    Tabs = {t1, t2}
    MaxVersion = 1
    MaxInbox = 1
    MaxReloads = 2
    SessionStorage = TRUE
    MaxClicks = 2
PROPERTIES
    HandoffGuidanceEnds
    WaitingWorkerIsOffered
\* Builds and clicks are bounded, and the operator may stop.
CHECK_DEADLOCK FALSE
