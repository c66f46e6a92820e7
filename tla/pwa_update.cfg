\* Two tabs, two builds, any two clicks, in any order.
SPECIFICATION Spec
CONSTANTS
    t1 = t1
    t2 = t2
    Tabs = {t1, t2}
    MaxVersion = 2
    MaxInbox = 2
    MaxReloads = 2
    SessionStorage = TRUE
    MaxClicks = 2
SYMMETRY TabSymmetry
INVARIANTS
    TypeOK
    OneOwner
    HandoffHasDeadman
    AutomaticReloadsAreBounded
PROPERTY
    OneReloadPerPage
\* Builds and clicks are bounded, and the operator may stop.
CHECK_DEADLOCK FALSE
