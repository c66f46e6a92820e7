\* Two rows and a malformed one, the crashed page and one other tab.
SPECIFICATION FairSpec
CONSTANTS
    older = older
    newer = newer
    broken = broken
    peer = peer
    Rows = {older, newer, broken}
    Malformed = {broken}
    Peers = {peer}
INVARIANTS
    NoWaitInACircle
PROPERTIES
    ResetNeedsBackupOrConsent
    RetriedPageWritesSurvive
    ControlsComeBack
