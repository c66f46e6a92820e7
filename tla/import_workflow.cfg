\* Two overlapping backups, five values of the preview request counter.
SPECIFICATION Spec
\* The bound on requests and the operator may end a behaviour.
CHECK_DEADLOCK FALSE
CONSTANTS
    s1 = s1
    s2 = s2
    Saves = {s1, s2}
    MaxRequests = 5
SYMMETRY SaveSymmetry
INVARIANTS
    TypeOK
    SavingHasSave
PROPERTIES
    ReplaceExecutesWhatWasArmed
    RiskIsAcknowledgedForThisCommit
    LatestSelectionWins
