\* Two overlapping refreshes on an iPhone, elsewhere, and without storage manager.
SPECIFICATION FairSpec
CONSTANTS
    r1 = r1
    r2 = r2
    Slots = {r1, r2}
    Platforms = {"ios", "other", "bare"}
    LocalStorage = TRUE
    PersistedFails = FALSE
INVARIANTS
    TroubleIsShown
    AutomaticRequestOnce
PROPERTY
    ProtectionIsShown
