\* Two cards, two overlapping writes, one midnight and another tab.
SPECIFICATION FairSpec
CONSTANTS
    body = body
    work = work
    nominal = nominal
    none = none
    w1 = w1
    w2 = w2
    Sectors = {body, work}
    Statuses = {nominal}
    Unmarked = none
    Slots = {w1, w2}
    MaxDay = 2
INVARIANTS
    BusyCardHasWrite
    SavedDayIsShown
PROPERTIES
    FailureStaysShown
    CardsSettle
