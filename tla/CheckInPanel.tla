------------------------------ MODULE CheckInPanel ------------------------------
(***************************************************************************)
(* The check-in panel of one tab: the cards of today, the writes they      *)
(* start, the live query they show and the calendar day of the page        *)
(* (TodayPanel.tsx, DomainCard.tsx, db/hooks.ts, and App.tsx's calendar).  *)
(*                                                                         *)
(* The panel has one busy marker for all cards, takes the date of a write  *)
(* from the clock and not from the day it shows, and learns the rows of    *)
(* the day from a live query that reports some time after a commit.  What  *)
(* setDailyStatus does is detailed in UndoImport; here a write commits,    *)
(* then its read-back succeeds or fails.                                   *)
(***************************************************************************)
EXTENDS Naturals

CONSTANTS
    Sectors,     \* the cards
    Statuses,    \* stored statuses
    Unmarked,    \* no row
    Slots,       \* setDailyStatus calls that may be in progress at once
    MaxDay       \* bound on the days that pass

ASSUME UnmarkedAssumption == Unmarked \notin Statuses
ASSUME DayAssumption == MaxDay \in Nat \ {0}

VARIABLES
    now,         \* the day by the clock
    today,       \* todayKey of App
    table,       \* table[d][s]: status of the row of day d and sector s
    live,        \* last result of useEntriesForDate, with the day it is for
    write,       \* write[w]: the call of handleSelectStatus in slot w
    busy,        \* busySectorId, with the optimistic status of that card
    error,       \* errorMessage is set
    reinforced,  \* persistRequestedRef
    lastSaved    \* history: the latest day a verified write was for

vars == <<now, today, table, live, write, busy, error, reinforced, lastSaved>>

-------------------------------------------------------------------------------
Days == 1..MaxDay
UiStatuses == Statuses \cup {Unmarked}
Rows == [Sectors -> UiStatuses]

\* late: the page still showed an earlier day when the card was pressed.
\* "overwritten": committed, and someone else wrote the row since.
Write == [sector : Sectors, status : UiStatuses, day : Days, late : BOOLEAN,
          phase : {"queued", "committed", "overwritten"}]
Idle == [phase |-> "idle"]

NotBusy == [on |-> FALSE]
Busy == [on : {TRUE}, sector : Sectors, status : UiStatuses]
BusyWith(s) == busy.on /\ busy.sector = s

TypeOK ==
    /\ now \in Days /\ today \in Days
    /\ table \in [Days -> Rows]
    /\ live \in [day : Days, rows : Rows]
    /\ write \in [Slots -> {Idle} \cup Write]
    /\ busy \in {NotBusy} \cup Busy
    /\ error \in BOOLEAN /\ reinforced \in BOOLEAN
    /\ lastSaved \in 0..MaxDay

\* The status a card shows: rows of another day do not count.
Shown(s) ==
    IF BusyWith(s) THEN busy.status
    ELSE IF live.day = today THEN live.rows[s] ELSE Unmarked

Init ==
    /\ now = 1 /\ today = 1
    /\ table \in [Days -> Rows]
    /\ \A d \in Days \ {1}, s \in Sectors : table[d][s] = Unmarked
    /\ live = [day |-> 1, rows |-> [s \in Sectors |-> Unmarked]]
    /\ write = [w \in Slots |-> Idle]
    /\ busy = NotBusy /\ error = FALSE /\ reinforced = FALSE /\ lastSaved = 0

-------------------------------------------------------------------------------
\* A click or an arrow key on a card that is not busy.
Select(w, s, st) ==
    /\ write[w] = Idle
    /\ ~BusyWith(s)
    /\ error' = FALSE
    /\ busy' = [on |-> TRUE, sector |-> s, status |-> st]
    /\ write' = [write EXCEPT ![w] =
           [sector |-> s, status |-> st, day |-> now, late |-> now # today,
            phase |-> "queued"]]
    /\ UNCHANGED <<now, today, table, live, reinforced, lastSaved>>

\* Writes of the same row that have committed and not been read back yet.
Overwritten(d, s) ==
    [w \in Slots |->
        IF write[w].phase = "committed" /\ write[w].day = d /\ write[w].sector = s
        THEN [write[w] EXCEPT !.phase = "overwritten"] ELSE write[w]]

Commit(w) ==
    /\ write[w].phase = "queued"
    /\ LET d == write[w].day
           s == write[w].sector IN
       /\ table' = [table EXCEPT ![d][s] = write[w].status]
       /\ write' = [Overwritten(d, s) EXCEPT ![w].phase = "committed"]
    /\ UNCHANGED <<now, today, live, busy, error, reinforced, lastSaved>>

\* Another tab's check-in, or an import of either tab.
PeerWrites ==
    \E d \in Days, s \in Sectors, st \in UiStatuses :
        /\ table' = [table EXCEPT ![d][s] = st]
        /\ write' = Overwritten(d, s)
        /\ UNCHANGED <<now, today, live, busy, error, reinforced, lastSaved>>

\* Mutant: the marker is taken back on the path of success only.
FinishCommitted(w) ==
    /\ write' = [write EXCEPT ![w] = Idle]
    /\ busy' = IF write[w].phase = "queued" THEN busy ELSE NotBusy

\* The finally block.
Finish(w) == write' = [write EXCEPT ![w] = Idle] /\ busy' = NotBusy

\* The row is the one written; a missing row is no other missing row's rival.
ReadsBack(w) ==
    \/ write[w].phase = "committed"
    \/ /\ write[w].phase = "overwritten" /\ write[w].status = Unmarked
       /\ table[write[w].day][write[w].sector] = Unmarked

\* Mutant: a saved check-in leaves the day to the next refresh.
VerifiedWithoutRollover(w) ==
    /\ ReadsBack(w)
    /\ reinforced' = TRUE
    /\ lastSaved' = IF write[w].day > lastSaved THEN write[w].day ELSE lastSaved
    /\ Finish(w)
    /\ UNCHANGED <<now, today, table, live, error>>

\* Mutant: the success of one write takes back the report of another.
VerifiedForgives(w) ==
    /\ ReadsBack(w)
    /\ error' = FALSE
    /\ today' = IF write[w].late THEN now ELSE today
    /\ reinforced' = TRUE
    /\ lastSaved' = IF write[w].day > lastSaved THEN write[w].day ELSE lastSaved
    /\ Finish(w)
    /\ UNCHANGED <<now, table, live>>

\* onDateRollover, and onMeaningfulSave the first time.
Verified(w) ==
    /\ ReadsBack(w)
    /\ today' = IF write[w].late THEN now ELSE today
    /\ reinforced' = TRUE
    /\ lastSaved' = IF write[w].day > lastSaved THEN write[w].day ELSE lastSaved
    /\ Finish(w)
    /\ UNCHANGED <<now, table, live, error>>

\* The transaction failed, or the read-back found another row, stalled or lost
\* its connection.
Fails(w) ==
    /\ write[w] # Idle
    /\ error' = TRUE
    /\ Finish(w)
    /\ UNCHANGED <<now, today, table, live, reinforced, lastSaved>>

-------------------------------------------------------------------------------
DayPasses ==
    /\ now < MaxDay /\ now' = now + 1
    /\ UNCHANGED <<today, table, live, write, busy, error, reinforced, lastSaved>>

\* Focus, visibility, or the interval of a minute.
RefreshCalendarWindow ==
    /\ today' = now
    /\ UNCHANGED <<now, table, live, write, busy, error, reinforced, lastSaved>>

\* Mutant: the query keeps the day it was first made for.
LiveQueryDeliversFirstDay ==
    /\ live' = [day |-> 1, rows |-> table[1]]
    /\ UNCHANGED <<now, today, table, write, busy, error, reinforced, lastSaved>>

LiveQueryDelivers ==
    /\ live' = [day |-> today, rows |-> table[today]]
    /\ UNCHANGED <<now, today, table, write, busy, error, reinforced, lastSaved>>

Next ==
    \/ \E w \in Slots : \/ \E s \in Sectors, st \in UiStatuses : Select(w, s, st)
                        \/ Commit(w) \/ Verified(w) \/ Fails(w)
    \/ PeerWrites \/ DayPasses \/ RefreshCalendarWindow \/ LiveQueryDelivers

Spec == Init /\ [][Next]_vars

\* The live query reports every change; the interval of a minute goes on; a
\* write commits or fails, and its read-back has a timeout.
Fairness ==
    /\ WF_vars(LiveQueryDelivers) /\ WF_vars(RefreshCalendarWindow)
    /\ \A w \in Slots : WF_vars(Commit(w) \/ Verified(w) \/ Fails(w))
FairSpec == Spec /\ Fairness

-------------------------------------------------------------------------------
(* Properties.                                                               *)

(***************************************************************************)
(* Although one marker serves all cards and the first write to end takes   *)
(* it back, a card is never left busy, deaf to the operator and showing    *)
(* an optimistic status, when no write of it is in progress.               *)
(***************************************************************************)
BusyCardHasWrite ==
    busy.on => \E w \in Slots : /\ write[w] # Idle /\ write[w].sector = busy.sector
                                /\ write[w].status = busy.status

(***************************************************************************)
(* A check-in announced as saved is for a day the panel shows or has       *)
(* shown: a write that went to the day after the rendered one, around      *)
(* midnight, moves the panel to its day.                                   *)
(***************************************************************************)
SavedDayIsShown == lastSaved <= today

(***************************************************************************)
(* The report of a failed write stays until the operator presses a card    *)
(* again: neither the success of an overlapping write nor a change of the  *)
(* day takes it back.                                                      *)
(***************************************************************************)
FailureStaysShown ==
    [][error /\ ~error' => \E w \in Slots : write[w] = Idle /\ write'[w] # Idle]_vars

(***************************************************************************)
(* Whatever optimism, failures, overlaps and midnights came before, the    *)
(* cards in the end show the table: if the rows of today settle, so do     *)
(* the cards, to the same statuses, unless the operator goes on pressing.  *)
(***************************************************************************)
CardsSettle ==
    \A s \in Sectors, st \in UiStatuses :
        <>[](table[now][s] = st /\ \A w \in Slots : write[w] = Idle)
            => <>[](today = now /\ Shown(s) = st)
===============================================================================
