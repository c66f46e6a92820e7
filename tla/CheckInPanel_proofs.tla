-------------------------- MODULE CheckInPanel_proofs --------------------------
(***************************************************************************)
(* Theorems about CheckInPanel, for any number of cards, statuses,         *)
(* overlapping writes and days: the single busy marker, the day of a saved *)
(* check-in, what its read-back promises, the report of a failed one and   *)
(* the order of the calendars.                                             *)
(***************************************************************************)
EXTENDS CheckInPanel, TLAPS

(***************************************************************************)
(* A write in progress is for a day that has begun, and for one the panel  *)
(* has shown unless it was late; the panel is never ahead of the clock.    *)
(* Without the second fact a write that was not late could be announced    *)
(* while the panel shows an earlier day.                                   *)
(***************************************************************************)
DaysAreOrdered ==
    /\ today <= now
    /\ \A w \in Slots : write[w] # Idle =>
           write[w].day <= now /\ (~write[w].late => write[w].day <= today)

(***************************************************************************)
(* Marking writes as overwritten changes nothing but their phase, and the  *)
(* slots that are idle stay idle.                                          *)
(***************************************************************************)
LEMMA OverwrittenFacts ==
    ASSUME NEW d, NEW s, write \in [Slots -> {Idle} \cup Write]
    PROVE  /\ Overwritten(d, s) \in [Slots -> {Idle} \cup Write]
           /\ \A w \in Slots :
                  /\ Overwritten(d, s)[w] = Idle <=> write[w] = Idle
                  /\ Overwritten(d, s)[w] # Idle =>
                         /\ Overwritten(d, s)[w].sector = write[w].sector
                         /\ Overwritten(d, s)[w].status = write[w].status
                         /\ Overwritten(d, s)[w].day = write[w].day
                         /\ Overwritten(d, s)[w].late = write[w].late
BY DEF Overwritten, Write, Idle

(***************************************************************************)
(* A write is idle exactly when its phase says so.                         *)
(***************************************************************************)
LEMMA IdlePhase ==
    ASSUME NEW w \in Slots, TypeOK
    PROVE  /\ write[w] \in {Idle} \cup Write
           /\ write[w].phase # "idle" => write[w] \in Write
           /\ write[w] \in Write => write[w] # Idle
BY DEF TypeOK, Write, Idle

(***************************************************************************)
(* The commit of a write keeps what it is for.                             *)
(***************************************************************************)
LEMMA CommitFacts ==
    ASSUME NEW w \in Slots, TypeOK, Commit(w)
    PROVE  /\ table' \in [Days -> Rows]
           /\ write' \in [Slots -> {Idle} \cup Write]
           /\ \A z \in Slots :
                  /\ write'[z] = Idle <=> write[z] = Idle
                  /\ write[z] # Idle =>
                         /\ write'[z].sector = write[z].sector
                         /\ write'[z].status = write[z].status
                         /\ write'[z].day = write[z].day
                         /\ write'[z].late = write[z].late
<1> DEFINE d == write[w].day
           s == write[w].sector
<1>1. write[w] \in Write
  BY IdlePhase DEF Commit
<1>2. d \in Days /\ s \in Sectors /\ write[w].status \in UiStatuses
  BY <1>1 DEF Write
<1>3. table' \in [Days -> Rows]
  BY <1>2 DEF Commit, TypeOK, Rows
<1>4. write \in [Slots -> {Idle} \cup Write]
  BY DEF TypeOK
<1>5. write' = [Overwritten(d, s) EXCEPT ![w].phase = "committed"]
  BY DEF Commit
<1> HIDE DEF d, s
<1> DEFINE o == Overwritten(d, s)
<1>6. /\ o \in [Slots -> {Idle} \cup Write]
      /\ \A z \in Slots : /\ o[z] = Idle <=> write[z] = Idle
                          /\ o[z] # Idle => /\ o[z].sector = write[z].sector
                                            /\ o[z].status = write[z].status
                                            /\ o[z].day = write[z].day
                                            /\ o[z].late = write[z].late
  BY <1>4, OverwrittenFacts
<1> HIDE DEF o
<1>7. o[w] \in Write
  BY <1>1, <1>6, IdlePhase
<1>8. /\ [o[w] EXCEPT !.phase = "committed"] \in Write
      /\ [o[w] EXCEPT !.phase = "committed"] # Idle
      /\ [o[w] EXCEPT !.phase = "committed"].sector = o[w].sector
      /\ [o[w] EXCEPT !.phase = "committed"].status = o[w].status
      /\ [o[w] EXCEPT !.phase = "committed"].day = o[w].day
      /\ [o[w] EXCEPT !.phase = "committed"].late = o[w].late
  BY <1>7 DEF Write, Idle
<1>9. write' = [o EXCEPT ![w] = [o[w] EXCEPT !.phase = "committed"]]
  BY <1>5 DEF o
<1> QED
  BY <1>1, <1>3, <1>6, <1>8, <1>9, IdlePhase

(***************************************************************************)
(* A step that is no commit and no peer's write keeps the types.           *)
(***************************************************************************)
LEMMA TypeStep ==
    ASSUME TypeOK, [Next]_vars
    PROVE  TypeOK'
<1>1. ASSUME NEW w \in Slots, NEW s \in Sectors, NEW st \in UiStatuses,
             Select(w, s, st)
      PROVE  TypeOK'
  BY <1>1 DEF TypeOK, Select, Write, Busy
<1>2. ASSUME NEW w \in Slots, Commit(w) PROVE TypeOK'
  BY <1>2, CommitFacts DEF TypeOK, Commit
<1>3. ASSUME NEW w \in Slots, Verified(w) PROVE TypeOK'
  <2>1. write[w] \in Write
    BY <1>3, IdlePhase DEF Verified, ReadsBack
  <2> QED
    BY <1>3, <2>1, DayAssumption DEF TypeOK, Verified, Finish, Write, Days
<1>4. ASSUME NEW w \in Slots, Fails(w) PROVE TypeOK'
  BY <1>4 DEF TypeOK, Fails, Finish
<1>5. CASE PeerWrites
  <2>1. PICK d \in Days, s \in Sectors, st \in UiStatuses :
            /\ table' = [table EXCEPT ![d][s] = st]
            /\ write' = Overwritten(d, s)
    BY <1>5 DEF PeerWrites
  <2>2. table' \in [Days -> Rows]
    BY <2>1 DEF TypeOK, Rows
  <2>3. write' \in [Slots -> {Idle} \cup Write]
    BY <2>1, OverwrittenFacts DEF TypeOK
  <2> QED
    BY <1>5, <2>2, <2>3 DEF TypeOK, PeerWrites
<1>6. CASE DayPasses
  BY <1>6, DayAssumption DEF TypeOK, DayPasses, Days
<1>7. CASE RefreshCalendarWindow \/ LiveQueryDelivers
  BY <1>7 DEF TypeOK, RefreshCalendarWindow, LiveQueryDelivers
<1>8. CASE UNCHANGED vars
  BY <1>8 DEF TypeOK, vars
<1> QED
  BY <1>1, <1>2, <1>3, <1>4, <1>5, <1>6, <1>7, <1>8 DEF Next

(***************************************************************************)
(* Whatever is pressed, written and read back, in any order, the state has *)
(* its types; in particular only stored or absent statuses reach the table.*)
(***************************************************************************)
THEOREM TypeCorrect == Spec => []TypeOK
<1>1. Init => TypeOK
  <2> SUFFICES ASSUME Init PROVE TypeOK
    OBVIOUS
  <2>1. 1 \in Days /\ 0 \in 0..MaxDay
    BY DayAssumption DEF Days
  <2>2. live \in [day : Days, rows : Rows]
    BY <2>1 DEF Init, Rows, UiStatuses
  <2>3. write \in [Slots -> {Idle} \cup Write]
    BY DEF Init
  <2> QED
    BY <2>1, <2>2, <2>3 DEF Init, TypeOK
<1>2. TypeOK /\ [Next]_vars => TypeOK'
  BY TypeStep
<1> QED
  BY <1>1, <1>2, PTL DEF Spec

-------------------------------------------------------------------------------
(***************************************************************************)
(* A busy card has its write: every step keeps it.  The end of any write   *)
(* takes the marker back, so no other write has to be looked at.           *)
(***************************************************************************)
LEMMA BusyStep ==
    ASSUME TypeOK, BusyCardHasWrite, [Next]_vars
    PROVE  BusyCardHasWrite'
<1>1. ASSUME NEW w \in Slots, NEW s \in Sectors, NEW st \in UiStatuses,
             Select(w, s, st)
      PROVE  BusyCardHasWrite'
  <2>1. /\ write'[w].sector = s /\ write'[w].status = st
        /\ write'[w].phase = "queued"
    BY <1>1 DEF Select, TypeOK
  <2>2. write'[w] # Idle
    BY <2>1 DEF Idle
  <2> QED
    BY <1>1, <2>1, <2>2 DEF Select, BusyCardHasWrite
<1>2. ASSUME NEW w \in Slots, Commit(w) PROVE BusyCardHasWrite'
  BY <1>2, CommitFacts DEF Commit, BusyCardHasWrite
<1>3. ASSUME NEW w \in Slots, Finish(w) PROVE BusyCardHasWrite'
  BY <1>3 DEF Finish, NotBusy, BusyCardHasWrite
<1>4. CASE PeerWrites
  <2>1. PICK d \in Days, s \in Sectors : write' = Overwritten(d, s)
    BY <1>4 DEF PeerWrites
  <2> QED
    BY <1>4, <2>1, OverwrittenFacts DEF PeerWrites, BusyCardHasWrite, TypeOK
<1>5. CASE UNCHANGED <<busy, write>>
  BY <1>5 DEF BusyCardHasWrite
<1> QED
  BY <1>1, <1>2, <1>3, <1>4, <1>5
  DEF Next, Verified, Fails, DayPasses, RefreshCalendarWindow,
      LiveQueryDelivers, vars

(***************************************************************************)
(* No card stays busy without a write, for any number of overlapping       *)
(* writes that share the one marker.                                       *)
(***************************************************************************)
THEOREM BusyCardIsWritten == Spec => []BusyCardHasWrite
<1>1. Init => BusyCardHasWrite
  BY DEF Init, BusyCardHasWrite, NotBusy
<1>2. TypeOK /\ BusyCardHasWrite /\ [Next]_vars => BusyCardHasWrite'
  BY BusyStep
<1> QED
  BY <1>1, <1>2, TypeCorrect, PTL DEF Spec

-------------------------------------------------------------------------------
DayInv == TypeOK /\ DaysAreOrdered /\ SavedDayIsShown

(***************************************************************************)
(* The order of the days is kept by every step: the clock and the panel    *)
(* only move on, and a late write moves the panel with it.                 *)
(***************************************************************************)
LEMMA DayStep ==
    ASSUME DayInv, [Next]_vars
    PROVE  DaysAreOrdered' /\ SavedDayIsShown'
<1>0. /\ now \in Nat /\ today \in Nat /\ lastSaved \in Nat
      /\ today <= now /\ lastSaved <= today
      /\ \A w \in Slots : write[w] # Idle =>
             /\ write[w].day \in Nat /\ write[w].day <= now
             /\ ~write[w].late => write[w].day <= today
  BY DayAssumption
  DEF DayInv, TypeOK, DaysAreOrdered, SavedDayIsShown, Days, Write
<1>1. ASSUME NEW w \in Slots, NEW s \in Sectors, NEW st \in UiStatuses,
             Select(w, s, st)
      PROVE  DaysAreOrdered' /\ SavedDayIsShown'
  <2>1. \A z \in Slots : write'[z] = write[z]
                         \/ (write'[z].day = now /\ (~write'[z].late => now = today))
    BY <1>1 DEF Select, DayInv, TypeOK
  <2> QED
    BY <1>0, <1>1, <2>1 DEF Select, DaysAreOrdered, SavedDayIsShown
<1>2. ASSUME NEW w \in Slots, Commit(w)
      PROVE  DaysAreOrdered' /\ SavedDayIsShown'
  BY <1>0, <1>2, CommitFacts DEF Commit, DayInv, DaysAreOrdered, SavedDayIsShown
<1>3. ASSUME NEW w \in Slots, Finish(w)
      PROVE  \A z \in Slots : write'[z] = write[z] \/ write'[z] = Idle
  BY <1>3 DEF Finish, DayInv, TypeOK
<1>4. ASSUME NEW w \in Slots, Verified(w)
      PROVE  DaysAreOrdered' /\ SavedDayIsShown'
  <2>1. write[w] # Idle
    BY <1>4, IdlePhase DEF Verified, ReadsBack, DayInv
  <2>2. \A z \in Slots : write'[z] = write[z] \/ write'[z] = Idle
    BY <1>3, <1>4 DEF Verified
  <2>3. now' = now /\ today' \in {today, now} /\ today <= today'
    BY <1>0, <1>4 DEF Verified
  <2>4. DaysAreOrdered'
    BY <1>0, <2>2, <2>3 DEF DaysAreOrdered
  <2>5. lastSaved' \in {lastSaved, write[w].day} /\ write[w].day <= today'
    BY <1>0, <1>4, <2>1 DEF Verified
  <2> QED
    BY <1>0, <2>3, <2>4, <2>5 DEF SavedDayIsShown
<1>5. ASSUME NEW w \in Slots, Fails(w)
      PROVE  DaysAreOrdered' /\ SavedDayIsShown'
  BY <1>0, <1>3, <1>5 DEF Fails, DaysAreOrdered, SavedDayIsShown
<1>6. CASE PeerWrites
  <2>1. PICK d \in Days, s \in Sectors : write' = Overwritten(d, s)
    BY <1>6 DEF PeerWrites
  <2> QED
    BY <1>0, <1>6, <2>1, OverwrittenFacts
    DEF PeerWrites, DayInv, TypeOK, DaysAreOrdered, SavedDayIsShown
<1>7. CASE DayPasses \/ RefreshCalendarWindow
  BY <1>0, <1>7 DEF DayPasses, RefreshCalendarWindow, DaysAreOrdered, SavedDayIsShown
<1>8. CASE LiveQueryDelivers \/ UNCHANGED vars
  BY <1>0, <1>8 DEF LiveQueryDelivers, vars, DaysAreOrdered, SavedDayIsShown
<1> QED
  BY <1>1, <1>2, <1>4, <1>5, <1>6, <1>7, <1>8 DEF Next

(***************************************************************************)
(* A check-in announced as saved is for a day the panel has come to, over  *)
(* any number of midnights and overlapping writes.                         *)
(***************************************************************************)
THEOREM SavedDayIsVisible == Spec => []SavedDayIsShown
<1>1. Init => DaysAreOrdered /\ SavedDayIsShown
  BY DEF Init, DaysAreOrdered, SavedDayIsShown
<1>2. TypeOK /\ DaysAreOrdered /\ SavedDayIsShown /\ [Next]_vars
          => DaysAreOrdered' /\ SavedDayIsShown'
  BY DayStep DEF DayInv
<1> QED
  BY <1>1, <1>2, TypeCorrect, PTL DEF Spec

(***************************************************************************)
(* Only a new press of a card takes the report of a failed write back.     *)
(***************************************************************************)
THEOREM ReportOfFailureStays == Spec => FailureStaysShown
<1> DEFINE Pressed == \E w \in Slots : write[w] = Idle /\ write'[w] # Idle
<1>1. TypeOK /\ [Next]_vars => (error /\ ~error' => Pressed)
  <2> SUFFICES ASSUME TypeOK, [Next]_vars, error, ~error'
               PROVE  Pressed
    OBVIOUS
  <2>1. ASSUME NEW w \in Slots, NEW s \in Sectors, NEW st \in UiStatuses,
               Select(w, s, st)
        PROVE  Pressed
    <3>1. write'[w].phase = "queued"
      BY <2>1 DEF Select, TypeOK
    <3> QED
      BY <2>1, <3>1 DEF Select, Idle
  <2> QED
    BY <2>1 DEF Next, Commit, Verified, Fails, PeerWrites, DayPasses,
       RefreshCalendarWindow, LiveQueryDelivers, vars
<1>2. TypeOK /\ [Next]_vars => [error /\ ~error' => Pressed]_vars
  BY <1>1
<1> QED
  BY <1>2, TypeCorrect, PTL DEF Spec, FailureStaysShown
-------------------------------------------------------------------------------
(***************************************************************************)
(* What the read-back promises: a check-in that may be announced as saved  *)
(* has its status in the table at that moment, although overlapping writes *)
(* of this panel, another tab and imports write the same rows between its  *)
(* commit and its read-back.                                               *)
(***************************************************************************)
ReadBackIsStored ==
    \A w \in Slots : ReadsBack(w) =>
        table[write[w].day][write[w].sector] = write[w].status

(***************************************************************************)
(* The strengthening: a write that counts as committed is the last one of  *)
(* its row, so no other one does.                                          *)
(***************************************************************************)
CommittedIsLast ==
    \A w \in Slots : write[w].phase = "committed" =>
        /\ table[write[w].day][write[w].sector] = write[w].status
        /\ \A z \in Slots \ {w} : ~(/\ write[z].phase = "committed"
                                    /\ write[z].day = write[w].day
                                    /\ write[z].sector = write[w].sector)

(***************************************************************************)
(* Marking the writes of a row leaves none of them committed, and every    *)
(* other write as it was.                                                  *)
(***************************************************************************)
LEMMA OverwrittenPhase ==
    ASSUME TypeOK, NEW d \in Days, NEW s \in Sectors, NEW w \in Slots
    PROVE  Overwritten(d, s)[w].phase = "committed" =>
               /\ Overwritten(d, s)[w] = write[w] /\ write[w].phase = "committed"
               /\ ~(write[w].day = d /\ write[w].sector = s)
<1>1. CASE write[w].phase = "committed" /\ write[w].day = d /\ write[w].sector = s
  <2>1. Overwritten(d, s)[w] = [write[w] EXCEPT !.phase = "overwritten"]
    BY <1>1 DEF Overwritten
  <2>2. write[w] \in Write
    BY <1>1, IdlePhase
  <2> QED
    BY <2>1, <2>2 DEF Write
<1>2. CASE ~(write[w].phase = "committed" /\ write[w].day = d /\ write[w].sector = s)
  <2>1. Overwritten(d, s)[w] = write[w]
    BY <1>2 DEF Overwritten
  <2> QED
    BY <1>2, <2>1
<1> QED
  BY <1>1, <1>2

(***************************************************************************)
(* Every step keeps it: a row changes by a commit or by a peer, and either *)
(* demotes the writes of that row and of no other.                         *)
(***************************************************************************)
LEMMA CommittedStep ==
    ASSUME TypeOK, CommittedIsLast, [Next]_vars
    PROVE  CommittedIsLast'
<1>0. /\ write \in [Slots -> {Idle} \cup Write]
      /\ table \in [Days -> Rows]
      /\ \A w \in Slots : write[w].phase = "committed" => write[w] \in Write
      /\ \A r \in Write : r.day \in Days /\ r.sector \in Sectors
                          /\ r.status \in UiStatuses
  BY IdlePhase DEF TypeOK, Write
<1>1. ASSUME UNCHANGED table,
             \A w \in Slots : write'[w].phase = "committed" => write'[w] = write[w]
      PROVE  CommittedIsLast'
  BY <1>1 DEF CommittedIsLast
<1>2. ASSUME NEW w \in Slots, NEW s \in Sectors, NEW st \in UiStatuses,
             Select(w, s, st)
      PROVE  CommittedIsLast'
  <2>1. \A z \in Slots : write'[z].phase = "committed" => write'[z] = write[z]
    BY <1>0, <1>2 DEF Select
  <2> QED
    BY <1>1, <1>2, <2>1 DEF Select
<1>3. ASSUME NEW w \in Slots, Verified(w) \/ Fails(w) PROVE CommittedIsLast'
  <2>1. \A z \in Slots : write'[z].phase = "committed" => write'[z] = write[z]
    BY <1>0, <1>3 DEF Verified, Fails, Finish, Idle
  <2> QED
    BY <1>1, <1>3, <2>1 DEF Verified, Fails
<1>4. ASSUME NEW d \in Days, NEW s \in Sectors, NEW st \in UiStatuses,
             table' = [table EXCEPT ![d][s] = st]
      PROVE  /\ table'[d][s] = st
             /\ \A e \in Days, c \in Sectors :
                   ~(e = d /\ c = s) => table'[e][c] = table[e][c]
  BY <1>0, <1>4 DEF Rows
<1>5. CASE PeerWrites
  <2>1. PICK d \in Days, s \in Sectors, st \in UiStatuses :
            /\ table' = [table EXCEPT ![d][s] = st]
            /\ write' = Overwritten(d, s)
    BY <1>5 DEF PeerWrites
  <2>2. \A w \in Slots : write'[w].phase = "committed" =>
            /\ write'[w] = write[w] /\ write[w].phase = "committed"
            /\ ~(write[w].day = d /\ write[w].sector = s)
    BY <2>1, OverwrittenPhase
  <2>3. \A w \in Slots : write'[w].phase = "committed" =>
            table'[write[w].day][write[w].sector]
                = table[write[w].day][write[w].sector]
    BY <1>0, <1>4, <2>1, <2>2
  <2>4. ASSUME NEW w \in Slots, write'[w].phase = "committed"
        PROVE  /\ table'[write'[w].day][write'[w].sector] = write'[w].status
               /\ \A z \in Slots \ {w} : ~(/\ write'[z].phase = "committed"
                                           /\ write'[z].day = write'[w].day
                                           /\ write'[z].sector = write'[w].sector)
    <3>1. write'[w] = write[w] /\ write[w].phase = "committed"
      BY <2>2, <2>4
    <3>2. table[write[w].day][write[w].sector] = write[w].status
      BY <3>1 DEF CommittedIsLast
    <3>3. \A z \in Slots \ {w} : write'[z].phase = "committed" =>
              write'[z] = write[z] /\ write[z].phase = "committed"
      BY <2>2
    <3> QED
      BY <2>3, <2>4, <3>1, <3>2, <3>3 DEF CommittedIsLast
  <2> QED
    BY <2>4 DEF CommittedIsLast
<1>6. ASSUME NEW w \in Slots, Commit(w) PROVE CommittedIsLast'
  <2> DEFINE d == write[w].day
             s == write[w].sector
             st == write[w].status
             o == Overwritten(d, s)
  <2>1. write[w] \in Write
    BY <1>6, IdlePhase DEF Commit
  <2>2. d \in Days /\ s \in Sectors /\ st \in UiStatuses
    BY <1>0, <2>1
  <2>3. table' = [table EXCEPT ![d][s] = st]
    BY <1>6 DEF Commit
  <2>4. write' = [o EXCEPT ![w] = [o[w] EXCEPT !.phase = "committed"]]
    BY <1>6 DEF Commit
  <2>5. /\ write'[w].day = d /\ write'[w].sector = s /\ write'[w].status = st
    BY <1>6, <2>1, CommitFacts, IdlePhase
  <2>6. DOMAIN o = Slots
    BY DEF Overwritten
  <2>7. \A z \in Slots \ {w} : write'[z] = o[z]
    BY <2>4, <2>6
  <2>8. \A z \in Slots \ {w} : write'[z].phase = "committed" =>
            /\ write'[z] = write[z] /\ write[z].phase = "committed"
            /\ ~(write[z].day = d /\ write[z].sector = s)
    BY <2>2, <2>7, OverwrittenPhase
  <2> HIDE DEF d, s, st, o
  <2>9. table'[d][s] = st
    BY <1>0, <2>2, <2>3 DEF Rows
  <2>10. \A z \in Slots \ {w} : write'[z].phase = "committed" =>
            table'[write[z].day][write[z].sector]
                = table[write[z].day][write[z].sector]
    BY <1>0, <1>4, <2>2, <2>3, <2>8
  <2> QED
    BY <2>5, <2>8, <2>9, <2>10 DEF CommittedIsLast
<1>7. CASE DayPasses \/ RefreshCalendarWindow \/ LiveQueryDelivers \/ UNCHANGED vars
  BY <1>1, <1>7 DEF DayPasses, RefreshCalendarWindow, LiveQueryDelivers, vars
<1> QED
  BY <1>2, <1>3, <1>5, <1>6, <1>7 DEF Next

(***************************************************************************)
(* A check-in whose read-back succeeds is what the table holds, whoever    *)
(* else wrote the row before.                                              *)
(***************************************************************************)
THEOREM SavedIsStored == Spec => []ReadBackIsStored
<1>1. Init => CommittedIsLast
  BY DEF Init, CommittedIsLast, Idle
<1>2. TypeOK /\ CommittedIsLast /\ [Next]_vars => CommittedIsLast'
  BY CommittedStep
<1>3. CommittedIsLast => ReadBackIsStored
  BY DEF CommittedIsLast, ReadBackIsStored, ReadsBack
<1> QED
  BY <1>1, <1>2, <1>3, TypeCorrect, PTL DEF Spec

(***************************************************************************)
(* The three calendars of the page, the clock, the rendered day and the    *)
(* day of the last result of the live query, trail each other in that      *)
(* order over any midnights, and the rendered day never goes back: the     *)
(* cards never show the rows of a day that has not begun, nor does a late  *)
(* write or a stale result return the panel to yesterday.                  *)
(***************************************************************************)
CalendarsTrail == live.day <= today /\ today <= now
PanelNeverGoesBack == [][today <= today']_vars

(***************************************************************************)
(* Every step keeps the order; the rendered day only changes to the clock. *)
(***************************************************************************)
LEMMA CalendarStep ==
    ASSUME TypeOK, CalendarsTrail, [Next]_vars
    PROVE  CalendarsTrail' /\ today <= today'
<1>0. /\ now \in Nat /\ today \in Nat /\ live.day \in Nat
      /\ live.day <= today /\ today <= now
  BY DayAssumption DEF TypeOK, Days, CalendarsTrail
<1>1. CASE UNCHANGED <<live, now>> /\ today' \in {today, now}
  BY <1>0, <1>1 DEF CalendarsTrail
<1>2. CASE DayPasses
  BY <1>0, <1>2 DEF DayPasses, CalendarsTrail
<1>3. CASE LiveQueryDelivers
  BY <1>0, <1>3 DEF LiveQueryDelivers, CalendarsTrail
<1>4. ASSUME NEW w \in Slots, Verified(w)
      PROVE  UNCHANGED <<live, now>> /\ today' \in {today, now}
  BY <1>4 DEF Verified
<1>5. ASSUME NEW w \in Slots,
             \/ \E s \in Sectors, st \in UiStatuses : Select(w, s, st)
             \/ Commit(w) \/ Fails(w)
      PROVE  UNCHANGED <<live, now, today>>
  BY <1>5 DEF Select, Commit, Fails
<1>6. CASE PeerWrites \/ RefreshCalendarWindow \/ UNCHANGED vars
  BY <1>1, <1>6 DEF PeerWrites, RefreshCalendarWindow, vars
<1> QED
  BY <1>1, <1>2, <1>3, <1>4, <1>5, <1>6 DEF Next

(***************************************************************************)
(* What the panel shows is never ahead of the clock, and its day never     *)
(* goes back, over any number of midnights.                                *)
(***************************************************************************)
THEOREM CalendarsStayInOrder == Spec => []CalendarsTrail /\ PanelNeverGoesBack
<1>1. Init => CalendarsTrail
  BY DEF Init, CalendarsTrail
<1>2. TypeOK /\ CalendarsTrail /\ [Next]_vars => CalendarsTrail'
  BY CalendarStep
<1>3. TypeOK /\ CalendarsTrail /\ [Next]_vars => [today <= today']_vars
  BY CalendarStep
<1> QED
  BY <1>1, <1>2, <1>3, TypeCorrect, PTL DEF Spec, PanelNeverGoesBack
===============================================================================
