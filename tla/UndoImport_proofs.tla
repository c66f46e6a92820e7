-------------------------- MODULE UndoImport_proofs ---------------------------
(***************************************************************************)
(* Theorems about UndoImport, for any number of tabs, keys, files and      *)
(* stamps: type correctness; that the panel offers no undo the service     *)
(* would refuse; that a tab's own verified check-ins disable its undo and, *)
(* when announcements are reliable, those of every tab; that the race left *)
(* between test and write could be tested for; that stamps name writes and *)
(* check-ins advance; and that the tabs implement the ledger.              *)
(***************************************************************************)
EXTENDS UndoImport, TLAPS

(***************************************************************************)
(* The row a check-in leaves behind is a row.                              *)
(***************************************************************************)
LEMMA WrittenRowType ==
    ASSUME NEW status \in UiStatuses, NEW at \in Nat
    PROVE  WrittenRow(status, at) \in Row
BY DEF WrittenRow, Row, NoRow, UiStatuses

(***************************************************************************)
(* An import of a file yields a table.                                     *)
(***************************************************************************)
LEMMA ImportResultType ==
    ASSUME NEW table \in Table, NEW p \in Payload, NEW mode
    PROVE  ImportResult(table, p, mode) \in Table
<1>1. PICK D \in SUBSET Keys : p \in [D -> Statuses]
  BY DEF Payload
<1>2. ASSUME NEW k \in Keys
      PROVE  (IF k \in DOMAIN p THEN FileRow(p[k])
              ELSE IF mode = "replace" THEN NoRow ELSE table[k]) \in Row
  <2>1. CASE k \in DOMAIN p
    BY <1>1, <2>1 DEF FileRow, Row, UiStatuses
  <2>2. CASE k \notin DOMAIN p
    BY <2>2 DEF Table, Row, NoRow, UiStatuses
  <2> QED
    BY <2>1, <2>2
<1> QED
  BY <1>2 DEF ImportResult, Table

(***************************************************************************)
(* The table that holds no row is a table.                                 *)
(***************************************************************************)
LEMMA EmptyTableType == EmptyTable \in Table
BY DEF EmptyTable, Table, Row, NoRow, UiStatuses

(***************************************************************************)
(* What a fresh tab holds has the type of what it may come to hold.        *)
(***************************************************************************)
LEMMA NothingType ==
    /\ NoImport \in Committed
    /\ NoUndo \in Staged
    /\ NoOffer \in Offer
    /\ NoRestore \in Restore
BY EmptyTableType
DEF NoImport, NoUndo, NoOffer, NoRestore, Committed, Staged, Offer, Restore

(***************************************************************************)
(* Withdrawing an undo keeps what it is.                                   *)
(***************************************************************************)
LEMMA InvalidatedUndoFacts ==
    ASSUME NEW u \in Staged
    PROVE  /\ InvalidatedUndo(u) \in Staged
           /\ InvalidatedUndo(u).gen = u.gen
           /\ InvalidatedUndo(u).snapshot = u.snapshot
           /\ u.gen # 0 => InvalidatedUndo(u).invalidated
BY DEF InvalidatedUndo, Staged

(***************************************************************************)
(* Withdrawing an offer keeps which import it is about.                    *)
(***************************************************************************)
LEMMA WithdrawnOfferFacts ==
    ASSUME NEW o \in Offer
    PROVE  /\ WithdrawnOffer(o) \in Offer
           /\ WithdrawnOffer(o).gen = o.gen
           /\ o.gen # 0 => WithdrawnOffer(o).invalidated
BY DEF WithdrawnOffer, Offer

(***************************************************************************)
(* A check-in is announced to tabs, under the id of its own tab.           *)
(***************************************************************************)
LEMMA NewsType ==
    ASSUME NEW c, c.tab \in Tabs, c.at \in Stamps
    PROVE  News(c) \subseteq Message
BY TabAssumption DEF News, Message

(***************************************************************************)
(* Type correctness of the tabs and the table they share.                  *)
(***************************************************************************)
LEMMA WriteStatusType ==
    ASSUME TypeOK, NEW t \in Tabs, NEW k \in Keys, NEW status \in UiStatuses,
           NEW isRetry \in BOOLEAN, NEW replaced,
           WriteStatus(t, k, status, isRetry, replaced)
    PROVE  TypeOK'
<1> DEFINE row == WrittenRow(status, clock + 1)
           new == [at |-> clock + 1, tab |-> t, key |-> k, row |-> row,
                   retried |-> isRetry, phase |-> "verifying"]
<1>1. clock + 1 \in Stamps /\ clock + 1 \in Nat /\ clock' \in 0..MaxStamp
  BY BoundAssumption DEF TypeOK, WriteStatus, Stamps
<1>2. row \in Row
  BY <1>1, WrittenRowType
<1>3. new \in CheckIn
  BY <1>1, <1>2 DEF CheckIn
<1>4. store' \in Table
  BY <1>2 DEF WriteStatus, TypeOK, Table
<1>5. checkIns' \subseteq CheckIn
  BY <1>3 DEF WriteStatus, TypeOK
<1> QED
  BY <1>1, <1>4, <1>5 DEF WriteStatus, TypeOK

(***************************************************************************)
(* A check-in that gets an outcome is still a check-in.                    *)
(***************************************************************************)
LEMMA FinishType ==
    ASSUME TypeOK, NEW c \in checkIns,
           NEW outcome \in {"closed", "verified", "failed"}, Finish(c, outcome)
    PROVE  checkIns' \subseteq CheckIn
BY DEF TypeOK, Finish, CheckIn

(***************************************************************************)
(* Every variable of every tab has its type in every reachable state.      *)
(***************************************************************************)
THEOREM TypeCorrect == Spec => []TypeOK
<1>1. Init => TypeOK
  <2> SUFFICES ASSUME Init PROVE TypeOK
    OBVIOUS
  <2>1. store \in Table
    BY ImportResultType, EmptyTableType, PayloadAssumption DEF Init
  <2> QED
    BY <2>1, NothingType, BoundAssumption DEF Init, TypeOK
<1>2. TypeOK /\ [Next]_vars => TypeOK'
  <2> SUFFICES ASSUME TypeOK, [Next]_vars PROVE TypeOK'
    OBVIOUS
  <2>1. ASSUME NEW t \in Tabs, SetDailyStatus(t) PROVE TypeOK'
    BY <2>1, WriteStatusType DEF SetDailyStatus
  <2>2. ASSUME NEW t \in Tabs, ApplyImport(t) PROVE TypeOK'
    <3>1. clock' \in 0..MaxStamp /\ clock + 1 \in Nat
      BY <2>2, BoundAssumption DEF TypeOK, ApplyImport
    <3>2. store' \in Table
      BY <2>2, ImportResultType, PayloadAssumption DEF TypeOK, ApplyImport
    <3>3. [gen |-> clock + 1, snapshot |-> store] \in Committed
      BY <3>1 DEF TypeOK, Committed
    <3>4. importing' \in [Tabs -> Committed]
      BY <2>2, <3>3 DEF TypeOK, ApplyImport
    <3> QED
      BY <2>2, <3>1, <3>2, <3>4 DEF TypeOK, ApplyImport
  <2>3. ASSUME NEW t \in Tabs, StageUndo(t) PROVE TypeOK'
    <3>1. importing[t] \in Committed
      BY DEF TypeOK
    <3>2. /\ [gen |-> importing[t].gen, snapshot |-> importing[t].snapshot,
              invalidated |-> FALSE] \in Staged
          /\ [gen |-> importing[t].gen, invalidated |-> FALSE] \in Offer
      BY <3>1 DEF Committed, Staged, Offer
    <3> QED
      BY <2>3, <3>2, NothingType DEF TypeOK, StageUndo
  <2>4. ASSUME NEW t \in Tabs, UndoAccepted(t) PROVE TypeOK'
    <3>1. undo[t] \in Staged
      BY DEF TypeOK
    <3>2. [gen |-> undo[t].gen, snapshot |-> undo[t].snapshot,
           committed |-> FALSE] \in Restore
      BY <3>1 DEF Staged, Restore
    <3> QED
      BY <2>4, <3>2 DEF TypeOK, UndoAccepted
  <2>5. ASSUME NEW t \in Tabs, UndoStep(t) PROVE TypeOK'
    <3>1. undoing[t] \in Restore
      BY DEF TypeOK
    <3>2. /\ undoing[t].snapshot \in Table
          /\ [undoing[t] EXCEPT !.committed = TRUE] \in Restore
      BY <3>1 DEF Restore
    <3>3. CASE RestoreSnapshot(t)
      BY <3>2, <3>3 DEF TypeOK, RestoreSnapshot
    <3>4. CASE UndoCompletes(t)
      BY <3>4, NothingType DEF TypeOK, UndoCompletes
    <3>5. CASE UndoFails(t)
      BY <3>5, NothingType DEF TypeOK, UndoFails
    <3> QED
      BY <2>5, <3>3, <3>4, <3>5 DEF UndoStep
  <2>6. ASSUME NEW t \in Tabs, Reload(t) PROVE TypeOK'
    <3>1. checkIns' \subseteq CheckIn
      BY <2>6 DEF TypeOK, Reload, CheckIn
    <3>2. channel' \subseteq Message
      BY <2>6 DEF TypeOK, Reload
    <3>3. /\ importing' \in [Tabs -> Committed] /\ undo' \in [Tabs -> Staged]
          /\ panel' \in [Tabs -> Offer] /\ undoing' \in [Tabs -> Restore]
      BY <2>6, NothingType DEF TypeOK, Reload
    <3>4. store' = store /\ clock' = clock
      BY <2>6 DEF Reload
    <3> QED
      BY <3>1, <3>2, <3>3, <3>4 DEF TypeOK
  <2>7. ASSUME NEW c \in checkIns, VerifySucceeds(c) PROVE TypeOK'
    <3>1. checkIns' \subseteq CheckIn
      BY <2>7, FinishType DEF VerifySucceeds
    <3>2. c.tab \in Tabs /\ c.at \in Stamps
      BY DEF TypeOK, CheckIn
    <3>3. channel' \subseteq Message
      BY <2>7, <3>2, NewsType
      DEF TypeOK, VerifySucceeds, DispatchEntryWritten, Broadcast
    <3>4. undo[c.tab] \in Staged /\ panel[c.tab] \in Offer
      BY <3>2 DEF TypeOK
    <3>5. undo' \in [Tabs -> Staged] /\ panel' \in [Tabs -> Offer]
      BY <2>7, <3>2, <3>4, InvalidatedUndoFacts, WithdrawnOfferFacts
      DEF TypeOK, VerifySucceeds, DispatchEntryWritten
    <3> QED
      BY <2>7, <3>1, <3>3, <3>5 DEF TypeOK, VerifySucceeds
  <2>8. ASSUME NEW c \in checkIns,
               VerifyMismatches(c) \/ VerifyStalls(c) \/ VerifyFindsClosed(c)
               \/ RetryFails(c)
        PROVE  TypeOK'
    <3>1. checkIns' \subseteq CheckIn
      BY <2>8, FinishType
      DEF VerifyMismatches, VerifyStalls, VerifyFindsClosed, RetryFails
    <3> QED
      BY <2>8, <3>1
      DEF TypeOK, VerifyMismatches, VerifyStalls, VerifyFindsClosed, RetryFails
  <2>9. ASSUME NEW c \in checkIns, RetryCheckIn(c) PROVE TypeOK'
    <3>1. c.tab \in Tabs /\ c.key \in Keys /\ c.row.status \in UiStatuses
      BY DEF TypeOK, CheckIn, Row
    <3> QED
      BY <2>9, <3>1, WriteStatusType DEF RetryCheckIn
  <2>10. ASSUME NEW m \in channel, Hears(m) PROVE TypeOK'
    <3>1. m.to \in Tabs
      BY DEF TypeOK, Message
    <3>2. undo[m.to] \in Staged /\ panel[m.to] \in Offer
      BY <3>1 DEF TypeOK
    <3>3. undo' \in [Tabs -> Staged] /\ panel' \in [Tabs -> Offer]
      BY <2>10, <3>2, InvalidatedUndoFacts, WithdrawnOfferFacts
      DEF TypeOK, Hears, ServiceHears, PanelHears
    <3> QED
      BY <2>10, <3>3 DEF TypeOK, Hears, ServiceHears, PanelHears, Receivable
  <2>11. CASE UNCHANGED vars
    BY <2>11 DEF vars, TypeOK
  <2> QED
    BY <2>1, <2>2, <2>3, <2>4, <2>5, <2>6, <2>7, <2>8, <2>9, <2>10, <2>11
    DEF Next, CheckInStep
<1> QED
  BY <1>1, <1>2, PTL DEF Spec

-------------------------------------------------------------------------------
(***************************************************************************)
(* The environment in which announcements do their work: a channel that    *)
(* loses nothing, commits that are heard in time, an id per tab.           *)
(***************************************************************************)
ReliableNews ==
    /\ ~Lossy
    /\ CommitHeardFirst
    /\ \A t, u \in Tabs : TabIdOf[t] = TabIdOf[u] => t = u

(***************************************************************************)
(* The undo that an import is about to stage must be informed too, of the  *)
(* check-ins that are verified before the tab hears of its commit; and a   *)
(* new import is younger than every check-in.                              *)
(***************************************************************************)
Informed(t, gen) ==
    \A c \in checkIns :
        (c.phase = "verified" /\ c.at > gen) => c.tab # t /\ AnnouncedTo(t, c)

CommittedImportIsInformed ==
    \A t \in Tabs : importing[t].gen # 0 => Informed(t, importing[t].gen)

LiveUndoIsInformed ==
    \A t \in Tabs :
        undo[t].gen # 0 => undo[t].invalidated \/ Informed(t, undo[t].gen)

StampsArePast == \A c \in checkIns : c.at <= clock

NewsInv == StampsArePast /\ CommittedImportIsInformed /\ LiveUndoIsInformed

(***************************************************************************)
(* The inductive invariant contains the property it was made for.          *)
(***************************************************************************)
LEMMA NewsInvImplies == NewsInv => VerifiedCheckInReachesUndo
BY DEF NewsInv, LiveUndoIsInformed, Informed, VerifiedCheckInReachesUndo

(***************************************************************************)
(* What a step leaves alone, it leaves informed.                           *)
(***************************************************************************)
LEMMA InformedStable ==
    ASSUME NEW t \in Tabs, NEW gen, Informed(t, gen),
           \A c \in checkIns' : c.phase = "verified" => c \in checkIns,
           \A c \in checkIns : AnnouncedTo(t, c) => AnnouncedTo(t, c)'
    PROVE  Informed(t, gen)'
BY DEF Informed

(***************************************************************************)
(* A step that verifies no check-in, receives nothing and stages nothing   *)
(* keeps the invariant.                                                    *)
(***************************************************************************)
LEMMA QuietStep ==
    ASSUME NewsInv, StampsArePast',
           \A c \in checkIns' : c.phase = "verified" => c \in checkIns,
           \A t \in Tabs : importing'[t].gen # 0 => importing'[t] = importing[t],
           \A t \in Tabs : undo'[t].gen # 0 => undo'[t] = undo[t],
           \A m \in channel :
               m \in channel' \/ (undo'[m.to].gen = 0 /\ importing'[m.to].gen = 0)
    PROVE  NewsInv'
<1>1. ASSUME NEW t \in Tabs, NEW gen, Informed(t, gen),
             undo'[t].gen # 0 \/ importing'[t].gen # 0
      PROVE  Informed(t, gen)'
  BY <1>1, InformedStable DEF AnnouncedTo
<1>2. CommittedImportIsInformed'
  BY <1>1 DEF NewsInv, CommittedImportIsInformed
<1>3. LiveUndoIsInformed'
  BY <1>1 DEF NewsInv, LiveUndoIsInformed
<1> QED
  BY <1>2, <1>3 DEF NewsInv

(***************************************************************************)
(* A check-in that commits is not verified yet, so nobody has to know of it. *)
(***************************************************************************)
LEMMA WriteStatusKeepsNews ==
    ASSUME TypeOK, NewsInv, NEW t, NEW k, NEW status, NEW isRetry, NEW replaced,
           WriteStatus(t, k, status, isRetry, replaced)
    PROVE  NewsInv'
<1>1. clock \in Nat /\ \A c \in checkIns : c.at \in Nat
  BY BoundAssumption DEF TypeOK, CheckIn, Stamps
<1>2. StampsArePast'
  BY <1>1 DEF WriteStatus, NewsInv, StampsArePast
<1>3. \A c \in checkIns' : c.phase = "verified" => c \in checkIns
  BY DEF WriteStatus
<1>4. importing' = importing /\ undo' = undo /\ channel' = channel
  BY DEF WriteStatus
<1>5. /\ \A u \in Tabs : importing'[u].gen # 0 => importing'[u] = importing[u]
      /\ \A u \in Tabs : undo'[u].gen # 0 => undo'[u] = undo[u]
      /\ \A m \in channel :
             m \in channel' \/ (undo'[m.to].gen = 0 /\ importing'[m.to].gen = 0)
  BY <1>4
<1> QED
  BY <1>2, <1>3, <1>5, QuietStep

(***************************************************************************)
(* Giving an outcome to a check-in changes its phase and nothing else.     *)
(***************************************************************************)
LEMMA FinishFacts ==
    ASSUME TypeOK, NEW c \in checkIns, NEW outcome, Finish(c, outcome)
    PROVE  /\ \A d \in checkIns' :
                 d \in checkIns \/ (d.at = c.at /\ d.tab = c.tab /\ d.phase = outcome)
           /\ (NewsInv /\ clock' = clock) => StampsArePast'
BY DEF Finish, TypeOK, CheckIn, NewsInv, StampsArePast

(***************************************************************************)
(* Every step keeps the undo states informed.                              *)
(***************************************************************************)
LEMMA NewsStep ==
    ASSUME ReliableNews, TypeOK, NewsInv, [Next]_vars
    PROVE  NewsInv'
<1>1. ASSUME NEW t \in Tabs, SetDailyStatus(t) PROVE NewsInv'
  BY <1>1, WriteStatusKeepsNews DEF SetDailyStatus
<1>2. ASSUME NEW c \in checkIns, RetryCheckIn(c) PROVE NewsInv'
  BY <1>2, WriteStatusKeepsNews DEF RetryCheckIn
<1>3. ASSUME NEW t \in Tabs, ApplyImport(t) PROVE NewsInv'
  <2> USE DEF NewsInv
  <2>1. clock \in Nat /\ \A c \in checkIns : c.at \in Nat
    BY BoundAssumption DEF TypeOK, CheckIn, Stamps
  <2>2. StampsArePast'
    BY <1>3, <2>1 DEF ApplyImport, StampsArePast
  <2>3. /\ \A u \in Tabs \ {t} : importing'[u] = importing[u]
        /\ importing'[t].gen = clock + 1
        /\ undo' = undo
        /\ checkIns' = checkIns
    BY <1>3 DEF ApplyImport, TypeOK
  <2>4. \A u \in Tabs : \A gen : Informed(u, gen) => Informed(u, gen)'
    BY <1>3 DEF ApplyImport, Informed, AnnouncedTo
  <2>5. Informed(t, importing[t].gen)'
    BY <2>1, <2>3 DEF StampsArePast, Informed
  <2> QED
    BY <2>2, <2>3, <2>4, <2>5 DEF CommittedImportIsInformed, LiveUndoIsInformed
<1>4. ASSUME NEW t \in Tabs, StageUndo(t) PROVE NewsInv'
  <2> USE DEF NewsInv
  <2>1. \A u \in Tabs : \A gen : Informed(u, gen) => Informed(u, gen)'
    BY <1>4 DEF StageUndo, Informed, AnnouncedTo
  <2>2. /\ \A u \in Tabs \ {t} : importing'[u] = importing[u] /\ undo'[u] = undo[u]
        /\ importing'[t].gen = 0
        /\ undo'[t].gen = importing[t].gen
        /\ importing[t].gen # 0
    BY <1>4 DEF StageUndo, TypeOK, NoImport
  <2>3. StampsArePast'
    BY <1>4 DEF StageUndo, StampsArePast
  <2> QED
    BY <2>1, <2>2, <2>3 DEF CommittedImportIsInformed, LiveUndoIsInformed
<1>5. ASSUME NEW t \in Tabs, UndoAccepted(t) \/ UndoStep(t) PROVE NewsInv'
  <2>1. /\ checkIns' = checkIns /\ clock' = clock
        /\ importing' = importing /\ channel' = channel
        /\ undo' = undo \/ undo' = [undo EXCEPT ![t] = NoUndo]
    BY <1>5 DEF UndoAccepted, UndoStep, RestoreSnapshot, UndoCompletes, UndoFails
  <2>2. \A u \in Tabs : undo'[u].gen # 0 => undo'[u] = undo[u]
    BY <2>1 DEF TypeOK, NoUndo
  <2>3. StampsArePast'
    BY <2>1 DEF NewsInv, StampsArePast
  <2>4. \A c \in checkIns' : c.phase = "verified" => c \in checkIns
    BY <2>1
  <2>5. \A u \in Tabs : importing'[u].gen # 0 => importing'[u] = importing[u]
    BY <2>1
  <2>6. \A m \in channel :
            m \in channel' \/ (undo'[m.to].gen = 0 /\ importing'[m.to].gen = 0)
    BY <2>1
  <2> QED
    BY <2>2, <2>3, <2>4, <2>5, <2>6, QuietStep
<1>6. ASSUME NEW t \in Tabs, Reload(t) PROVE NewsInv'
  <2>1. \A c \in checkIns' : c.phase = "verified" => c \in checkIns
    BY <1>6 DEF Reload, TypeOK, CheckIn
  <2>2. StampsArePast'
    BY <1>6 DEF Reload, NewsInv, StampsArePast, TypeOK, CheckIn
  <2>3. /\ \A u \in Tabs : importing'[u].gen # 0 => importing'[u] = importing[u]
        /\ \A u \in Tabs : undo'[u].gen # 0 => undo'[u] = undo[u]
        /\ undo'[t].gen = 0 /\ importing'[t].gen = 0
    BY <1>6 DEF Reload, TypeOK, NoUndo, NoImport
  <2>4. \A m \in channel :
            m \in channel' \/ (undo'[m.to].gen = 0 /\ importing'[m.to].gen = 0)
    BY <1>6, <2>3 DEF Reload
  <2> QED
    BY <2>1, <2>2, <2>3, <2>4, QuietStep
<1>7. ASSUME NEW c \in checkIns, VerifySucceeds(c) PROVE NewsInv'
  <2> USE DEF NewsInv
  <2>1. /\ importing' = importing /\ clock' = clock
        /\ importing[c.tab].gen = 0
        /\ channel' = channel \cup News(c)
        /\ undo' = [undo EXCEPT ![c.tab] = InvalidatedUndo(@)]
        /\ Finish(c, "verified")
    BY <1>7 DEF VerifySucceeds, DispatchEntryWritten, Broadcast, HeardCommits, ReliableNews
  <2>2. c.tab \in Tabs
    BY DEF TypeOK, CheckIn
  <2>3. StampsArePast'
    BY <2>1, FinishFacts
  <2>4. ASSUME NEW t \in Tabs, t # c.tab, NEW gen, Informed(t, gen)
        PROVE  Informed(t, gen)'
    <3>1. ASSUME NEW d \in checkIns', d.phase = "verified", d.at > gen
          PROVE  d.tab # t /\ AnnouncedTo(t, d)'
      <4>1. CASE d \in checkIns
        BY <2>1, <2>4, <3>1, <4>1 DEF Informed, AnnouncedTo
      <4>2. CASE d.at = c.at /\ d.tab = c.tab
        <5>1. [at |-> c.at, from |-> TabIdOf[c.tab], to |-> t, sub |-> "service"]
                \in News(c)
          BY <2>4 DEF News, Subscribers
        <5> QED
          BY <2>1, <2>4, <4>2, <5>1 DEF AnnouncedTo
      <4> QED
        BY <2>1, <4>1, <4>2, FinishFacts
    <3> QED
      BY <3>1 DEF Informed
  <2>5. /\ \A t \in Tabs \ {c.tab} : undo'[t] = undo[t]
        /\ undo'[c.tab].gen # 0 => undo'[c.tab].invalidated
    BY <2>1, <2>2, InvalidatedUndoFacts DEF TypeOK
  <2>6. CommittedImportIsInformed'
    BY <2>1, <2>4 DEF CommittedImportIsInformed
  <2>7. LiveUndoIsInformed'
    BY <2>4, <2>5 DEF LiveUndoIsInformed
  <2> QED
    BY <2>3, <2>6, <2>7
<1>8. ASSUME NEW c \in checkIns,
             VerifyMismatches(c) \/ VerifyStalls(c) \/ VerifyFindsClosed(c)
             \/ RetryFails(c)
      PROVE  NewsInv'
  <2>1. PICK outcome \in {"failed", "closed"} : Finish(c, outcome)
    BY <1>8 DEF VerifyMismatches, VerifyStalls, VerifyFindsClosed, RetryFails
  <2>2. /\ importing' = importing /\ clock' = clock /\ undo' = undo
        /\ channel' = channel
    BY <1>8 DEF VerifyMismatches, VerifyStalls, VerifyFindsClosed, RetryFails
  <2>3. \A d \in checkIns' : d.phase = "verified" => d \in checkIns
    BY <2>1, FinishFacts
  <2>4. StampsArePast'
    BY <2>1, <2>2, FinishFacts
  <2>5. /\ \A u \in Tabs : importing'[u].gen # 0 => importing'[u] = importing[u]
        /\ \A u \in Tabs : undo'[u].gen # 0 => undo'[u] = undo[u]
        /\ \A m \in channel :
               m \in channel' \/ (undo'[m.to].gen = 0 /\ importing'[m.to].gen = 0)
    BY <2>2
  <2> QED
    BY <2>3, <2>4, <2>5, QuietStep
<1>9. ASSUME NEW m \in channel, Hears(m) PROVE NewsInv'
  <2> USE DEF NewsInv
  <2>1. /\ importing[m.to].gen = 0 /\ channel' = channel \ {m}
        /\ importing' = importing /\ clock' = clock /\ checkIns' = checkIns
    BY <1>9 DEF Hears, ServiceHears, PanelHears, Receivable, ReliableNews
  <2>2. m.to \in Tabs /\ undo[m.to] \in Staged
    BY DEF TypeOK, Message
  <2>3. StampsArePast'
    BY <2>1 DEF StampsArePast
  <2>4. ASSUME NEW t \in Tabs, NEW gen, Informed(t, gen),
               t # m.to \/ m.sub # "service" \/ ~FromPeer(m)
        PROVE  Informed(t, gen)'
    <3>1. ASSUME NEW c \in checkIns, AnnouncedTo(t, c), c.tab # t
          PROVE  AnnouncedTo(t, c)'
      <4>1. c.tab \in Tabs
        BY DEF TypeOK, CheckIn
      <4>2. TabIdOf[c.tab] # TabIdOf[t]
        BY <3>1, <4>1 DEF ReliableNews
      <4> QED
        BY <2>1, <2>4, <3>1, <4>2 DEF AnnouncedTo, FromPeer
    <3> QED
      BY <2>1, <2>4, <3>1 DEF Informed
  <2>5. CommittedImportIsInformed'
    BY <2>1, <2>4 DEF CommittedImportIsInformed
  <2>6. CASE m.sub = "service" /\ FromPeer(m) /\ undo[m.to].gen # 0
    <3>1. /\ undo'[m.to].invalidated
          /\ \A t \in Tabs \ {m.to} : undo'[t] = undo[t]
      BY <1>9, <2>2, <2>6, InvalidatedUndoFacts
      DEF Hears, ServiceHears, PanelHears, TypeOK
    <3> QED
      BY <2>3, <2>4, <2>5, <3>1 DEF LiveUndoIsInformed
  <2>7. CASE ~(m.sub = "service" /\ FromPeer(m) /\ undo[m.to].gen # 0)
    <3>1. undo' = undo
      BY <1>9, <2>7 DEF Hears, ServiceHears, PanelHears
    <3> QED
      BY <2>3, <2>4, <2>5, <2>7, <3>1 DEF LiveUndoIsInformed
  <2> QED
    BY <2>6, <2>7
<1>10. CASE UNCHANGED vars
  BY <1>10 DEF vars, NewsInv, StampsArePast, CommittedImportIsInformed, LiveUndoIsInformed,
     Informed, AnnouncedTo
<1> QED
  BY <1>1, <1>2, <1>3, <1>4, <1>5, <1>6, <1>7, <1>8, <1>9, <1>10
  DEF Next, CheckInStep

(***************************************************************************)
(* With reliable announcements, a verified check-in of any tab always      *)
(* reaches the undo of an earlier import, or is on its way to it.          *)
(***************************************************************************)
THEOREM NewsReachesUndo ==
    ASSUME ReliableNews
    PROVE  Spec => []VerifiedCheckInReachesUndo
<1>1. Init => NewsInv
  BY DEF Init, NewsInv, StampsArePast, CommittedImportIsInformed, NoImport,
         LiveUndoIsInformed, Informed
<1>2. TypeOK /\ NewsInv /\ [Next]_vars => NewsInv'
  BY NewsStep
<1> QED
  BY <1>1, <1>2, TypeCorrect, NewsInvImplies, PTL DEF Spec

-------------------------------------------------------------------------------
(* The panel and the service agree on the undo that is offered.            *)

(***************************************************************************)
(* A step that leaves both copies of the undo of every tab alone keeps     *)
(* their agreement.                                                        *)
(***************************************************************************)
LEMMA AgreementStable ==
    ASSUME OfferedUndoIsHonoured, UNCHANGED <<undo, panel>>
    PROVE  OfferedUndoIsHonoured'
BY DEF OfferedUndoIsHonoured

(***************************************************************************)
(* Every step keeps the agreement: both listeners of an announcement, and  *)
(* both places a commit, an undo or a reload writes, change together or on *)
(* the safe side.                                                          *)
(***************************************************************************)
LEMMA AgreementStep ==
    ASSUME TypeOK, OfferedUndoIsHonoured, [Next]_vars
    PROVE  OfferedUndoIsHonoured'
<1>1. ASSUME NEW t \in Tabs, SetDailyStatus(t) PROVE OfferedUndoIsHonoured'
  BY <1>1, AgreementStable DEF SetDailyStatus, WriteStatus
<1>2. ASSUME NEW t \in Tabs, ApplyImport(t) PROVE OfferedUndoIsHonoured'
  BY <1>2, AgreementStable DEF ApplyImport
<1>3. ASSUME NEW t \in Tabs, StageUndo(t) PROVE OfferedUndoIsHonoured'
  BY <1>3 DEF StageUndo, TypeOK, OfferedUndoIsHonoured
<1>4. ASSUME NEW t \in Tabs, UndoAccepted(t) \/ RestoreSnapshot(t) \/ UndoFails(t)
      PROVE  OfferedUndoIsHonoured'
  BY <1>4, AgreementStable DEF UndoAccepted, RestoreSnapshot, UndoFails
<1>5. ASSUME NEW t \in Tabs, UndoCompletes(t) \/ Reload(t)
      PROVE  OfferedUndoIsHonoured'
  BY <1>5 DEF UndoCompletes, Reload, TypeOK, OfferedUndoIsHonoured, NoOffer
<1>6. ASSUME NEW c \in checkIns, VerifySucceeds(c) PROVE OfferedUndoIsHonoured'
  <2>1. c.tab \in Tabs
    BY DEF TypeOK, CheckIn
  <2>2. panel[c.tab] \in Offer
    BY <2>1 DEF TypeOK
  <2>3. /\ \A t \in Tabs \ {c.tab} : undo'[t] = undo[t] /\ panel'[t] = panel[t]
        /\ panel'[c.tab] = WithdrawnOffer(panel[c.tab])
    BY <1>6, <2>1 DEF VerifySucceeds, DispatchEntryWritten, TypeOK
  <2>4. panel'[c.tab].gen = 0 \/ panel'[c.tab].invalidated
    BY <2>2, <2>3, WithdrawnOfferFacts
  <2> QED
    BY <2>3, <2>4 DEF OfferedUndoIsHonoured
<1>7. ASSUME NEW c \in checkIns,
             \/ VerifyMismatches(c) \/ VerifyStalls(c) \/ VerifyFindsClosed(c)
             \/ RetryCheckIn(c) \/ RetryFails(c)
      PROVE  OfferedUndoIsHonoured'
  BY <1>7, AgreementStable
  DEF VerifyMismatches, VerifyStalls, VerifyFindsClosed, RetryCheckIn,
      RetryFails, WriteStatus
<1>8. ASSUME NEW m \in channel, Hears(m) PROVE OfferedUndoIsHonoured'
  <2>1. m.to \in Tabs
    BY DEF TypeOK, Message
  <2>2. panel[m.to] \in Offer
    BY <2>1 DEF TypeOK
  <2>3. CASE undo' = undo /\ panel' = panel
    BY <2>3, AgreementStable
  <2>4. CASE ~(undo' = undo /\ panel' = panel)
    <3>1. /\ panel' = [panel EXCEPT ![m.to] = WithdrawnOffer(@)]
          /\ undo' = undo \/ undo' = [undo EXCEPT ![m.to] = InvalidatedUndo(@)]
      BY <1>8, <2>4 DEF Hears, ServiceHears, PanelHears
    <3>2. /\ \A t \in Tabs \ {m.to} : undo'[t] = undo[t] /\ panel'[t] = panel[t]
          /\ panel'[m.to] = WithdrawnOffer(panel[m.to])
      BY <2>1, <3>1 DEF TypeOK
    <3>3. panel'[m.to].gen = 0 \/ panel'[m.to].invalidated
      BY <2>2, <3>2, WithdrawnOfferFacts
    <3> QED
      BY <3>2, <3>3 DEF OfferedUndoIsHonoured
  <2> QED
    BY <2>3, <2>4
<1>9. CASE UNCHANGED vars
  BY <1>9, AgreementStable DEF vars
<1> QED
  BY <1>1, <1>2, <1>3, <1>4, <1>5, <1>6, <1>7, <1>8, <1>9
  DEF Next, CheckInStep, UndoStep

(***************************************************************************)
(* The panel never offers an undo that the service would refuse, whatever  *)
(* is lost, delayed or heard in whatever order, and also when tabs share   *)
(* an id.                                                                  *)
(***************************************************************************)
THEOREM OfferIsHonoured == Spec => []OfferedUndoIsHonoured
<1>1. Init => OfferedUndoIsHonoured
  BY DEF Init, OfferedUndoIsHonoured, NoOffer
<1>2. TypeOK /\ OfferedUndoIsHonoured /\ [Next]_vars => OfferedUndoIsHonoured'
  BY AgreementStep
<1> QED
  BY <1>1, <1>2, TypeCorrect, PTL DEF Spec

-------------------------------------------------------------------------------
(* A tab's own check-ins, with no help from the channel.                   *)

(***************************************************************************)
(* Without a channel it is the order of the tab's own steps that counts:   *)
(* a tab verifies nothing between an import and its staging, and the two   *)
(* copies of the undo are about the same import, so both are withdrawn.    *)
(***************************************************************************)
CopiesAgree == \A t \in Tabs : panel[t].gen = undo[t].gen

CommittedImportIsYoungest ==
    \A t \in Tabs : importing[t].gen # 0 =>
        \A c \in checkIns : c.phase = "verified" /\ c.tab = t
                                => c.at <= importing[t].gen

OwnInv ==
    /\ StampsArePast /\ CopiesAgree
    /\ CommittedImportIsYoungest /\ OwnCheckInDisablesUndo

(***************************************************************************)
(* What a step may do to the undo of a tab if nothing is verified: drop    *)
(* both copies, or keep the import and whatever was withdrawn.             *)
(***************************************************************************)
UndoOnlyWithdrawn(t) ==
    /\ panel'[t].gen = undo'[t].gen
    /\ \/ undo'[t].gen = 0
       \/ /\ undo'[t].gen = undo[t].gen
          /\ undo[t].invalidated => undo'[t].invalidated
          /\ panel[t].invalidated => panel'[t].invalidated

(***************************************************************************)
(* Such a step keeps the invariant.                                        *)
(***************************************************************************)
LEMMA OwnQuietStep ==
    ASSUME OwnInv, StampsArePast',
           \A c \in checkIns' : c.phase = "verified" => c \in checkIns,
           \A t \in Tabs : importing'[t].gen # 0 => importing'[t] = importing[t],
           \A t \in Tabs : UndoOnlyWithdrawn(t)
    PROVE  OwnInv'
<1>1. CopiesAgree'
  BY DEF CopiesAgree, UndoOnlyWithdrawn
<1>2. CommittedImportIsYoungest'
  BY DEF OwnInv, CommittedImportIsYoungest
<1>3. OwnCheckInDisablesUndo'
  BY DEF OwnInv, OwnCheckInDisablesUndo, UndoOnlyWithdrawn
<1> QED
  BY <1>1, <1>2, <1>3 DEF OwnInv

(***************************************************************************)
(* A step that touches neither copy of any undo only withdraws.            *)
(***************************************************************************)
LEMMA UntouchedUndo ==
    ASSUME OwnInv, UNCHANGED <<undo, panel>>
    PROVE  \A t \in Tabs : UndoOnlyWithdrawn(t)
BY DEF OwnInv, CopiesAgree, UndoOnlyWithdrawn

(***************************************************************************)
(* Every step keeps a tab's own check-ins in force.                        *)
(***************************************************************************)
LEMMA OwnStep ==
    ASSUME TypeOK, OwnInv, [Next]_vars
    PROVE  OwnInv'
<1>0. /\ clock \in Nat /\ \A c \in checkIns : c.at \in Nat /\ c.tab \in Tabs
      /\ StampsArePast
  BY BoundAssumption DEF TypeOK, CheckIn, Stamps, OwnInv
<1>1. ASSUME NEW t, NEW k, NEW status, NEW isRetry, NEW replaced,
             WriteStatus(t, k, status, isRetry, replaced)
      PROVE  OwnInv'
  <2>1. /\ UNCHANGED <<undo, panel, importing>>
        /\ \A c \in checkIns' : c.phase = "verified" => c \in checkIns
    BY <1>1 DEF WriteStatus
  <2>2. StampsArePast'
    BY <1>0, <1>1 DEF WriteStatus, StampsArePast
  <2> QED
    BY <2>1, <2>2, UntouchedUndo, OwnQuietStep
<1>2. ASSUME NEW t \in Tabs, ApplyImport(t) PROVE OwnInv'
  <2>1. /\ \A u \in Tabs \ {t} : importing'[u] = importing[u]
        /\ importing'[t].gen = clock + 1
        /\ UNCHANGED <<undo, panel, checkIns>> /\ clock' = clock + 1
    BY <1>2 DEF ApplyImport, TypeOK
  <2>2. StampsArePast'
    BY <1>0, <2>1 DEF StampsArePast
  <2>3. CommittedImportIsYoungest'
    <3> SUFFICES ASSUME NEW u \in Tabs, importing'[u].gen # 0,
                        NEW c \in checkIns, c.phase = "verified", c.tab = u
                 PROVE  c.at <= importing'[u].gen
      BY <2>1 DEF CommittedImportIsYoungest
    <3>1. CASE u = t
      BY <1>0, <2>1, <3>1 DEF StampsArePast
    <3>2. CASE u # t
      BY <2>1, <3>2 DEF OwnInv, CommittedImportIsYoungest
    <3> QED
      BY <3>1, <3>2
  <2> QED
    BY <2>1, <2>2, <2>3 DEF OwnInv, CopiesAgree, OwnCheckInDisablesUndo
<1>3. ASSUME NEW t \in Tabs, StageUndo(t) PROVE OwnInv'
  <2>1. /\ \A u \in Tabs \ {t} : /\ importing'[u] = importing[u]
                                 /\ undo'[u] = undo[u] /\ panel'[u] = panel[u]
        /\ importing'[t].gen = 0 /\ importing[t].gen # 0
        /\ undo'[t].gen = importing[t].gen /\ panel'[t].gen = importing[t].gen
        /\ UNCHANGED <<checkIns, clock>>
    BY <1>3 DEF StageUndo, TypeOK, NoImport
  <2>2. StampsArePast' /\ CopiesAgree'
    BY <1>0, <2>1 DEF StampsArePast, OwnInv, CopiesAgree
  <2>3. CommittedImportIsYoungest'
    BY <2>1 DEF OwnInv, CommittedImportIsYoungest
  <2>4. \A c \in checkIns : c.phase = "verified" /\ c.tab = t
            => ~(c.at > undo'[t].gen)
    <3>1. importing[t].gen \in Nat
      BY DEF TypeOK, Committed
    <3> QED
      BY <1>0, <2>1, <3>1 DEF OwnInv, CommittedImportIsYoungest
  <2>5. OwnCheckInDisablesUndo'
    BY <2>1, <2>4 DEF OwnInv, OwnCheckInDisablesUndo
  <2> QED
    BY <2>2, <2>3, <2>5 DEF OwnInv
<1>4. ASSUME NEW t \in Tabs, UndoAccepted(t) \/ RestoreSnapshot(t) \/ UndoFails(t)
      PROVE  OwnInv'
  <2>1. UNCHANGED <<undo, panel, importing, checkIns, clock>>
    BY <1>4 DEF UndoAccepted, RestoreSnapshot, UndoFails
  <2> QED
    BY <2>1 DEF OwnInv, StampsArePast, CopiesAgree, CommittedImportIsYoungest,
       OwnCheckInDisablesUndo
<1>5. ASSUME NEW t \in Tabs, UndoCompletes(t) \/ Reload(t) PROVE OwnInv'
  <2>1. /\ \A u \in Tabs \ {t} : undo'[u] = undo[u] /\ panel'[u] = panel[u]
        /\ undo'[t].gen = 0 /\ panel'[t].gen = 0
        /\ \A u \in Tabs : importing'[u].gen # 0 => importing'[u] = importing[u]
    BY <1>5 DEF UndoCompletes, Reload, TypeOK, NoUndo, NoOffer, NoImport
  <2>2. /\ clock' = clock
        /\ \A c \in checkIns' : c.phase = "verified" => c \in checkIns
        /\ \A c \in checkIns' : \E d \in checkIns : c.at = d.at
    BY <1>5 DEF UndoCompletes, Reload, TypeOK, CheckIn
  <2>3. StampsArePast'
    BY <1>0, <2>2 DEF StampsArePast
  <2>4. \A u \in Tabs : UndoOnlyWithdrawn(u)
    BY <2>1 DEF OwnInv, CopiesAgree, UndoOnlyWithdrawn
  <2> QED
    BY <2>1, <2>2, <2>3, <2>4, OwnQuietStep
<1>6. ASSUME NEW c \in checkIns, NEW outcome, Finish(c, outcome), clock' = clock
      PROVE  StampsArePast'
  BY <1>0, <1>6, FinishFacts DEF StampsArePast
<1>7. ASSUME NEW c \in checkIns, VerifySucceeds(c) PROVE OwnInv'
  <2>1. /\ c.tab \in Tabs /\ undo[c.tab] \in Staged /\ panel[c.tab] \in Offer
        /\ importing[c.tab].gen = 0 /\ UNCHANGED <<importing, clock>>
        /\ Finish(c, "verified")
    BY <1>0, <1>7 DEF VerifySucceeds, HeardCommits, TypeOK
  <2>2. /\ \A t \in Tabs \ {c.tab} : undo'[t] = undo[t] /\ panel'[t] = panel[t]
        /\ undo'[c.tab] = InvalidatedUndo(undo[c.tab])
        /\ panel'[c.tab] = WithdrawnOffer(panel[c.tab])
    BY <1>7, <2>1 DEF VerifySucceeds, DispatchEntryWritten, TypeOK
  <2>3. /\ undo'[c.tab].gen = undo[c.tab].gen /\ panel'[c.tab].gen = panel[c.tab].gen
        /\ undo[c.tab].gen # 0 => undo'[c.tab].invalidated
        /\ panel[c.tab].gen # 0 => panel'[c.tab].invalidated
    BY <2>1, <2>2, InvalidatedUndoFacts, WithdrawnOfferFacts
  <2>4. \A d \in checkIns' : d \in checkIns \/ d.tab = c.tab
    BY <2>1, FinishFacts
  <2>5. StampsArePast'
    BY <1>6, <2>1
  <2>6. CopiesAgree'
    BY <2>2, <2>3 DEF OwnInv, CopiesAgree
  <2>7. CommittedImportIsYoungest'
    BY <2>1, <2>4 DEF OwnInv, CommittedImportIsYoungest
  <2>8. OwnCheckInDisablesUndo'
    <3> SUFFICES ASSUME NEW t \in Tabs, NEW d \in checkIns', d.phase = "verified",
                        d.tab = t, undo'[t].gen # 0, d.at > undo'[t].gen
                 PROVE  undo'[t].invalidated /\ panel'[t].invalidated
      BY DEF OwnCheckInDisablesUndo
    <3>1. CASE t = c.tab
      BY <2>3, <3>1 DEF OwnInv, CopiesAgree
    <3>2. CASE t # c.tab
      BY <2>2, <2>4, <3>2 DEF OwnInv, OwnCheckInDisablesUndo
    <3> QED
      BY <3>1, <3>2
  <2> QED
    BY <2>5, <2>6, <2>7, <2>8 DEF OwnInv
<1>8. ASSUME NEW c \in checkIns,
             VerifyMismatches(c) \/ VerifyStalls(c) \/ VerifyFindsClosed(c)
             \/ RetryFails(c)
      PROVE  OwnInv'
  <2>1. PICK outcome \in {"failed", "closed"} : Finish(c, outcome)
    BY <1>8 DEF VerifyMismatches, VerifyStalls, VerifyFindsClosed, RetryFails
  <2>2. UNCHANGED <<importing, clock, undo, panel>>
    BY <1>8 DEF VerifyMismatches, VerifyStalls, VerifyFindsClosed, RetryFails
  <2>3. \A d \in checkIns' : d.phase = "verified" => d \in checkIns
    BY <2>1, FinishFacts
  <2> QED
    BY <1>6, <2>1, <2>2, <2>3, UntouchedUndo, OwnQuietStep
<1>9. ASSUME NEW m \in channel, Hears(m) PROVE OwnInv'
  <2>1. /\ m.to \in Tabs /\ undo[m.to] \in Staged /\ panel[m.to] \in Offer
        /\ UNCHANGED <<importing, clock, checkIns>>
    BY <1>9 DEF Hears, ServiceHears, PanelHears, Receivable, TypeOK, Message
  <2>2. /\ undo' = undo \/ undo' = [undo EXCEPT ![m.to] = InvalidatedUndo(@)]
        /\ panel' = panel \/ panel' = [panel EXCEPT ![m.to] = WithdrawnOffer(@)]
    BY <1>9 DEF Hears, ServiceHears, PanelHears
  <2>3. /\ \A t \in Tabs \ {m.to} : undo'[t] = undo[t] /\ panel'[t] = panel[t]
        /\ undo'[m.to] \in {undo[m.to], InvalidatedUndo(undo[m.to])}
        /\ panel'[m.to] \in {panel[m.to], WithdrawnOffer(panel[m.to])}
    BY <2>1, <2>2 DEF TypeOK
  <2>4. /\ undo'[m.to].gen = undo[m.to].gen /\ panel'[m.to].gen = panel[m.to].gen
        /\ undo[m.to].gen # 0 /\ undo[m.to].invalidated => undo'[m.to].invalidated
        /\ panel[m.to].gen # 0 /\ panel[m.to].invalidated => panel'[m.to].invalidated
    BY <2>1, <2>3, InvalidatedUndoFacts, WithdrawnOfferFacts
  <2>5. \A t \in Tabs : UndoOnlyWithdrawn(t)
    BY <2>3, <2>4 DEF OwnInv, CopiesAgree, UndoOnlyWithdrawn
  <2>6. StampsArePast'
    BY <1>0, <2>1 DEF StampsArePast
  <2> QED
    BY <2>1, <2>5, <2>6, OwnQuietStep
<1>10. CASE UNCHANGED vars
  BY <1>10 DEF vars, OwnInv, StampsArePast, CopiesAgree, CommittedImportIsYoungest,
     OwnCheckInDisablesUndo
<1> QED
  BY <1>1, <1>2, <1>3, <1>4, <1>5, <1>7, <1>8, <1>9, <1>10
  DEF Next, CheckInStep, UndoStep, SetDailyStatus, RetryCheckIn

(***************************************************************************)
(* A tab's own verified check-ins disable its undo, in the service and in  *)
(* the panel, whatever becomes of the announcements and whoever shares the *)
(* tab's id.                                                               *)
(***************************************************************************)
THEOREM OwnCheckInReachesUndo == Spec => []OwnCheckInDisablesUndo
<1>1. Init => OwnInv
  BY DEF Init, OwnInv, StampsArePast, CopiesAgree, CommittedImportIsYoungest,
     OwnCheckInDisablesUndo, NoUndo, NoOffer, NoImport
<1>2. TypeOK /\ OwnInv /\ [Next]_vars => OwnInv'
  BY OwnStep
<1>3. OwnInv => OwnCheckInDisablesUndo
  BY DEF OwnInv
<1> QED
  BY <1>1, <1>2, <1>3, TypeCorrect, PTL DEF Spec

-------------------------------------------------------------------------------
(* The refinement of the ledger.                                           *)

(***************************************************************************)
(* The ledger's notion of a table and of an import is this module's.       *)
(***************************************************************************)
LEMMA LedgerWords ==
    /\ Ledger!Table = Table /\ Ledger!NoRow = NoRow
    /\ Ledger!ImportModes = ImportModes
    /\ \A table, p, mode : Ledger!ImportResult(table, p, mode) = ImportResult(table, p, mode)
BY DEF Ledger!Table, Table, Ledger!Row, Row, Ledger!UiStatuses, UiStatuses,
   Ledger!NoRow, NoRow, Ledger!ImportModes, ImportModes, Ledger!ImportResult,
   ImportResult, Ledger!FileRow, FileRow

(***************************************************************************)
(* What a tab holds, part by part.                                         *)
(***************************************************************************)
Holds(t, s) ==
    \/ importing[t].gen # 0 /\ s = importing[t].snapshot
    \/ undo[t].gen # 0 /\ s = undo[t].snapshot
    \/ undoing[t].gen # 0 /\ s = undoing[t].snapshot

(***************************************************************************)
(* The parts are all of it.                                                *)
(***************************************************************************)
LEMMA HeldByPart ==
    \A t, s : s \in HeldSnapshots(t) <=> Holds(t, s)
BY DEF HeldSnapshots, Holds

(***************************************************************************)
(* The same of the state a step leads to.                                  *)
(***************************************************************************)
LEMMA HeldByPartLater ==
    \A t, s : s \in HeldSnapshots(t)' <=> Holds(t, s)'
BY DEF HeldSnapshots, Holds

(***************************************************************************)
(* Every stamp in the table and in what is held was drawn already, so that *)
(* a check-in's row is newer than all others also after an undo.           *)
(***************************************************************************)
Past(table) == \A k \in Keys : table[k].at <= clock

RowsArePast ==
    /\ Past(store)
    /\ \A t \in Tabs : /\ Past(importing[t].snapshot)
                       /\ Past(undo[t].snapshot)
                       /\ Past(undoing[t].snapshot)

(***************************************************************************)
(* A step that draws no stamp moves tables about.                          *)
(***************************************************************************)
LEMMA PastStable ==
    ASSUME RowsArePast, clock' = clock,
           Past(store'),
           \A t \in Tabs :
               /\ importing'[t].snapshot \in {EmptyTable, importing[t].snapshot}
               /\ undo'[t].snapshot
                      \in {EmptyTable, undo[t].snapshot, importing[t].snapshot}
               /\ undoing'[t].snapshot
                      \in {EmptyTable, undoing[t].snapshot, undo[t].snapshot},
           clock \in Nat
    PROVE  RowsArePast'
<1>1. Past(EmptyTable)
  BY DEF Past, EmptyTable, NoRow
<1> QED
  BY <1>1 DEF RowsArePast, Past

(***************************************************************************)
(* The steps that neither write the table nor give or take a snapshot: the *)
(* most that happens to an undo is that it is invalidated.                 *)
(***************************************************************************)
HeldInPlace ==
    /\ UNCHANGED <<store, clock, importing, undoing>>
    /\ \A t \in Tabs : /\ undo'[t].gen = undo[t].gen
                       /\ undo'[t].snapshot = undo[t].snapshot

(***************************************************************************)
(* A read-back, however it ends, is such a step.                           *)
(***************************************************************************)
LEMMA VerifyHoldsInPlace ==
    ASSUME TypeOK, NEW c \in checkIns,
           \/ VerifySucceeds(c) \/ VerifyMismatches(c) \/ VerifyStalls(c)
           \/ VerifyFindsClosed(c) \/ RetryFails(c)
    PROVE  HeldInPlace
<1>1. CASE VerifySucceeds(c)
  <2>1. c.tab \in Tabs /\ undo[c.tab] \in Staged
    BY DEF TypeOK, CheckIn
  <2>2. /\ undo' = [undo EXCEPT ![c.tab] = InvalidatedUndo(@)]
        /\ UNCHANGED <<store, clock, importing, undoing>>
    BY <1>1 DEF VerifySucceeds, DispatchEntryWritten
  <2> QED
    BY <2>1, <2>2, InvalidatedUndoFacts DEF HeldInPlace, TypeOK
<1>2. CASE \/ VerifyMismatches(c) \/ VerifyStalls(c) \/ VerifyFindsClosed(c)
           \/ RetryFails(c)
  BY <1>2 DEF VerifyMismatches, VerifyStalls, VerifyFindsClosed, RetryFails,
     HeldInPlace
<1> QED
  BY <1>1, <1>2

(***************************************************************************)
(* So is the arrival of an announcement.                                   *)
(***************************************************************************)
LEMMA HearingHoldsInPlace ==
    ASSUME TypeOK, NEW m \in channel, Hears(m)
    PROVE  HeldInPlace
<1>1. m.to \in Tabs /\ undo[m.to] \in Staged
  BY DEF TypeOK, Message
<1>2. /\ undo' = undo \/ undo' = [undo EXCEPT ![m.to] = InvalidatedUndo(@)]
      /\ UNCHANGED <<store, clock, importing, undoing>>
  BY DEF Hears, ServiceHears, PanelHears, Receivable
<1> QED
  BY <1>1, <1>2, InvalidatedUndoFacts DEF HeldInPlace, TypeOK

(***************************************************************************)
(* Every step keeps the stamps past.                                       *)
(***************************************************************************)
LEMMA PastStep ==
    ASSUME TypeOK, RowsArePast, [Next]_vars
    PROVE  RowsArePast'
<1>0. /\ clock \in Nat /\ store \in Table
      /\ \A t \in Tabs : /\ importing[t] \in Committed
                         /\ undo[t] \in Staged /\ undoing[t] \in Restore
  BY BoundAssumption DEF TypeOK
<1>1. ASSUME clock' = clock + 1, NEW table \in Table, Past(table)
      PROVE  \A k \in Keys : table[k].at <= clock'
  BY <1>0, <1>1 DEF Past, Table, Row
<1>2. ASSUME NEW t, NEW k \in Keys, NEW status \in UiStatuses, NEW isRetry,
             NEW replaced, WriteStatus(t, k, status, isRetry, replaced)
      PROVE  RowsArePast'
  <2>1. /\ clock' = clock + 1 /\ UNCHANGED <<importing, undo, undoing>>
        /\ store' = [store EXCEPT ![k] = WrittenRow(status, clock + 1)]
    BY <1>2 DEF WriteStatus
  <2>2. WrittenRow(status, clock + 1).at <= clock'
    BY <1>0, <2>1 DEF WrittenRow, NoRow
  <2>3. \A j \in Keys : store'[j].at <= clock'
    <3>1. \A j \in Keys : store[j].at <= clock'
      BY <1>0, <1>1, <2>1 DEF RowsArePast
    <3> QED
      BY <1>0, <2>1, <2>2, <3>1 DEF Table
  <2>4. \A u \in Tabs, j \in Keys : /\ importing'[u].snapshot[j].at <= clock'
                                    /\ undo'[u].snapshot[j].at <= clock'
                                    /\ undoing'[u].snapshot[j].at <= clock'
    BY <1>0, <1>1, <2>1 DEF RowsArePast, Committed, Staged, Restore
  <2> QED
    BY <2>3, <2>4 DEF RowsArePast, Past
<1>3. ASSUME NEW t \in Tabs, ApplyImport(t) PROVE RowsArePast'
  <2>1. PICK p \in Payloads, mode \in ImportModes :
            store' = ImportResult(store, p, mode)
    BY <1>3 DEF ApplyImport
  <2>2. /\ clock' = clock + 1 /\ UNCHANGED <<undo, undoing>>
        /\ \A u \in Tabs : importing'[u].snapshot \in {importing[u].snapshot, store}
    BY <1>3 DEF ApplyImport, TypeOK
  <2>3. \A k \in Keys : store'[k].at \in {0, store[k].at}
    BY <2>1 DEF ImportResult, FileRow, NoRow
  <2>4. \A k \in Keys : store'[k].at <= clock'
    BY <1>0, <1>1, <2>2, <2>3 DEF RowsArePast
  <2>5. \A u \in Tabs, k \in Keys : /\ importing'[u].snapshot[k].at <= clock'
                                    /\ undo'[u].snapshot[k].at <= clock'
                                    /\ undoing'[u].snapshot[k].at <= clock'
    BY <1>0, <1>1, <2>2 DEF RowsArePast, Committed, Staged, Restore
  <2> QED
    BY <2>4, <2>5 DEF RowsArePast, Past
<1>4. CASE HeldInPlace
  BY <1>0, <1>4 DEF HeldInPlace, RowsArePast, Past
<1>5. ASSUME NEW t \in Tabs,
             \/ StageUndo(t) \/ UndoAccepted(t) \/ UndoStep(t) \/ Reload(t)
      PROVE  RowsArePast'
  <2>1. clock' = clock /\ (store' = store \/ store' = undoing[t].snapshot)
    BY <1>5 DEF StageUndo, UndoAccepted, UndoStep, RestoreSnapshot, UndoCompletes,
       UndoFails, Reload
  <2>2. \A u \in Tabs : importing'[u].snapshot \in {EmptyTable, importing[u].snapshot}
    BY <1>5 DEF StageUndo, UndoAccepted, UndoStep, RestoreSnapshot, UndoCompletes,
       UndoFails, Reload, NoImport, TypeOK
  <2>3. \A u \in Tabs : undo'[u].snapshot
            \in {EmptyTable, undo[u].snapshot, importing[u].snapshot}
    BY <1>5 DEF StageUndo, UndoAccepted, UndoStep, RestoreSnapshot, UndoCompletes,
       UndoFails, Reload, NoUndo, TypeOK
  <2>4. \A u \in Tabs : undoing'[u].snapshot
            \in {EmptyTable, undoing[u].snapshot, undo[u].snapshot}
    BY <1>0, <1>5 DEF StageUndo, UndoAccepted, UndoStep, RestoreSnapshot, UndoCompletes,
       UndoFails, Reload, NoRestore, TypeOK, Restore
  <2>5. Past(store')
    BY <2>1 DEF RowsArePast
  <2> QED
    BY <1>0, <2>1, <2>2, <2>3, <2>4, <2>5, PastStable
<1>6. CASE UNCHANGED vars
  BY <1>6, <1>4 DEF vars, HeldInPlace
<1>7. ASSUME NEW c \in checkIns, CheckInStep(c) PROVE RowsArePast'
  <2>1. c.key \in Keys /\ c.row.status \in UiStatuses
    BY DEF TypeOK, CheckIn, Row
  <2> QED
    BY <1>2, <1>4, <1>7, <2>1, VerifyHoldsInPlace DEF CheckInStep, RetryCheckIn
<1> QED
  BY <1>2, <1>3, <1>4, <1>5, <1>6, <1>7, HearingHoldsInPlace DEF Next, SetDailyStatus

(***************************************************************************)
(* Leaving the snapshots in place leaves the ledger alone.                 *)
(***************************************************************************)
LEMMA HeldInPlaceStutters ==
    ASSUME HeldInPlace
    PROVE  UNCHANGED Ledger!ledgerVars
<1>1. ASSUME NEW t \in Tabs PROVE HeldSnapshots(t)' = HeldSnapshots(t)
  <2>1. \A s : Holds(t, s)' <=> Holds(t, s)
    BY DEF HeldInPlace, Holds
  <2> QED
    BY <2>1, HeldByPart, HeldByPartLater
<1> QED
  BY <1>1 DEF HeldInPlace, Ledger!ledgerVars

(***************************************************************************)
(* What happens to the snapshots of one tab only is what the ledger lets   *)
(* happen to them.                                                         *)
(***************************************************************************)
LEMMA HeldChanges ==
    ASSUME NEW t \in Tabs, NEW more,
           \A u \in Tabs \ {t} : /\ importing'[u] = importing[u]
                                 /\ undo'[u] = undo[u] /\ undoing'[u] = undoing[u],
           \A s : Holds(t, s)' => Holds(t, s) \/ s \in more
    PROVE  \E held \in SUBSET (HeldSnapshots(t) \cup more) :
               [u \in Tabs |-> HeldSnapshots(u)]'
                   = [[u \in Tabs |-> HeldSnapshots(u)] EXCEPT ![t] = held]
<1>1. HeldSnapshots(t)' \subseteq HeldSnapshots(t) \cup more
  BY HeldByPart, HeldByPartLater
<1>2. ASSUME NEW u \in Tabs \ {t} PROVE HeldSnapshots(u)' = HeldSnapshots(u)
  <2>1. \A s : Holds(u, s)' <=> Holds(u, s)
    BY DEF Holds
  <2> QED
    BY <2>1, HeldByPart, HeldByPartLater
<1> QED
  BY <1>1, <1>2

(***************************************************************************)
(* Every step of the tabs is a step of the ledger, or changes nothing      *)
(* there.                                                                  *)
(***************************************************************************)
LEMMA LedgerStep ==
    ASSUME TypeOK, TypeOK', RowsArePast, [Next]_vars
    PROVE  [Ledger!LedgerNext]_(Ledger!ledgerVars)
<1> DEFINE Rollback == [u \in Tabs |-> HeldSnapshots(u)]
<1>0. /\ clock \in Nat /\ store \in Table /\ store' \in Table
      /\ \A t \in Tabs : /\ importing[t] \in Committed
                         /\ undo[t] \in Staged /\ undoing[t] \in Restore
  BY BoundAssumption DEF TypeOK
<1>1. ASSUME NEW t, NEW k \in Keys, NEW status \in UiStatuses, NEW isRetry,
             NEW replaced, WriteStatus(t, k, status, isRetry, replaced)
      PROVE  Ledger!RewriteOneRow
  <2>1. /\ UNCHANGED <<importing, undo, undoing>>
        /\ store' = [store EXCEPT ![k] = WrittenRow(status, clock + 1)]
    BY <1>1 DEF WriteStatus
  <2>2. \A other \in Keys \ {k} : store'[other] = store[other]
    BY <1>0, <2>1 DEF Table
  <2>3. store'[k] = NoRow \/ store'[k].at = clock + 1
    BY <1>0, <2>1 DEF Table, WrittenRow
  <2>4. store'[k] = NoRow \/ \A old \in Keys : store'[k].at > store[old].at
    BY <1>0, <2>3 DEF RowsArePast, Past, Table, Row
  <2>5. Rollback' = Rollback
    BY <2>1 DEF HeldSnapshots
  <2> QED
    BY <1>0, <2>2, <2>4, <2>5, LedgerWords DEF Ledger!RewriteOneRow
<1>2. ASSUME NEW t \in Tabs, ApplyImport(t) PROVE Ledger!ImportFile(t)
  <2>1. PICK p \in Payloads, mode \in ImportModes :
            store' = ImportResult(store, p, mode)
    BY <1>2 DEF ApplyImport
  <2>2. /\ UNCHANGED <<undo, undoing>> /\ importing[t].gen = 0
        /\ \A u \in Tabs \ {t} : importing'[u] = importing[u]
        /\ importing'[t].snapshot = store
    BY <1>2 DEF ApplyImport, HeardCommits, TypeOK
  <2>3. \A s : Holds(t, s)' => Holds(t, s) \/ s \in {store}
    BY <2>2 DEF Holds
  <2>4. \E held \in SUBSET (HeldSnapshots(t) \cup {store}) :
            Rollback' = [Rollback EXCEPT ![t] = held]
    BY <2>2, <2>3, HeldChanges
  <2>5. Rollback[t] = HeldSnapshots(t)
    OBVIOUS
  <2> QED
    BY <2>1, <2>4, <2>5, LedgerWords DEF Ledger!ImportFile
<1>3. ASSUME NEW t \in Tabs, RestoreSnapshot(t) PROVE Ledger!RollBack(t)
  <2>1. /\ undoing[t].gen # 0 /\ store' = undoing[t].snapshot
        /\ UNCHANGED <<importing, undo>>
        /\ \A u \in Tabs : /\ undoing'[u].gen = undoing[u].gen
                           /\ undoing'[u].snapshot = undoing[u].snapshot
    BY <1>0, <1>3 DEF RestoreSnapshot, Restore, TypeOK
  <2>2. store' \in HeldSnapshots(t)
    BY <2>1, HeldByPart DEF Holds
  <2>3. ASSUME NEW u \in Tabs PROVE HeldSnapshots(u)' = HeldSnapshots(u)
    <3>1. \A s : Holds(u, s)' <=> Holds(u, s)
      BY <2>1 DEF Holds
    <3> QED
      BY <3>1, HeldByPart, HeldByPartLater
  <2>4. Rollback' = Rollback
    BY <2>3
  <2> QED
    BY <2>2, <2>4 DEF Ledger!RollBack
<1>4. ASSUME NEW t \in Tabs,
             \/ StageUndo(t) \/ UndoAccepted(t) \/ UndoCompletes(t)
             \/ UndoFails(t) \/ Reload(t)
      PROVE  Ledger!Forget(t)
  <2>1. /\ store' = store
        /\ \A u \in Tabs \ {t} : /\ importing'[u] = importing[u]
                                 /\ undo'[u] = undo[u] /\ undoing'[u] = undoing[u]
    BY <1>4 DEF StageUndo, UndoAccepted, UndoCompletes, UndoFails, Reload, TypeOK
  <2>2. \A s : Holds(t, s)' => Holds(t, s)
    <3>1. CASE StageUndo(t)
      BY <3>1 DEF StageUndo, NoImport, TypeOK, Holds
    <3>2. CASE UndoAccepted(t)
      BY <3>2 DEF UndoAccepted, TypeOK, Holds
    <3>3. CASE UndoCompletes(t)
      BY <3>3 DEF UndoCompletes, NoUndo, NoRestore, TypeOK, Holds
    <3>4. CASE UndoFails(t)
      BY <3>4 DEF UndoFails, NoRestore, TypeOK, Holds
    <3>5. CASE Reload(t)
      BY <3>5 DEF Reload, NoImport, NoUndo, NoRestore, TypeOK, Holds
    <3> QED
      BY <1>4, <3>1, <3>2, <3>3, <3>4, <3>5
  <2>3. \E held \in SUBSET (HeldSnapshots(t) \cup {}) :
            Rollback' = [Rollback EXCEPT ![t] = held]
    BY <2>1, <2>2, HeldChanges
  <2>4. Rollback[t] = HeldSnapshots(t)
    OBVIOUS
  <2> QED
    BY <2>1, <2>3, <2>4 DEF Ledger!Forget
<1>5. CASE HeldInPlace
  BY <1>5, HeldInPlaceStutters
<1>6. CASE UNCHANGED vars
  BY <1>6, HeldInPlaceStutters DEF vars, HeldInPlace
<1>7. ASSUME NEW c \in checkIns, CheckInStep(c) PROVE Ledger!RewriteOneRow \/ HeldInPlace
  <2>1. c.key \in Keys /\ c.row.status \in UiStatuses
    BY DEF TypeOK, CheckIn, Row
  <2> QED
    BY <1>1, <1>7, <2>1, VerifyHoldsInPlace DEF CheckInStep, RetryCheckIn
<1> HIDE DEF Rollback
<1> QED
  BY <1>1, <1>2, <1>3, <1>4, <1>5, <1>6, <1>7, HearingHoldsInPlace
  DEF Next, UndoStep, SetDailyStatus, Ledger!LedgerNext

(***************************************************************************)
(* The tabs implement the ledger, however many there are and however their *)
(* check-ins, imports, undos and reloads overlap: the table changes by     *)
(* whole transactions, a new row is newer than all others, and an undo     *)
(* brings back what the table held just before an import of that tab.      *)
(***************************************************************************)
THEOREM TabsImplementLedger == Spec => StoreFollowsLedger
<1>1. Init => Ledger!LedgerInit /\ RowsArePast
  <2> SUFFICES ASSUME Init PROVE Ledger!LedgerInit /\ RowsArePast
    OBVIOUS
  <2>1. PICK p \in Payloads : store = ImportResult(EmptyTable, p, "replace")
    BY DEF Init
  <2>2. store \in Table
    BY <2>1, ImportResultType, EmptyTableType, PayloadAssumption
  <2>3. \A t \in Tabs : HeldSnapshots(t) = {}
    BY DEF Init, HeldSnapshots, NoImport, NoUndo, NoRestore
  <2>4. Past(store)
    <3>1. \A k \in Keys : store[k].at = 0
      BY <2>1 DEF ImportResult, FileRow, NoRow
    <3>2. clock = 0
      BY DEF Init
    <3>3. ASSUME NEW k \in Keys PROVE store[k].at <= clock
      <4>1. store[k].at = 0 /\ 0 <= 0
        BY <3>1
      <4> QED
        BY <3>2, <4>1, Zenon
    <3> QED
      BY <3>3 DEF Past
  <2>5. \A t \in Tabs : Past(importing[t].snapshot) /\ Past(undo[t].snapshot)
                        /\ Past(undoing[t].snapshot)
    BY DEF Init, Past, NoImport, NoUndo, NoRestore, EmptyTable, NoRow
  <2> QED
    BY <2>2, <2>3, <2>4, <2>5, LedgerWords DEF Ledger!LedgerInit, RowsArePast
<1>2. TypeOK /\ RowsArePast /\ [Next]_vars => RowsArePast'
  BY PastStep
<1>3. TypeOK /\ TypeOK' /\ RowsArePast /\ [Next]_vars
          => [Ledger!LedgerNext]_(Ledger!ledgerVars)
  BY LedgerStep
<1> QED
  BY <1>1, <1>2, <1>3, TypeCorrect, PTL DEF Spec, StoreFollowsLedger, Ledger!LedgerSpec

-------------------------------------------------------------------------------
(* One write per stamp.                                                    *)

(***************************************************************************)
(* The stamps of the imports that a tab has committed, staged or is        *)
(* undoing; 0 stands for none.                                             *)
(***************************************************************************)
Gens(t) == {importing[t].gen, undo[t].gen, undoing[t].gen}

OneCheckInPerStamp == \A c, d \in checkIns : c.at = d.at => c = d

NoStampForBoth == \A c \in checkIns, t \in Tabs : c.at \notin Gens(t)

OneTabPerImport ==
    \A t, u \in Tabs : t # u => Gens(t) \cap Gens(u) \subseteq {0}

(***************************************************************************)
(* Within a tab: what is staged is never the import just committed, and an *)
(* undo in progress that is still the staged one writes what is staged.    *)
(***************************************************************************)
CommittedIsNotStaged ==
    \A t \in Tabs : importing[t].gen # 0
                       => importing[t].gen \notin {undo[t].gen, undoing[t].gen}

SameImportSameSnapshot ==
    \A t \in Tabs : undo[t].gen = undoing[t].gen /\ undo[t].gen # 0
                       => undo[t].snapshot = undoing[t].snapshot

(***************************************************************************)
(* A stamp names one write: one check-in, or one import of one tab with    *)
(* one snapshot.  The code compares undo snapshots by the identity of      *)
(* their array (restoreUndoSnapshot); this is what lets the stamp of the   *)
(* import stand for it, and what makes "later stamp" mean "later write".   *)
(***************************************************************************)
OneWritePerStamp ==
    /\ OneCheckInPerStamp /\ NoStampForBoth /\ OneTabPerImport
    /\ CommittedIsNotStaged /\ SameImportSameSnapshot

GensArePast == \A t \in Tabs : \A g \in Gens(t) : g <= clock

StampInv == StampsArePast /\ GensArePast /\ OneWritePerStamp

(***************************************************************************)
(* A step that draws no stamp keeps the stamps apart if it brings no new   *)
(* ones into play.                                                         *)
(***************************************************************************)
LEMMA StampsStable ==
    ASSUME TypeOK, StampInv, clock' = clock,
           \A t \in Tabs : Gens(t)' \subseteq Gens(t) \cup {0},
           \A d \in checkIns' : \E c \in checkIns : c.at = d.at,
           OneCheckInPerStamp', CommittedIsNotStaged', SameImportSameSnapshot'
    PROVE  StampInv'
<1>0. clock \in Nat /\ \A c \in checkIns : c.at # 0
  BY BoundAssumption DEF TypeOK, CheckIn, Stamps
<1>1. StampsArePast'
  BY DEF StampInv, StampsArePast
<1>2. GensArePast'
  BY <1>0 DEF StampInv, GensArePast
<1>3. NoStampForBoth'
  BY <1>0 DEF StampInv, OneWritePerStamp, NoStampForBoth
<1>4. OneTabPerImport'
  BY DEF StampInv, OneWritePerStamp, OneTabPerImport
<1> QED
  BY <1>1, <1>2, <1>3, <1>4 DEF StampInv, OneWritePerStamp

(***************************************************************************)
(* Giving an outcome to a check-in keeps its stamp its own.                *)
(***************************************************************************)
LEMMA FinishKeepsStamps ==
    ASSUME TypeOK, OneCheckInPerStamp, NEW c \in checkIns, NEW outcome,
           Finish(c, outcome)
    PROVE  /\ OneCheckInPerStamp'
           /\ \A d \in checkIns' : \E e \in checkIns : e.at = d.at
<1>1. [c EXCEPT !.phase = outcome].at = c.at
  BY DEF TypeOK, CheckIn
<1>2. \A d \in checkIns' : \/ d \in checkIns /\ d.at # c.at
                           \/ d = [c EXCEPT !.phase = outcome]
  BY DEF Finish, OneCheckInPerStamp
<1> QED
  BY <1>1, <1>2 DEF OneCheckInPerStamp

(***************************************************************************)
(* Every step keeps the stamps apart.                                      *)
(***************************************************************************)
LEMMA StampStep ==
    ASSUME TypeOK, StampInv, [Next]_vars
    PROVE  StampInv'
<1>0. /\ clock \in Nat
      /\ \A c \in checkIns : c.at \in Nat /\ c.at # 0 /\ c.at <= clock
      /\ \A t \in Tabs : Gens(t) \subseteq Nat
      /\ \A t \in Tabs : \A g \in Gens(t) : g <= clock
      /\ clock + 1 \notin {c.at : c \in checkIns}
      /\ \A t \in Tabs : clock + 1 \notin Gens(t)
  <2>1. /\ clock \in Nat
        /\ \A c \in checkIns : c.at \in Nat /\ c.at # 0 /\ c.at <= clock
        /\ \A t \in Tabs : Gens(t) \subseteq Nat
        /\ \A t \in Tabs : \A g \in Gens(t) : g <= clock
    BY BoundAssumption DEF TypeOK, CheckIn, Stamps, StampInv, StampsArePast,
       GensArePast, Gens, Committed, Staged, Restore
  <2> QED
    BY <2>1
<1> USE DEF StampInv, OneWritePerStamp
<1>1. ASSUME NEW t, NEW k, NEW status, NEW isRetry, NEW replaced,
             WriteStatus(t, k, status, isRetry, replaced)
      PROVE  StampInv'
  <2>1. /\ clock' = clock + 1 /\ UNCHANGED <<importing, undo, undoing>>
        /\ \E new : new.at = clock + 1 /\ checkIns' \subseteq checkIns \cup {new}
    BY <1>1 DEF WriteStatus
  <2>2. \A u \in Tabs : Gens(u)' = Gens(u)
    BY <2>1 DEF Gens
  <2>3. StampsArePast' /\ GensArePast'
    BY <1>0, <2>1, <2>2 DEF StampsArePast, GensArePast
  <2>4. OneCheckInPerStamp' /\ NoStampForBoth'
    BY <1>0, <2>1, <2>2 DEF OneCheckInPerStamp, NoStampForBoth
  <2>5. OneTabPerImport' /\ CommittedIsNotStaged' /\ SameImportSameSnapshot'
    BY <2>1, <2>2 DEF OneTabPerImport, CommittedIsNotStaged, SameImportSameSnapshot
  <2> QED
    BY <2>3, <2>4, <2>5
<1>2. ASSUME NEW t \in Tabs, ApplyImport(t) PROVE StampInv'
  <2>1. /\ clock' = clock + 1 /\ UNCHANGED <<checkIns, undo, undoing>>
        /\ \A u \in Tabs \ {t} : importing'[u] = importing[u]
        /\ importing'[t].gen = clock + 1
    BY <1>2 DEF ApplyImport, TypeOK
  <2>2. /\ \A u \in Tabs \ {t} : Gens(u)' = Gens(u)
        /\ Gens(t)' \subseteq Gens(t) \cup {clock + 1}
    BY <2>1 DEF Gens
  <2>3. StampsArePast' /\ GensArePast'
    BY <1>0, <2>1, <2>2 DEF StampsArePast, GensArePast
  <2>4. OneCheckInPerStamp' /\ NoStampForBoth' /\ OneTabPerImport'
    BY <1>0, <2>1, <2>2 DEF OneCheckInPerStamp, NoStampForBoth, OneTabPerImport
  <2>5. CommittedIsNotStaged' /\ SameImportSameSnapshot'
    BY <1>0, <2>1 DEF Gens, CommittedIsNotStaged, SameImportSameSnapshot
  <2> QED
    BY <2>3, <2>4, <2>5
<1>3. ASSUME NEW t \in Tabs, StageUndo(t) PROVE StampInv'
  <2>1. /\ UNCHANGED <<clock, checkIns, undoing>>
        /\ \A u \in Tabs \ {t} : importing'[u] = importing[u] /\ undo'[u] = undo[u]
        /\ importing[t].gen # 0 /\ importing'[t].gen = 0
        /\ undo'[t].gen = importing[t].gen
    BY <1>3 DEF StageUndo, TypeOK, NoImport
  <2>2. \A u \in Tabs : Gens(u)' \subseteq Gens(u) \cup {0}
    BY <2>1 DEF Gens
  <2>3. /\ OneCheckInPerStamp' /\ CommittedIsNotStaged' /\ SameImportSameSnapshot'
        /\ \A d \in checkIns' : \E c \in checkIns : c.at = d.at
    BY <2>1 DEF OneCheckInPerStamp, CommittedIsNotStaged, SameImportSameSnapshot
  <2> QED
    BY <2>1, <2>2, <2>3, StampsStable
<1>4. ASSUME NEW t \in Tabs, UndoAccepted(t) \/ UndoStep(t) PROVE StampInv'
  <2>1. /\ UNCHANGED <<clock, checkIns, importing>>
        /\ \A u \in Tabs \ {t} : undo'[u] = undo[u] /\ undoing'[u] = undoing[u]
    BY <1>4 DEF UndoAccepted, UndoStep, RestoreSnapshot, UndoCompletes, UndoFails,
       TypeOK
  <2>2. /\ undo'[t] = undo[t] \/ undo'[t].gen = 0
        /\ \/ undoing'[t].gen = 0
           \/ /\ undoing'[t].gen = undo[t].gen /\ undo'[t] = undo[t]
              /\ undoing'[t].snapshot = undo[t].snapshot
           \/ /\ undoing'[t].gen = undoing[t].gen
              /\ undoing'[t].snapshot = undoing[t].snapshot
    BY <1>4 DEF UndoAccepted, UndoStep, RestoreSnapshot, UndoCompletes, UndoFails,
       TypeOK, Restore, NoUndo, NoRestore
  <2>3. \A u \in Tabs : Gens(u)' \subseteq Gens(u) \cup {0}
    BY <2>1, <2>2 DEF Gens
  <2>4. /\ OneCheckInPerStamp' /\ CommittedIsNotStaged' /\ SameImportSameSnapshot'
        /\ \A d \in checkIns' : \E c \in checkIns : c.at = d.at
    BY <2>1, <2>2 DEF OneCheckInPerStamp, CommittedIsNotStaged, SameImportSameSnapshot
  <2> QED
    BY <2>1, <2>3, <2>4, StampsStable
<1>5. ASSUME NEW t \in Tabs, Reload(t) PROVE StampInv'
  <2> DEFINE now(c) == IF c.tab = t /\ c.phase \in {"verifying", "closed"}
                       THEN [c EXCEPT !.phase = "abandoned"] ELSE c
  <2>1. checkIns' = {now(c) : c \in checkIns} /\ \A c \in checkIns : now(c).at = c.at
    BY <1>5 DEF Reload, TypeOK, CheckIn
  <2> HIDE DEF now
  <2>2. /\ OneCheckInPerStamp'
        /\ \A d \in checkIns' : \E c \in checkIns : c.at = d.at
    BY <2>1 DEF OneCheckInPerStamp
  <2>3. /\ clock' = clock
        /\ \A u \in Tabs \ {t} : /\ importing'[u] = importing[u]
                                 /\ undo'[u] = undo[u] /\ undoing'[u] = undoing[u]
        /\ importing'[t].gen = 0 /\ undo'[t].gen = 0 /\ undoing'[t].gen = 0
    BY <1>5 DEF Reload, TypeOK, NoImport, NoUndo, NoRestore
  <2>4. \A u \in Tabs : Gens(u)' \subseteq Gens(u) \cup {0}
    BY <2>3 DEF Gens
  <2>5. CommittedIsNotStaged' /\ SameImportSameSnapshot'
    BY <2>3 DEF CommittedIsNotStaged, SameImportSameSnapshot
  <2> QED
    BY <2>2, <2>3, <2>4, <2>5, StampsStable
<1>6. ASSUME HeldInPlace, OneCheckInPerStamp',
             \A d \in checkIns' : \E c \in checkIns : c.at = d.at
      PROVE  StampInv'
  <2>1. /\ clock' = clock /\ \A u \in Tabs : Gens(u)' \subseteq Gens(u) \cup {0}
        /\ CommittedIsNotStaged' /\ SameImportSameSnapshot'
    BY <1>6 DEF HeldInPlace, Gens, CommittedIsNotStaged, SameImportSameSnapshot
  <2> QED
    BY <1>6, <2>1, StampsStable
<1>7. ASSUME NEW c \in checkIns,
             \/ VerifySucceeds(c) \/ VerifyMismatches(c) \/ VerifyStalls(c)
             \/ VerifyFindsClosed(c) \/ RetryFails(c)
      PROVE  StampInv'
  <2>1. \E outcome : Finish(c, outcome)
    BY <1>7 DEF VerifySucceeds, VerifyMismatches, VerifyStalls, VerifyFindsClosed,
       RetryFails
  <2> QED
    BY <1>6, <1>7, <2>1, FinishKeepsStamps, VerifyHoldsInPlace
<1>8. ASSUME NEW m \in channel, Hears(m) PROVE StampInv'
  <2>1. checkIns' = checkIns
    BY <1>8 DEF Hears, ServiceHears, PanelHears, Receivable
  <2>2. /\ OneCheckInPerStamp'
        /\ \A d \in checkIns' : \E c \in checkIns : c.at = d.at
    BY <2>1 DEF OneCheckInPerStamp
  <2> QED
    BY <1>6, <1>8, <2>2, HearingHoldsInPlace
<1>9. CASE UNCHANGED vars
  BY <1>6, <1>9 DEF vars, HeldInPlace, OneCheckInPerStamp
<1> QED
  BY <1>1, <1>2, <1>3, <1>4, <1>5, <1>7, <1>8, <1>9
  DEF Next, CheckInStep, SetDailyStatus, RetryCheckIn

(***************************************************************************)
(* The stamps are kept apart in every reachable state.                     *)
(***************************************************************************)
LEMMA StampInvHolds == Spec => []StampInv
<1>1. Init => StampInv
  BY DEF Init, StampInv, StampsArePast, GensArePast, Gens, OneWritePerStamp,
     OneCheckInPerStamp, NoStampForBoth, OneTabPerImport, CommittedIsNotStaged,
     SameImportSameSnapshot, NoImport, NoUndo, NoRestore
<1>2. TypeOK /\ StampInv /\ [Next]_vars => StampInv'
  BY StampStep
<1> QED
  BY <1>1, <1>2, TypeCorrect, PTL DEF Spec

(***************************************************************************)
(* A stamp names one write, in every reachable state and however often     *)
(* tabs reload, retry and undo.                                            *)
(***************************************************************************)
THEOREM StampsNameWrites == Spec => []OneWritePerStamp
BY StampInvHolds, PTL DEF StampInv

-------------------------------------------------------------------------------
(* Check-ins come to an end.                                               *)

(***************************************************************************)
(* How far a check-in is from its outcome: its read-back, and if that      *)
(* finds the connection closed, the repetition and its read-back.          *)
(***************************************************************************)
TriesLeft(c) ==
    CASE c.phase = "verifying" -> IF c.retried THEN 1 ELSE 3
      [] c.phase = "closed" -> 2
      [] OTHER -> 0

GoesOnAs(c, d) ==
    /\ d.tab = c.tab /\ d.key = c.key /\ d.row.status = c.row.status
    /\ c.at <= d.at
    /\ TriesLeft(d) < TriesLeft(c)

(***************************************************************************)
(* No check-in is forgotten, no outcome is ever changed, and a check-in    *)
(* writes at most twice: each step leaves it alone or brings it nearer to  *)
(* an outcome, as the same status for the same key of the same tab.        *)
(* Fairness then brings every check-in to an outcome (CheckInsEnd).        *)
(***************************************************************************)
CheckInsOnlyAdvance ==
    [][\A c \in checkIns : c \in checkIns' \/ \E d \in checkIns' : GoesOnAs(c, d)]_vars

(***************************************************************************)
(* An outcome is nearer to the end than what it ends.                      *)
(***************************************************************************)
LEMMA FinishAdvances ==
    ASSUME TypeOK, NEW c \in checkIns, NEW outcome, Finish(c, outcome),
           \/ c.phase = "verifying" /\ (outcome = "closed" => ~c.retried)
           \/ c.phase = "closed" /\ outcome # "closed",
           outcome # "verifying"
    PROVE  \A b \in checkIns : b \in checkIns' \/ \E d \in checkIns' : GoesOnAs(b, d)
<1> DEFINE d == [c EXCEPT !.phase = outcome]
<1>1. /\ d \in checkIns' /\ d.phase = outcome /\ d.retried = c.retried
      /\ d.tab = c.tab /\ d.key = c.key /\ d.row = c.row /\ d.at = c.at
      /\ c.at \in Nat
  BY DEF Finish, TypeOK, CheckIn, Stamps
<1> HIDE DEF d
<1>2. TriesLeft(d) < TriesLeft(c)
  <2>1. TriesLeft(d) = IF outcome = "closed" THEN 2 ELSE 0
    BY <1>1 DEF TriesLeft
  <2>2. TriesLeft(c) = IF c.phase = "closed" THEN 2 ELSE IF c.retried THEN 1 ELSE 3
    BY DEF TriesLeft
  <2> QED
    BY <2>1, <2>2
<1>3. GoesOnAs(c, d)
  BY <1>1, <1>2 DEF GoesOnAs
<1> QED
  BY <1>1, <1>3 DEF Finish

(***************************************************************************)
(* Every step leaves a check-in alone or brings it nearer to its outcome.  *)
(***************************************************************************)
LEMMA AdvanceStep ==
    ASSUME TypeOK, StampInv, [Next]_vars, NEW c \in checkIns
    PROVE  c \in checkIns' \/ \E d \in checkIns' : GoesOnAs(c, d)
<1>1. ASSUME NEW t \in Tabs, SetDailyStatus(t) PROVE c \in checkIns'
  BY <1>1 DEF SetDailyStatus, WriteStatus
<1>2. ASSUME NEW t \in Tabs,
             ApplyImport(t) \/ StageUndo(t) \/ UndoAccepted(t) \/ UndoStep(t)
      PROVE  c \in checkIns'
  BY <1>2 DEF ApplyImport, StageUndo, UndoAccepted, UndoStep, RestoreSnapshot,
     UndoCompletes, UndoFails
<1>3. ASSUME NEW t \in Tabs, Reload(t)
      PROVE  c \in checkIns' \/ \E d \in checkIns' : GoesOnAs(c, d)
  <2>1. CASE c.tab = t /\ c.phase \in {"verifying", "closed"}
    <3> DEFINE d == [c EXCEPT !.phase = "abandoned"]
    <3>1. d \in checkIns'
      BY <1>3, <2>1 DEF Reload
    <3>2. /\ d.phase = "abandoned" /\ d.tab = c.tab /\ d.key = c.key
          /\ d.row = c.row /\ d.at = c.at /\ c.at \in Nat
      BY DEF TypeOK, CheckIn, Stamps
    <3> HIDE DEF d
    <3>3. TriesLeft(d) < TriesLeft(c)
      BY <2>1, <3>2 DEF TriesLeft
    <3> QED
      BY <3>1, <3>2, <3>3 DEF GoesOnAs
  <2>2. CASE ~(c.tab = t /\ c.phase \in {"verifying", "closed"})
    BY <1>3, <2>2 DEF Reload
  <2> QED
    BY <2>1, <2>2
<1>4. ASSUME NEW b \in checkIns, RetryCheckIn(b)
      PROVE  c \in checkIns' \/ \E d \in checkIns' : GoesOnAs(c, d)
  <2> DEFINE d == [at |-> clock + 1, tab |-> b.tab, key |-> b.key,
                   row |-> WrittenRow(b.row.status, clock + 1),
                   retried |-> TRUE, phase |-> "verifying"]
  <2>1. b.phase = "closed" /\ checkIns' = (checkIns \ {b}) \cup {d}
    BY <1>4 DEF RetryCheckIn, WriteStatus
  <2>2. d.row.status = b.row.status /\ b.at <= d.at
    <3>1. b.at \in Nat /\ clock \in Nat /\ b.at <= clock
      BY BoundAssumption DEF TypeOK, CheckIn, Stamps, StampInv, StampsArePast
    <3> QED
      BY <3>1 DEF WrittenRow, NoRow
  <2>3. TriesLeft(d) < TriesLeft(b)
    BY <2>1 DEF TriesLeft
  <2>4. GoesOnAs(b, d)
    BY <2>2, <2>3 DEF GoesOnAs
  <2> HIDE DEF d
  <2> QED
    BY <2>1, <2>4
<1>5. ASSUME NEW b \in checkIns,
             VerifySucceeds(b) \/ VerifyMismatches(b) \/ VerifyStalls(b)
             \/ VerifyFindsClosed(b) \/ RetryFails(b)
      PROVE  c \in checkIns' \/ \E d \in checkIns' : GoesOnAs(c, d)
  <2>1. PICK outcome \in {"verified", "failed", "closed"} :
            /\ Finish(b, outcome)
            /\ \/ b.phase = "verifying" /\ (outcome = "closed" => ~b.retried)
               \/ b.phase = "closed" /\ outcome = "failed"
    BY <1>5 DEF VerifySucceeds, VerifyMismatches, VerifyStalls, VerifyFindsClosed,
       RetryFails
  <2> QED
    BY <2>1, FinishAdvances
<1>6. ASSUME NEW m \in channel, Hears(m) PROVE c \in checkIns'
  BY <1>6 DEF Hears, ServiceHears, PanelHears, Receivable
<1>7. CASE UNCHANGED vars
  BY <1>7 DEF vars
<1> QED
  BY <1>1, <1>2, <1>3, <1>4, <1>5, <1>6, <1>7 DEF Next, CheckInStep

(***************************************************************************)
(* Check-ins only ever come nearer to an outcome, and keep it.             *)
(***************************************************************************)
THEOREM CheckInsAreBounded == Spec => CheckInsOnlyAdvance
<1>1. TypeOK /\ StampInv /\ [Next]_vars =>
          \A c \in checkIns :
              c \in checkIns' \/ \E d \in checkIns' : GoesOnAs(c, d)
  BY AdvanceStep
<1> QED
  BY <1>1, StampInvHolds, TypeCorrect, PTL DEF Spec, CheckInsOnlyAdvance

-------------------------------------------------------------------------------
(* What the undo's test lets through.                                      *)

(***************************************************************************)
(* The verified check-ins that an undo of the import gen would overwrite.  *)
(***************************************************************************)
Newer(gen) == {c \in checkIns : c.phase = "verified" /\ c.at > gen}

(***************************************************************************)
(* The undo that would overwrite c cannot be told from a fresh one yet.    *)
(***************************************************************************)
Unannounced(t, c) == c.tab # t /\ AnnouncedTo(t, c)

(***************************************************************************)
(* An undo is never accepted over a newer check-in of its own tab, and if  *)
(* by the time it is written there is one, the staged snapshot has been    *)
(* withdrawn or replaced meanwhile.  So what UndoKeepsVerifiedCheckIns     *)
(* finds happens only between the test and the write, and the same test    *)
(* made inside the restoring transaction would refuse it.                  *)
(***************************************************************************)
OwnRaceIsTestable ==
    [][\A t \in Tabs :
        /\ UndoAccepted(t) => \A c \in Newer(undo[t].gen) : c.tab # t
        /\ RestoreSnapshot(t) /\ undo[t].gen = undoing[t].gen /\ ~undo[t].invalidated
               => \A c \in Newer(undoing[t].gen) : c.tab # t]_vars

(***************************************************************************)
(* With reliable announcements the same holds of every tab's check-ins,    *)
(* but for those whose announcement has not arrived.                       *)
(***************************************************************************)
PeerRaceIsTestable ==
    [][\A t \in Tabs :
        /\ UndoAccepted(t) => \A c \in Newer(undo[t].gen) : Unannounced(t, c)
        /\ RestoreSnapshot(t) /\ undo[t].gen = undoing[t].gen /\ ~undo[t].invalidated
               => \A c \in Newer(undoing[t].gen) : Unannounced(t, c)]_vars

(***************************************************************************)
(* No undo is accepted over a newer verified check-in of its own tab, and  *)
(* a second test would catch the one that comes in between.                *)
(***************************************************************************)
THEOREM SecondTestWouldSuffice == Spec => OwnRaceIsTestable
<1>1. OwnCheckInDisablesUndo =>
          \A t \in Tabs :
              /\ UndoAccepted(t) => \A c \in Newer(undo[t].gen) : c.tab # t
              /\ RestoreSnapshot(t) /\ undo[t].gen = undoing[t].gen
                     /\ ~undo[t].invalidated
                     => \A c \in Newer(undoing[t].gen) : c.tab # t
  BY DEF OwnCheckInDisablesUndo, Newer, UndoAccepted, RestoreSnapshot
<1> QED
  BY <1>1, OwnCheckInReachesUndo, PTL DEF OwnRaceIsTestable

(***************************************************************************)
(* With reliable announcements, only check-ins whose announcement has not  *)
(* arrived would pass either test.                                         *)
(***************************************************************************)
THEOREM SecondTestWouldCatchPeers ==
    ASSUME ReliableNews
    PROVE  Spec => PeerRaceIsTestable
<1>1. VerifiedCheckInReachesUndo =>
          \A t \in Tabs :
              /\ UndoAccepted(t) => \A c \in Newer(undo[t].gen) : Unannounced(t, c)
              /\ RestoreSnapshot(t) /\ undo[t].gen = undoing[t].gen
                     /\ ~undo[t].invalidated
                     => \A c \in Newer(undoing[t].gen) : Unannounced(t, c)
  BY DEF VerifiedCheckInReachesUndo, Newer, Unannounced, UndoAccepted,
     RestoreSnapshot
<1> QED
  BY <1>1, NewsReachesUndo, PTL DEF PeerRaceIsTestable

-------------------------------------------------------------------------------
(* Imports as functions of the table.                                      *)

(***************************************************************************)
(* Importing a file once more in the same mode changes nothing; a replace  *)
(* does not depend on what was there; a merge leaves every key that the    *)
(* file does not name; and after either the table agrees with the file.    *)
(* So an operator may repeat an import whose outcome is not known.         *)
(***************************************************************************)
THEOREM ImportIsRepeatable ==
    ASSUME NEW before \in Table, NEW other \in Table, NEW p \in Payload
    PROVE  /\ \A mode \in ImportModes :
                  ImportResult(ImportResult(before, p, mode), p, mode)
                      = ImportResult(before, p, mode)
           /\ ImportResult(before, p, "replace") = ImportResult(other, p, "replace")
           /\ \A k \in Keys \ DOMAIN p :
                  ImportResult(before, p, "merge")[k] = before[k]
           /\ \A mode \in ImportModes : \A k \in DOMAIN p :
                  ImportResult(before, p, mode)[k].status = p[k]
<1>1. DOMAIN p \subseteq Keys
  BY DEF Payload
<1>2. \A mode \in ImportModes :
          ImportResult(ImportResult(before, p, mode), p, mode)
              = ImportResult(before, p, mode)
  BY DEF ImportResult
<1>3. ImportResult(before, p, "replace") = ImportResult(other, p, "replace")
  BY DEF ImportResult
<1>4. \A k \in Keys \ DOMAIN p : ImportResult(before, p, "merge")[k] = before[k]
  BY DEF ImportResult
<1>5. \A mode \in ImportModes : \A k \in DOMAIN p :
          ImportResult(before, p, mode)[k].status = p[k]
  BY <1>1 DEF ImportResult, FileRow
<1> QED
  BY <1>2, <1>3, <1>4, <1>5
===============================================================================
