------------------------------ MODULE UndoImport ------------------------------
(***************************************************************************)
(* Check-ins, imports and undo of several tabs on one dailyEntries table.  *)
(*                                                                         *)
(* A check-in is one readwrite transaction, then a read-back outside of it *)
(* that may succeed, mismatch, stall or find the connection closed; only a *)
(* successful read-back announces the check-in, to the own tab at once and *)
(* to the peers over a BroadcastChannel.  An import is one transaction     *)
(* that also captures the undo snapshot, which the tab stages when it      *)
(* hears of the commit.  An undo tests the staged snapshot first and       *)
(* writes it back in a transaction of its own, later.                      *)
(*                                                                         *)
(* IndexedDB runs the readwrite transactions of all tabs on one store one  *)
(* after the other, so each is one step here, and reports completions to a *)
(* tab in order.                                                           *)
(***************************************************************************)
EXTENDS EntryTable, FiniteSets

CONSTANTS
    Tabs,              \* browser tabs of the origin
    TabIds,            \* ids that tabs carry in their announcements
    TabIdOf,           \* TabIdOf[t]: the id of tab t
    Payloads,          \* backup files that may be imported
    MaxStamp,          \* bound on the stamps that writes draw
    Lossy,             \* TRUE: opening a channel or posting on it may fail
    CommitHeardFirst   \* TRUE: a tab hears of its own commit before it gets
                       \* any announcement of a later check-in

ASSUME TabAssumption == TabIdOf \in [Tabs -> TabIds]
ASSUME PayloadAssumption == Payloads \subseteq Payload
ASSUME BoundAssumption == MaxStamp \in Nat
ASSUME SwitchAssumption == Lossy \in BOOLEAN /\ CommitHeardFirst \in BOOLEAN

VARIABLES
    store,       \* the table, shared by the tabs
    clock,       \* last stamp drawn; orders check-ins and imports
    checkIns,    \* setDailyStatus calls that have committed, with their outcome
    importing,   \* per tab: import committed, completion not yet heard
    undo,        \* per tab: undoSnapshotState of the import service
    panel,       \* per tab: undoImport and undoInvalidated of the export panel
    undoing,     \* per tab: the restore in progress
    channel      \* announcements in flight

vars == <<store, clock, checkIns, importing, undo, panel, undoing, channel>>

-------------------------------------------------------------------------------
Stamps == 1..MaxStamp

Subscribers == {"service", "panel"}

(***************************************************************************)
(* "closed" is a check-in whose read-back found the connection closed and  *)
(* that runs once more; "abandoned" is one whose tab went away.            *)
(***************************************************************************)
CheckIn == [at : Stamps, tab : Tabs, key : Keys, row : Row, retried : BOOLEAN,
            phase : {"verifying", "closed", "verified", "failed", "abandoned"}]

Message == [at : Stamps, from : TabIds, to : Tabs, sub : Subscribers]

\* gen, the stamp of the import, stands for the identity of its snapshot array.
Committed == [gen : Nat, snapshot : Table]
Staged == [gen : Nat, snapshot : Table, invalidated : BOOLEAN]
Offer == [gen : Nat, invalidated : BOOLEAN]
Restore == [gen : Nat, snapshot : Table, committed : BOOLEAN]

NoImport == [gen |-> 0, snapshot |-> EmptyTable]
NoUndo == [gen |-> 0, snapshot |-> EmptyTable, invalidated |-> FALSE]
NoOffer == [gen |-> 0, invalidated |-> FALSE]
NoRestore == [gen |-> 0, snapshot |-> EmptyTable, committed |-> FALSE]

TypeOK ==
    /\ store \in Table
    /\ clock \in 0..MaxStamp
    /\ checkIns \subseteq CheckIn
    /\ importing \in [Tabs -> Committed]
    /\ undo \in [Tabs -> Staged]
    /\ panel \in [Tabs -> Offer]
    /\ undoing \in [Tabs -> Restore]
    /\ channel \subseteq Message

Init ==
    /\ \E p \in Payloads : store = ImportResult(EmptyTable, p, "replace")
    /\ clock = 0
    /\ checkIns = {}
    /\ importing = [t \in Tabs |-> NoImport]
    /\ undo = [t \in Tabs |-> NoUndo]
    /\ panel = [t \in Tabs |-> NoOffer]
    /\ undoing = [t \in Tabs |-> NoRestore]
    /\ channel = {}

(***************************************************************************)
(* Completions reach a tab in the order of its transactions, so the model  *)
(* lets a tab's next database step happen when it has heard of the last.   *)
(***************************************************************************)
HeardCommits(t) == importing[t].gen = 0 /\ ~undoing[t].committed

-------------------------------------------------------------------------------
(* Check-ins: setDailyStatus and verifyPersistedDailyStatus.               *)

Finish(c, outcome) ==
    checkIns' = (checkIns \ {c}) \cup {[c EXCEPT !.phase = outcome]}

WriteStatus(t, k, status, isRetry, replaced) ==
    LET at == clock + 1
        row == WrittenRow(status, at)
    IN  /\ clock < MaxStamp
        /\ HeardCommits(t)
        /\ clock' = at
        /\ store' = [store EXCEPT ![k] = row]
        /\ checkIns' = (checkIns \ replaced) \cup
               {[at |-> at, tab |-> t, key |-> k, row |-> row,
                 retried |-> isRetry, phase |-> "verifying"]}
        /\ UNCHANGED <<importing, undo, panel, undoing, channel>>

SetDailyStatus(t) ==
    \E k \in Keys, status \in UiStatuses : WriteStatus(t, k, status, FALSE, {})

News(c) == {[at |-> c.at, from |-> TabIdOf[c.tab], to |-> t, sub |-> s] :
               t \in Tabs \ {c.tab}, s \in Subscribers}

\* Mutant: the announcement names the tab where its id belongs.
BroadcastUnderTabName(c) ==
    channel' = channel \cup {[m EXCEPT !.from = c.tab] : m \in News(c)}

(***************************************************************************)
(* Posting closes the channel at once and swallows every failure.  The     *)
(* sender's own listeners drop the message, so none is posted to it.       *)
(***************************************************************************)
Broadcast(c) ==
    \/ channel' = channel \cup News(c)
    \/ Lossy /\ UNCHANGED channel

InvalidatedUndo(u) == IF u.gen = 0 THEN u ELSE [u EXCEPT !.invalidated = TRUE]

WithdrawnOffer(o) == IF o.gen = 0 THEN o ELSE [o EXCEPT !.invalidated = TRUE]

\* Mutant: the check-in is announced to the peers only.
DispatchToPeersOnly(c) ==
    /\ UNCHANGED <<undo, panel>>
    /\ Broadcast(c)

\* dispatchEntryWritten: both listeners of the window run before it returns.
DispatchEntryWritten(c) ==
    /\ undo' = [undo EXCEPT ![c.tab] = InvalidatedUndo(@)]
    /\ panel' = [panel EXCEPT ![c.tab] = WithdrawnOffer(@)]
    /\ Broadcast(c)

VerifySucceeds(c) ==
    /\ c.phase = "verifying"
    /\ HeardCommits(c.tab)
    /\ store[c.key] = c.row
    /\ Finish(c, "verified")
    /\ DispatchEntryWritten(c)
    /\ UNCHANGED <<store, clock, importing, undoing>>

VerifyMismatches(c) ==
    /\ c.phase = "verifying"
    /\ HeardCommits(c.tab)
    /\ store[c.key] # c.row
    /\ Finish(c, "failed")
    /\ UNCHANGED <<store, clock, importing, undo, panel, undoing, channel>>

\* The read-back timed out or was refused for another reason than a close.
VerifyStalls(c) ==
    /\ c.phase = "verifying"
    /\ Finish(c, "failed")
    /\ UNCHANGED <<store, clock, importing, undo, panel, undoing, channel>>

\* runDatabaseOperation reopens and runs the whole operation once more.
VerifyFindsClosed(c) ==
    /\ c.phase = "verifying"
    /\ Finish(c, IF c.retried THEN "failed" ELSE "closed")
    /\ UNCHANGED <<store, clock, importing, undo, panel, undoing, channel>>

RetryCheckIn(c) ==
    /\ c.phase = "closed"
    /\ WriteStatus(c.tab, c.key, c.row.status, TRUE, {c})

\* The reopening or the repeated transaction failed.
RetryFails(c) ==
    /\ c.phase = "closed"
    /\ Finish(c, "failed")
    /\ UNCHANGED <<store, clock, importing, undo, panel, undoing, channel>>

-------------------------------------------------------------------------------
(* Imports: applyImport, then runConfirmedImport's onImportApplied.        *)

\* Mutant: the undo snapshot is read after the import's writes.
ApplyImportThenSnapshot(t) ==
    \E p \in Payloads, mode \in ImportModes :
        /\ clock < MaxStamp
        /\ HeardCommits(t)
        /\ clock' = clock + 1
        /\ store' = ImportResult(store, p, mode)
        /\ importing' = [importing EXCEPT ![t] =
               [gen |-> clock + 1, snapshot |-> store']]
        /\ UNCHANGED <<checkIns, undo, panel, undoing, channel>>

\* An import whose read-back inside the transaction mismatches aborts and
\* leaves no trace, which is a step that changes nothing here.
ApplyImport(t) ==
    \E p \in Payloads, mode \in ImportModes :
        /\ clock < MaxStamp
        /\ HeardCommits(t)
        /\ clock' = clock + 1
        /\ importing' = [importing EXCEPT ![t] =
               [gen |-> clock + 1, snapshot |-> store]]
        /\ store' = ImportResult(store, p, mode)
        /\ UNCHANGED <<checkIns, undo, panel, undoing, channel>>

StageUndo(t) ==
    /\ importing[t].gen # 0
    /\ undo' = [undo EXCEPT ![t] =
           [gen |-> importing[t].gen, snapshot |-> importing[t].snapshot,
            invalidated |-> FALSE]]
    /\ panel' = [panel EXCEPT ![t] =
           [gen |-> importing[t].gen, invalidated |-> FALSE]]
    /\ importing' = [importing EXCEPT ![t] = NoImport]
    /\ UNCHANGED <<store, clock, checkIns, undoing, channel>>

-------------------------------------------------------------------------------
(* Undo: handleUndoImport and restoreUndoSnapshot.                         *)

(***************************************************************************)
(* The panel offers the undo of the import it was last told of; the        *)
(* service compares the identity of the snapshot and the flag.  Nothing    *)
(* is tested again, however long reopening the database takes.             *)
(***************************************************************************)
UndoAccepted(t) ==
    /\ panel[t].gen # 0
    /\ ~panel[t].invalidated
    /\ undoing[t].gen = 0
    /\ undo[t].gen = panel[t].gen
    /\ ~undo[t].invalidated
    /\ undoing' = [undoing EXCEPT ![t] =
           [gen |-> undo[t].gen, snapshot |-> undo[t].snapshot,
            committed |-> FALSE]]
    /\ UNCHANGED <<store, clock, checkIns, importing, undo, panel, channel>>

RestoreSnapshot(t) ==
    /\ undoing[t].gen # 0
    /\ HeardCommits(t)
    /\ store' = undoing[t].snapshot
    /\ undoing' = [undoing EXCEPT ![t].committed = TRUE]
    /\ UNCHANGED <<clock, checkIns, importing, undo, panel, channel>>

\* Mutant: the panel keeps its closure after the undo has been consumed.
UndoCompletesUnnoticed(t) ==
    /\ undoing[t].committed
    /\ undo' = [undo EXCEPT ![t] = NoUndo]
    /\ undoing' = [undoing EXCEPT ![t] = NoRestore]
    /\ UNCHANGED <<store, clock, checkIns, importing, panel, channel>>

UndoCompletes(t) ==
    /\ undoing[t].committed
    /\ undo' = [undo EXCEPT ![t] = NoUndo]
    /\ panel' = [panel EXCEPT ![t] = NoOffer]
    /\ undoing' = [undoing EXCEPT ![t] = NoRestore]
    /\ UNCHANGED <<store, clock, checkIns, importing, channel>>

\* The restore was rolled back or never ran; the snapshot stays staged.
UndoFails(t) ==
    /\ undoing[t].gen # 0
    /\ ~undoing[t].committed
    /\ undoing' = [undoing EXCEPT ![t] = NoRestore]
    /\ UNCHANGED <<store, clock, checkIns, importing, undo, panel, channel>>

-------------------------------------------------------------------------------
(* Announcements from peers, and a tab that starts over.                   *)

Receivable(m) ==
    /\ m \in channel
    /\ CommitHeardFirst => importing[m.to].gen = 0
    /\ channel' = channel \ {m}
    /\ UNCHANGED <<store, clock, checkIns, importing, undoing>>

\* Mutant: the sender filter is the wrong way round.
FromSelf(m) == m.from = TabIdOf[m.to]

FromPeer(m) == m.from # TabIdOf[m.to]

\* The service's handleCrossTabEntryWritten: without a staged snapshot the
\* message is dropped; with one it is passed on to the window's listeners.
ServiceHears(m) ==
    /\ m.sub = "service"
    /\ Receivable(m)
    /\ IF FromPeer(m) /\ undo[m.to].gen # 0
       THEN /\ undo' = [undo EXCEPT ![m.to] = InvalidatedUndo(@)]
            /\ panel' = [panel EXCEPT ![m.to] = WithdrawnOffer(@)]
       ELSE UNCHANGED <<undo, panel>>

\* The panel's handleCrossTabEntryWritten, on a channel of its own.
PanelHears(m) ==
    /\ m.sub = "panel"
    /\ Receivable(m)
    /\ panel' = IF FromPeer(m)
                THEN [panel EXCEPT ![m.to] = WithdrawnOffer(@)]
                ELSE panel
    /\ UNCHANGED undo

\* A reload keeps the tab's id (it lives in sessionStorage) and nothing else.
Reload(t) ==
    /\ checkIns' = {IF c.tab = t /\ c.phase \in {"verifying", "closed"}
                    THEN [c EXCEPT !.phase = "abandoned"] ELSE c : c \in checkIns}
    /\ importing' = [importing EXCEPT ![t] = NoImport]
    /\ undo' = [undo EXCEPT ![t] = NoUndo]
    /\ panel' = [panel EXCEPT ![t] = NoOffer]
    /\ undoing' = [undoing EXCEPT ![t] = NoRestore]
    /\ channel' = {m \in channel : m.to # t}
    /\ UNCHANGED <<store, clock>>

-------------------------------------------------------------------------------
\* Mutant: a closed connection is recognised but the operation is not repeated.
CheckInStepWithoutRetry(c) ==
    \/ VerifySucceeds(c)
    \/ VerifyMismatches(c)
    \/ VerifyStalls(c)
    \/ VerifyFindsClosed(c)

CheckInStep(c) ==
    \/ VerifySucceeds(c)
    \/ VerifyMismatches(c)
    \/ VerifyStalls(c)
    \/ VerifyFindsClosed(c)
    \/ RetryCheckIn(c)
    \/ RetryFails(c)

UndoStep(t) == RestoreSnapshot(t) \/ UndoCompletes(t) \/ UndoFails(t)

Hears(m) == ServiceHears(m) \/ PanelHears(m)

Next ==
    \/ \E t \in Tabs :
           \/ SetDailyStatus(t)
           \/ ApplyImport(t)
           \/ StageUndo(t)
           \/ UndoAccepted(t)
           \/ UndoStep(t)
           \/ Reload(t)
    \/ \E c \in checkIns : CheckInStep(c)
    \/ \E m \in channel : Hears(m)

Spec == Init /\ [][Next]_vars

(***************************************************************************)
(* The user may stop at any time; the browser delivers completions and     *)
(* messages, and every call ends (a read-back has a timeout, a reopening   *)
(* three attempts).                                                        *)
(***************************************************************************)
Fairness ==
    /\ \A t \in Tabs : WF_vars(StageUndo(t)) /\ WF_vars(UndoStep(t))
    /\ \A t \in Tabs, s \in Subscribers :
           WF_vars(\E m \in channel : m.to = t /\ m.sub = s /\ Hears(m))
    /\ \A t \in Tabs : WF_vars(\E c \in checkIns : c.tab = t /\ CheckInStep(c))

FairSpec == Spec /\ Fairness

-------------------------------------------------------------------------------
(* Properties.                                                             *)

AnnouncedTo(t, c) ==
    [at |-> c.at, from |-> TabIdOf[c.tab], to |-> t, sub |-> "service"] \in channel

(***************************************************************************)
(* A verified check-in that follows an import never leaves the import's    *)
(* staged undo alive and uninformed: the snapshot is invalidated, or the   *)
(* check-in came from a peer and its announcement is still on the way.     *)
(* (dispatchEntryWritten, handleEntryWritten, handleCrossTabEntryWritten)  *)
(***************************************************************************)
VerifiedCheckInReachesUndo ==
    \A t \in Tabs, c \in checkIns :
        (c.phase = "verified" /\ undo[t].gen # 0 /\ c.at > undo[t].gen) =>
            undo[t].invalidated \/ (c.tab # t /\ AnnouncedTo(t, c))

(***************************************************************************)
(* With no channel at all, and with tabs that share an id, a tab's own     *)
(* verified check-ins still disable its undo: "The same-tab invalidation   *)
(* path still holds" (appDb.ts, dispatchEntryWritten).                     *)
(***************************************************************************)
OwnCheckInDisablesUndo ==
    \A t \in Tabs, c \in checkIns :
        (c.phase = "verified" /\ c.tab = t /\ undo[t].gen # 0
         /\ c.at > undo[t].gen) => undo[t].invalidated /\ panel[t].invalidated

(***************************************************************************)
(* The panel never offers an undo that the service would refuse: the two   *)
(* copies of the flag and of the snapshot's identity are kept by separate  *)
(* listeners (useUndoImport.ts, importService.ts).                         *)
(***************************************************************************)
OfferedUndoIsHonoured ==
    \A t \in Tabs :
        (panel[t].gen # 0 /\ ~panel[t].invalidated) =>
            undo[t].gen = panel[t].gen /\ ~undo[t].invalidated

\* The contents that a tab may still return the table to.
HeldSnapshots(t) ==
    {r.snapshot : r \in {x \in {importing[t], undo[t], undoing[t]} : x.gen # 0}}

Ledger == INSTANCE EntryLedger WITH
              table <- store, rollback <- [t \in Tabs |-> HeldSnapshots(t)]

(***************************************************************************)
(* The entry table changes as the ledger promises, by whole transactions:  *)
(* an undo in particular brings back contents the table really had just    *)
(* before an import of that tab (applyImport, restoreUndoSnapshot).        *)
(***************************************************************************)
StoreFollowsLedger == Ledger!LedgerSpec

(***************************************************************************)
(* Every verified check-in of any tab in the end takes the undo of an      *)
(* earlier import away, unless that undo is gone by itself.                *)
(***************************************************************************)
StaleUndoIsWithdrawn ==
    \A t \in Tabs, g \in Stamps :
        (undo[t].gen = g /\ \E c \in checkIns : c.phase = "verified" /\ c.at > g)
            ~> (undo[t].gen # g \/ undo[t].invalidated)

(***************************************************************************)
(* Every check-in reaches an outcome, also when the connection is closed   *)
(* under it.                                                               *)
(***************************************************************************)
CheckInsEnd ==
    \A s \in Stamps :
        (\E c \in checkIns : c.at = s /\ c.phase \in {"verifying", "closed"})
            ~> (\A c \in checkIns : c.at = s => c.phase \notin {"verifying", "closed"})

(***************************************************************************)
(* "a post-import daily check-in disables undo instead of being silently   *)
(* overwritten" (ADR 0025): an undo is not written over a verified         *)
(* check-in that is newer than its import.                                 *)
(***************************************************************************)
UndoKeepsVerifiedCheckIns ==
    [][\A t \in Tabs : RestoreSnapshot(t) =>
           \A c \in checkIns : c.phase = "verified" => c.at < undoing[t].gen]_vars

===============================================================================
