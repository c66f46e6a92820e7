------------------------------- MODULE CrashReset -------------------------------
(***************************************************************************)
(* What is left when rendering fails: the emergency exports of the crashed *)
(* backup panel, and the app's crash page with its exports and its reset   *)
(* of all local data (AppCrashFallback.tsx, ExportPanelCrashFallback.tsx,  *)
(* emergencyExport.ts, crashExport.ts, ErrorBoundary.tsx).                 *)
(*                                                                         *)
(* The reset races the deletion of the database against three seconds.     *)
(* The browser deletes when every connection is closed, however long that  *)
(* takes, and lets no new connection open before; each tab, the crashed    *)
(* one included, closes its own when it hears versionchange.               *)
(***************************************************************************)
EXTENDS FiniteSets

CONSTANTS
    Rows,        \* rows that can be in dailyEntries
    Malformed,   \* those no export recovers
    Peers        \* other tabs of the origin

ASSUME RowAssumption == Malformed \subseteq Rows

VARIABLES
    table,       \* rows in the database
    open,        \* the page and the tabs whose connection is open
    deletion,    \* a deletion was requested and has not happened yet
    page,        \* what renders: the app, its crashed panel, the crash page
    ui,          \* state of the fallback that renders, if one does
    export,      \* the export that this fallback waits for
    underWay,    \* operations of the page that began before its crash go on
    before,      \* history: rows of the crash that nobody has removed since
    files,       \* history: rows in the files of the fallback since the crash
    mine         \* history: rows the app on this page wrote, and that stand,
                 \* since the page last asked for a deletion

vars == <<table, open, deletion, page, ui, export, underWay, before, files, mine>>

-------------------------------------------------------------------------------
Page == "page"
Tabs == {Page} \cup Peers

\* busyAction, hasExported, manualDeleteAcknowledged, clearConfirmState, and the
\* panel's showManualInspectionGuidance.
UI == [busy : {"none", "export", "clear"}, hasExported : BOOLEAN, ack : BOOLEAN,
       armed : BOOLEAN, guidance : BOOLEAN]
FreshUI == [busy |-> "none", hasExported |-> FALSE, ack |-> FALSE,
            armed |-> FALSE, guidance |-> FALSE]

Export == [phase : {"opening", "read"}, found : SUBSET Rows]
NoExport == [phase |-> "none"]

TypeOK ==
    /\ table \subseteq Rows /\ open \subseteq Tabs /\ deletion \in BOOLEAN
    /\ page \in {"app", "panel", "crashed"}
    /\ ui \in UI
    /\ export \in {NoExport} \cup Export
    /\ underWay \in BOOLEAN
    /\ before \subseteq Rows /\ files \subseteq Rows /\ mine \subseteq Rows

Init ==
    /\ table \in SUBSET Rows
    /\ open = Tabs
    /\ deletion = FALSE /\ page = "app"
    /\ ui = FreshUI /\ export = NoExport /\ underWay = FALSE
    /\ before = {} /\ files = {} /\ mine = {}

-------------------------------------------------------------------------------
(* The app and the other tabs.                                               *)

\* A transaction that commits: a check-in puts a row, overwrites one (the old
\* contents go, the new ones come) or deletes one; an import or an undo does so
\* for many at once.  The page writes from the app, and from its crash page
\* where an operation was waiting for the connection or its transaction.
Write(t) ==
    /\ t \in open
    /\ t = Page => page # "crashed" \/ underWay
    /\ \E result \in SUBSET Rows :
           LET own == IF t = Page /\ page # "crashed" THEN result \ table ELSE {}
           IN  /\ table' = result
               /\ before' = before \cap result
               /\ mine' = (mine \cap result) \cup own
    /\ UNCHANGED <<open, deletion, page, ui, export, underWay, files>>

\* The operations that outlived the app end, with or without a write.
OperationsEnd ==
    /\ underWay /\ underWay' = FALSE
    /\ UNCHANGED <<table, open, deletion, page, ui, export, before, files, mine>>

\* A connection opens when no deletion is waiting; runDatabaseOperation reopens
\* it, in the app or in an operation that is under way.
Opens(t) ==
    /\ t \notin open /\ ~deletion
    /\ t = Page => page # "crashed" \/ underWay
    /\ open' = open \cup {t}
    /\ UNCHANGED <<table, deletion, page, ui, export, underWay, before, files, mine>>

\* A tab is closed, or its connection drops.
Closes(t) ==
    /\ t \in open
    /\ open' = open \ {t}
    /\ UNCHANGED <<table, deletion, page, ui, export, underWay, before, files, mine>>

PanelCrashes ==
    /\ page = "app"
    /\ page' = "panel" /\ ui' = FreshUI
    /\ UNCHANGED <<table, open, deletion, export, underWay, before, files, mine>>

\* The connection stays open, and what the app was doing with it goes on: both
\* belong to modules, not to a component.  An export of the crashed panel goes
\* on too, but nobody hears of it any more, and its file does not count as one
\* of this crash page.
AppCrashes ==
    /\ page # "crashed"
    /\ page' = "crashed" /\ ui' = FreshUI /\ export' = NoExport
    /\ underWay' \in BOOLEAN
    /\ before' = table /\ files' = {}
    /\ UNCHANGED <<table, open, deletion, mine>>

\* "Retry"; neither boundary with an export fallback passes reset keys.  What
\* was under way goes on in the app again.
Retry ==
    /\ page # "app" /\ ui.busy = "none"
    /\ page' = "app" /\ ui' = FreshUI /\ underWay' = FALSE
    /\ UNCHANGED <<table, open, deletion, export, before, files, mine>>

Reloaded ==
    page' = "app" /\ ui' = FreshUI /\ export' = NoExport /\ underWay' = FALSE

\* The fallback's "Reload" waits until it is not busy; the browser's does not,
\* nor do the timers of the connection and of an update.
PageReloads ==
    /\ Reloaded
    /\ open' = open \ {Page}
    /\ UNCHANGED <<table, deletion, before, files, mine>>

-------------------------------------------------------------------------------
(* Exports, in either format.                                                *)

StartExport ==
    /\ page # "app" /\ ui.busy = "none"
    /\ ui' = [ui EXCEPT !.busy = "export"]
    /\ export' = [phase |-> "opening", found |-> {}]
    /\ UNCHANGED <<table, open, deletion, page, underWay, before, files, mine>>

\* A connection of its own, so it waits for the deletion as all do.
ReadCrashExportSnapshot ==
    /\ export.phase = "opening" /\ ~deletion
    /\ export' = [phase |-> "read", found |-> table \ Malformed]
    /\ UNCHANGED <<table, open, deletion, page, ui, underWay, before, files, mine>>

\* Mutant: the reset is unlocked whether or not the export succeeded.
ExportEndsUnlocking(ok) ==
    /\ export' = NoExport
    /\ ui' = [ui EXCEPT !.busy = "none", !.hasExported = TRUE]

\* Mutant: the marker is taken back after a success only.
ExportEndsBusy(ok) ==
    /\ export' = NoExport
    /\ ui' = IF ok THEN [ui EXCEPT !.busy = "none", !.hasExported = TRUE] ELSE ui

\* The panel shows its guidance, the crash page unlocks its reset.
ExportEnds(ok) ==
    /\ export' = NoExport
    /\ \/ /\ page = "panel"
          /\ ui' = [ui EXCEPT !.busy = "none", !.guidance = ~ok]
       \/ /\ page = "crashed"
          /\ ui' = [ui EXCEPT !.busy = "none", !.hasExported = @ \/ ok]

ExportFails ==
    /\ export # NoExport
    /\ ExportEnds(FALSE)
    /\ UNCHANGED <<table, open, deletion, page, underWay, before, files, mine>>

\* The file is downloaded, then recorded, and recording may throw: the export
\* is then reported as failed although its file exists.
ExportDownloads ==
    /\ export.phase = "read"
    /\ files' = files \cup export.found
    /\ \E recorded \in BOOLEAN : ExportEnds(recorded)
    /\ UNCHANGED <<table, open, deletion, page, underWay, before, mine>>

-------------------------------------------------------------------------------
(* The reset of all local data.                                              *)

ToggleAcknowledgement ==
    /\ page = "crashed" /\ ui.busy = "none" /\ ~ui.hasExported
    /\ ui' = [ui EXCEPT !.ack = ~@]
    /\ UNCHANGED <<table, open, deletion, page, export, underWay, before, files, mine>>

\* Escape, the disarm button, a press outside the group of controls.
DisarmClearData ==
    /\ page = "crashed" /\ ui.busy = "none" /\ ui.armed
    /\ ui' = [ui EXCEPT !.armed = FALSE]
    /\ UNCHANGED <<table, open, deletion, page, export, underWay, before, files, mine>>

ClearDataUnlocked == ui.hasExported \/ ui.ack

ArmClearData ==
    /\ page = "crashed" /\ ui.busy = "none"
    /\ ClearDataUnlocked /\ ~ui.armed
    /\ ui' = [ui EXCEPT !.armed = TRUE]
    /\ UNCHANGED <<table, open, deletion, page, export, underWay, before, files, mine>>

\* Dexie.delete.  A request that timed out and still waits is one with it: of
\* two deletions the second follows the first at once, and an opening that was
\* asked for between them is given up before it, after a third of the time that
\* this request waits.
HandleClearDataAndReload ==
    /\ page = "crashed" /\ ui.busy = "none"
    /\ ClearDataUnlocked /\ ui.armed
    /\ ui' = [ui EXCEPT !.busy = "clear"]
    /\ deletion' = TRUE
    /\ mine' = {}
    /\ UNCHANGED <<table, open, page, export, underWay, before, files>>

\* handleDatabaseVersionChange closes the connection and reloads, at once or
\* after the guard window (DbConnection); the other tabs then open again.
HearsVersionChange(t) ==
    /\ deletion /\ t \in open
    /\ open' = open \ {t}
    /\ \/ t = Page /\ Reloaded
       \/ UNCHANGED <<page, ui, export, underWay>>
    /\ UNCHANGED <<table, deletion, before, files, mine>>

\* Mutant: a timeout so short that it precedes versionchange.
DeletionTimesOutEarly ==
    /\ ui.busy = "clear" /\ deletion
    /\ ui' = [ui EXCEPT !.busy = "none", !.armed = FALSE]
    /\ UNCHANGED <<table, open, deletion, page, export, underWay, before, files, mine>>

\* The page hears versionchange, if it is connected, long before three seconds.
DeletionTimesOut ==
    /\ ui.busy = "clear" /\ deletion /\ Page \notin open
    /\ ui' = [ui EXCEPT !.busy = "none", !.armed = FALSE]
    /\ UNCHANGED <<table, open, deletion, page, export, underWay, before, files, mine>>

\* The browser gives the deletion up, before or after the timeout.
DeletionFails ==
    /\ deletion
    /\ deletion' = FALSE
    /\ ui' = IF ui.busy = "clear" THEN [ui EXCEPT !.busy = "none", !.armed = FALSE] ELSE ui
    /\ UNCHANGED <<table, open, page, export, underWay, before, files, mine>>

\* No export reads while a deletion waits, so their connections are closed too.
DatabaseIsDeleted ==
    /\ deletion /\ open = {}
    /\ deletion' = FALSE
    /\ table' = {} /\ before' = {} /\ mine' = {}
    /\ IF ui.busy = "clear" THEN Reloaded
       ELSE UNCHANGED <<page, ui, export, underWay>>
    /\ UNCHANGED <<open, files>>

Next ==
    \/ \E t \in Tabs : Write(t) \/ Opens(t) \/ Closes(t) \/ HearsVersionChange(t)
    \/ PanelCrashes \/ AppCrashes \/ OperationsEnd \/ Retry \/ PageReloads
    \/ StartExport \/ ReadCrashExportSnapshot \/ ExportFails \/ ExportDownloads
    \/ ToggleAcknowledgement \/ DisarmClearData \/ ArmClearData
    \/ HandleClearDataAndReload \/ DeletionTimesOut \/ DeletionFails
    \/ DatabaseIsDeleted

Spec == Init /\ [][Next]_vars

\* Tabs run their handlers, the timer fires, and the browser does its part.
Fairness ==
    /\ \A t \in Tabs : WF_vars(HearsVersionChange(t))
    /\ WF_vars(DeletionTimesOut) /\ WF_vars(DatabaseIsDeleted)
    /\ WF_vars(ReadCrashExportSnapshot) /\ WF_vars(ExportDownloads)
FairSpec == Spec /\ Fairness

-------------------------------------------------------------------------------
(* Properties.                                                               *)

(***************************************************************************)
(* An export opens a connection of its own and waits for a deletion that   *)
(* was requested before it, even one whose reset timed out and goes on     *)
(* behind enabled controls; the deletion waits for connections.  The page  *)
(* is never on both sides: while an export of its fallback waits, its own  *)
(* connection, which an operation under way may want back, is closed.  And *)
(* controls are disabled for a reset only while its deletion is pending.   *)
(***************************************************************************)
NoWaitInACircle ==
    /\ ui.busy = "export" /\ deletion => Page \notin open
    /\ ui.busy = "clear" => page = "crashed" /\ deletion

(***************************************************************************)
(* The reset is requested without the acknowledgement only when every      *)
(* well-formed row there was when the crash page appeared is in a file     *)
(* that this crash page downloaded, or was removed before the request by   *)
(* another tab, by an operation under way or by an earlier reset.          *)
(***************************************************************************)
ResetNeedsBackupOrConsent ==
    [][ui.busy # "clear" /\ ui'.busy = "clear" /\ ~ui.ack
           => before \ Malformed \subseteq files]_vars

(***************************************************************************)
(* A deletion that comes after its timeout, when the operator has retried  *)
(* the app, takes no check-in and no import that this page made in the     *)
(* meantime.                                                               *)
(***************************************************************************)
RetriedPageWritesSurvive ==
    [][deletion /\ ~deletion' /\ table' # table => mine \cap table = {}]_vars

(***************************************************************************)
(* No export and no reset leaves the controls of a fallback disabled: a    *)
(* reset ends after its timeout at the latest, an export after a deletion  *)
(* it waits for.                                                           *)
(***************************************************************************)
ControlsComeBack == (ui.busy # "none") ~> (ui.busy = "none")

===============================================================================
