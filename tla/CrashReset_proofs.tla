--------------------------- MODULE CrashReset_proofs ---------------------------
(***************************************************************************)
(* Theorems about CrashReset, for any rows and any number of other tabs:   *)
(* that exports and deletions do not wait for each other through the page, *)
(* what the reset of all local data may be asked to destroy, with other    *)
(* writers and without, and what a deletion that comes late takes with it. *)
(***************************************************************************)
EXTENDS CrashReset, TLAPS

(***************************************************************************)
(* An export ends in a fallback that is no longer busy, and only the crash *)
(* page takes note of its success.                                         *)
(***************************************************************************)
LEMMA ExportEndFacts ==
    ASSUME TypeOK, NEW ok \in BOOLEAN, ExportEnds(ok)
    PROVE  /\ export' = NoExport
           /\ ui' \in UI
           /\ ui'.busy = "none"
           /\ page # "crashed" => ui'.hasExported = ui.hasExported
BY DEF ExportEnds, TypeOK, UI

(***************************************************************************)
(* A fresh fallback is one.                                                *)
(***************************************************************************)
LEMMA FreshType == FreshUI \in UI
BY DEF FreshUI, UI

(***************************************************************************)
(* Every step keeps the types.                                             *)
(***************************************************************************)
LEMMA TypeStep ==
    ASSUME TypeOK, [Next]_vars
    PROVE  TypeOK'
<1>0. ui \in UI /\ export \in {NoExport} \cup Export /\ table \subseteq Rows
  BY DEF TypeOK
<1>1. ASSUME NEW t \in Tabs, Write(t) PROVE TypeOK'
  <2>1. PICK result \in SUBSET Rows :
            /\ table' = result
            /\ before' = before \cap result
            /\ mine' \subseteq (mine \cap result) \cup (result \ table)
    BY <1>1 DEF Write
  <2>2. table' \subseteq Rows /\ before' \subseteq Rows /\ mine' \subseteq Rows
    BY <2>1
  <2> QED
    BY <1>1, <2>2 DEF Write, TypeOK
<1>1a. ASSUME NEW t \in Tabs, Opens(t) \/ Closes(t) PROVE TypeOK'
  BY <1>1a DEF Opens, Closes, TypeOK
<1>2. ASSUME NEW t \in Tabs, HearsVersionChange(t) PROVE TypeOK'
  BY <1>2, FreshType DEF HearsVersionChange, Reloaded, TypeOK
<1>3. CASE PanelCrashes \/ Retry \/ PageReloads \/ OperationsEnd
  BY <1>3, FreshType
  DEF PanelCrashes, Retry, PageReloads, OperationsEnd, Reloaded, TypeOK
<1>4. CASE AppCrashes
  BY <1>4, FreshType DEF AppCrashes, TypeOK
<1>5. CASE StartExport
  <2>1. ui' \in UI
    BY <1>0, <1>5 DEF StartExport, UI
  <2>3. export' \in Export
    BY <1>5 DEF StartExport, Export
  <2> QED
    BY <1>5, <2>1, <2>3 DEF StartExport, TypeOK
<1>6. CASE ReadCrashExportSnapshot
  <2>1. export' \in Export
    BY <1>0, <1>6 DEF ReadCrashExportSnapshot, Export
  <2> QED
    BY <1>6, <2>1 DEF ReadCrashExportSnapshot, TypeOK
<1>7. CASE ExportFails
  <2>1. export' = NoExport /\ ui' \in UI
    BY <1>7, ExportEndFacts DEF ExportFails
  <2> QED
    BY <1>7, <2>1 DEF ExportFails, TypeOK
<1>8. CASE ExportDownloads
  <2>1. PICK recorded \in BOOLEAN : ExportEnds(recorded)
    BY <1>8 DEF ExportDownloads
  <2>2. export' = NoExport /\ ui' \in UI
    BY <2>1, ExportEndFacts
  <2>3. export \in Export /\ export.found \subseteq Rows
    BY <1>0, <1>8 DEF ExportDownloads, Export, NoExport
  <2> QED
    BY <1>8, <2>2, <2>3 DEF ExportDownloads, TypeOK
<1>9. CASE ToggleAcknowledgement \/ DisarmClearData \/ ArmClearData
           \/ HandleClearDataAndReload \/ DeletionTimesOut \/ DeletionFails
  <2>1. ui' \in UI
    BY <1>0, <1>9
    DEF ToggleAcknowledgement, DisarmClearData, ArmClearData,
        HandleClearDataAndReload, DeletionTimesOut, DeletionFails, UI
  <2> QED
    BY <1>9, <2>1
    DEF ToggleAcknowledgement, DisarmClearData, ArmClearData,
        HandleClearDataAndReload, DeletionTimesOut, DeletionFails, TypeOK
<1>10. CASE DatabaseIsDeleted
  BY <1>10, FreshType DEF DatabaseIsDeleted, Reloaded, TypeOK
<1>11. CASE UNCHANGED vars
  BY <1>11 DEF vars, TypeOK
<1> QED
  BY <1>1, <1>1a, <1>2, <1>3, <1>4, <1>5, <1>6, <1>7, <1>8, <1>9, <1>10, <1>11
  DEF Next

(***************************************************************************)
(* Whatever crashes, is exported, reset and reloaded, the state has its    *)
(* types.                                                                  *)
(***************************************************************************)
THEOREM TypeCorrect == Spec => []TypeOK
<1>1. Init => TypeOK
  BY FreshType DEF Init, TypeOK
<1>2. TypeOK /\ [Next]_vars => TypeOK'
  BY TypeStep
<1> QED
  BY <1>1, <1>2, PTL DEF Spec

-------------------------------------------------------------------------------
(***************************************************************************)
(* What a fallback shows as busy is what it waits for.  While a deletion   *)
(* waits, the page's connection is closed, unless the crash page that      *)
(* asked for it is still busy with it; so nothing that the app writes on   *)
(* this page can be in the way of the deletion.                            *)
(***************************************************************************)
BusyIsWork ==
    /\ ui.busy = "export" <=> export # NoExport
    /\ ui.busy = "export" => page # "app"
    /\ ui.busy = "clear" => page = "crashed" /\ deletion
PendingDeletionExcludesPage ==
    deletion => /\ mine = {}
                /\ Page \in open => page = "crashed" /\ ui.busy = "clear"
WaitInv == TypeOK /\ BusyIsWork /\ PendingDeletionExcludesPage

(***************************************************************************)
(* Every step keeps it: nothing opens the page's connection while a        *)
(* deletion waits, and the reset is busy until it heard versionchange.     *)
(***************************************************************************)
LEMMA WaitStep ==
    ASSUME WaitInv, [Next]_vars
    PROVE  WaitInv'
<1> USE DEF BusyIsWork, PendingDeletionExcludesPage
<1>0. /\ TypeOK /\ BusyIsWork /\ PendingDeletionExcludesPage
      /\ page \in {"app", "panel", "crashed"}
      /\ ui \in UI /\ export \in {NoExport} \cup Export
  BY DEF WaitInv, TypeOK
<1> SUFFICES BusyIsWork' /\ PendingDeletionExcludesPage'
  BY <1>0, TypeStep DEF WaitInv
<1>f. FreshUI.busy = "none"
  BY DEF FreshUI
<1>n. ASSUME NEW e \in Export PROVE e # NoExport
  BY <1>n DEF Export, NoExport
<1>1. ASSUME NEW t \in Tabs, Write(t)
      PROVE  BusyIsWork' /\ PendingDeletionExcludesPage'
  <2>1. UNCHANGED <<ui, export, page, deletion, open>>
    BY <1>1 DEF Write
  <2>2. deletion => mine' = {}
    <3>1. CASE t = Page /\ deletion
      <4>1. page = "crashed" /\ mine = {}
        BY <1>0, <1>1, <3>1 DEF Write
      <4> QED
        BY <1>1, <4>1 DEF Write
    <3>2. CASE t # Page /\ deletion
      BY <1>0, <1>1, <3>2 DEF Write
    <3> QED
      BY <3>1, <3>2
  <2> QED
    BY <1>0, <2>1, <2>2
<1>2. ASSUME NEW t \in Tabs, Opens(t) \/ Closes(t)
      PROVE  BusyIsWork' /\ PendingDeletionExcludesPage'
  BY <1>0, <1>2 DEF Opens, Closes
<1>3. ASSUME NEW t \in Tabs, HearsVersionChange(t)
      PROVE  BusyIsWork' /\ PendingDeletionExcludesPage'
  BY <1>0, <1>f, <1>3 DEF HearsVersionChange, Reloaded
<1>4. CASE PanelCrashes \/ AppCrashes \/ Retry \/ PageReloads \/ OperationsEnd
  BY <1>0, <1>f, <1>4
  DEF PanelCrashes, AppCrashes, Retry, PageReloads, Reloaded, OperationsEnd
<1>5. CASE StartExport
  <2>1. export' \in Export
    BY <1>5 DEF StartExport, Export
  <2>2. ui'.busy = "export" /\ ui.busy = "none" /\ page # "app" /\ export' # NoExport
    BY <1>0, <1>5, <2>1, <1>n DEF StartExport, UI
  <2> QED
    BY <1>0, <1>5, <2>2 DEF StartExport
<1>6. CASE ReadCrashExportSnapshot
  <2>1. export # NoExport /\ export' # NoExport
    BY <1>6 DEF ReadCrashExportSnapshot, NoExport
  <2> QED
    BY <1>0, <1>6, <2>1 DEF ReadCrashExportSnapshot
<1>7. CASE ExportFails \/ ExportDownloads
  <2>1. PICK ok \in BOOLEAN : ExportEnds(ok)
    BY <1>7 DEF ExportFails, ExportDownloads
  <2>2. ui'.busy = "none" /\ export' = NoExport
    BY <1>0, <2>1, ExportEndFacts
  <2>3. export # NoExport
    <3>1. NoExport.phase # "read"
      BY DEF NoExport
    <3> QED
      BY <1>7, <3>1 DEF ExportFails, ExportDownloads
  <2>4. ui.busy = "export" /\ UNCHANGED <<page, deletion, open, mine>>
    BY <1>0, <1>7, <2>3 DEF ExportFails, ExportDownloads
  <2> QED
    BY <1>0, <2>2, <2>4
<1>8. CASE ToggleAcknowledgement \/ DisarmClearData \/ ArmClearData
  <2>1. ui'.busy = ui.busy
    BY <1>0, <1>8 DEF ToggleAcknowledgement, DisarmClearData, ArmClearData, UI
  <2> QED
    BY <1>0, <1>8, <2>1 DEF ToggleAcknowledgement, DisarmClearData, ArmClearData
<1>9. CASE HandleClearDataAndReload
  <2>1. ui'.busy = "clear"
    BY <1>0, <1>9 DEF HandleClearDataAndReload, UI
  <2> QED
    BY <1>0, <1>9, <2>1 DEF HandleClearDataAndReload
<1>10. CASE DeletionTimesOut \/ DeletionFails
  <2>1. IF ui.busy = "clear" THEN ui'.busy = "none" ELSE ui' = ui
    BY <1>0, <1>10 DEF DeletionTimesOut, DeletionFails, UI
  <2> QED
    BY <1>0, <1>10, <2>1 DEF DeletionTimesOut, DeletionFails
<1>11. CASE DatabaseIsDeleted
  BY <1>0, <1>f, <1>11 DEF DatabaseIsDeleted, Reloaded
<1>12. CASE UNCHANGED vars
  BY <1>0, <1>12 DEF vars
<1> QED
  BY <1>1, <1>2, <1>3, <1>4, <1>5, <1>6, <1>7, <1>8, <1>9, <1>10, <1>11, <1>12
  DEF Next

(***************************************************************************)
(* It holds from the start.                                                *)
(***************************************************************************)
LEMMA WaitInvHolds == Spec => []WaitInv
<1>1. Init => WaitInv
  <2>1. Init => TypeOK
    BY FreshType DEF Init, TypeOK
  <2>2. Init => BusyIsWork /\ PendingDeletionExcludesPage
    BY DEF Init, BusyIsWork, PendingDeletionExcludesPage, FreshUI
  <2> QED
    BY <2>1, <2>2 DEF WaitInv
<1>2. WaitInv /\ [Next]_vars => WaitInv'
  BY WaitStep
<1> QED
  BY <1>1, <1>2, PTL DEF Spec

(***************************************************************************)
(* The page is never on both sides of the wait of an export for a          *)
(* deletion, whatever tabs, timeouts, retries and crashes came before.     *)
(***************************************************************************)
THEOREM ExportsDoNotHoldDeletions == Spec => []NoWaitInACircle
<1>1. WaitInv => NoWaitInACircle
  BY DEF WaitInv, BusyIsWork, PendingDeletionExcludesPage, NoWaitInACircle
<1> QED
  BY <1>1, WaitInvHolds, PTL

-------------------------------------------------------------------------------
(***************************************************************************)
(* What unlocks the reset was downloaded from the rows the crash page      *)
(* started with.  Rows come and go meanwhile, by other tabs and by what    *)
(* was under way; those of the crash that still stand are in every         *)
(* snapshot read since, and in every file.                                 *)
(***************************************************************************)
ExportsCoverTheCrash ==
    /\ before \subseteq table
    /\ page = "crashed" /\ export.phase = "read"
           => before \ Malformed \subseteq export.found
    /\ ui.hasExported => page = "crashed" /\ before \ Malformed \subseteq files

(***************************************************************************)
(* Every step keeps the claim.                                             *)
(***************************************************************************)
LEMMA CoverStep ==
    ASSUME WaitInv, ExportsCoverTheCrash, [Next]_vars
    PROVE  ExportsCoverTheCrash'
<1> USE DEF ExportsCoverTheCrash
<1>0. /\ TypeOK /\ page \in {"app", "panel", "crashed"}
      /\ ui \in UI /\ export \in {NoExport} \cup Export
      /\ ui.busy = "export" <=> export # NoExport
      /\ ui.busy = "export" => page # "app"
  BY DEF WaitInv, BusyIsWork, TypeOK
<1>1. ~FreshUI.hasExported /\ NoExport.phase = "none"
  BY DEF FreshUI, NoExport
<1>2. ASSUME NEW t \in Tabs, Write(t) PROVE ExportsCoverTheCrash'
  <2>1. before' \subseteq before /\ before' \subseteq table'
    BY <1>2 DEF Write
  <2>2. UNCHANGED <<page, ui, export, files>>
    BY <1>2 DEF Write
  <2> QED
    BY <2>1, <2>2
<1>2a. ASSUME NEW t \in Tabs, Opens(t) \/ Closes(t) PROVE ExportsCoverTheCrash'
  BY <1>2a DEF Opens, Closes
<1>3. CASE Reloaded /\ before' \subseteq table'
  BY <1>1, <1>3 DEF Reloaded
<1>4. ASSUME NEW t \in Tabs, HearsVersionChange(t) PROVE ExportsCoverTheCrash'
  BY <1>3, <1>4 DEF HearsVersionChange
<1>5. CASE PanelCrashes \/ AppCrashes \/ Retry
  BY <1>0, <1>1, <1>5 DEF PanelCrashes, AppCrashes, Retry
<1>6. CASE OperationsEnd
  BY <1>6 DEF OperationsEnd
<1>7. CASE StartExport
  <2>1. export'.phase = "opening" /\ ui'.hasExported = ui.hasExported
    BY <1>0, <1>7 DEF StartExport, UI
  <2> QED
    BY <1>7, <2>1 DEF StartExport
<1>8. CASE ReadCrashExportSnapshot
  <2>1. export'.found = table \ Malformed
    BY <1>8 DEF ReadCrashExportSnapshot
  <2> QED
    BY <1>8, <2>1 DEF ReadCrashExportSnapshot
<1>9. CASE ExportFails
  <2>1. ui'.hasExported => ui.hasExported
    BY <1>0, <1>9 DEF ExportFails, ExportEnds, UI
  <2> QED
    BY <1>1, <1>9, <2>1 DEF ExportFails, ExportEnds
<1>10. CASE ExportDownloads
  <2>1. PICK recorded \in BOOLEAN : ExportEnds(recorded)
    BY <1>10 DEF ExportDownloads
  <2>2. /\ export' = NoExport
        /\ page # "crashed" => ui'.hasExported = ui.hasExported
    BY <1>0, <2>1, ExportEndFacts
  <2>3. page = "crashed" => before \ Malformed \subseteq files'
    BY <1>10 DEF ExportDownloads
  <2> QED
    BY <1>1, <1>10, <2>2, <2>3 DEF ExportDownloads
<1>11. CASE ToggleAcknowledgement \/ DisarmClearData \/ ArmClearData
            \/ HandleClearDataAndReload \/ DeletionTimesOut \/ DeletionFails
  <2>1. ui'.hasExported = ui.hasExported
    BY <1>0, <1>11
    DEF ToggleAcknowledgement, DisarmClearData, ArmClearData,
        HandleClearDataAndReload, DeletionTimesOut, DeletionFails, UI
  <2> QED
    BY <1>11, <2>1
    DEF ToggleAcknowledgement, DisarmClearData, ArmClearData,
        HandleClearDataAndReload, DeletionTimesOut, DeletionFails
<1>12. CASE DatabaseIsDeleted
  BY <1>3, <1>12 DEF DatabaseIsDeleted
<1>13. CASE PageReloads
  BY <1>3, <1>13 DEF PageReloads
<1>14. CASE UNCHANGED vars
  BY <1>14 DEF vars
<1> QED
  BY <1>2, <1>2a, <1>4, <1>5, <1>6, <1>7, <1>8, <1>9, <1>10, <1>11, <1>12,
     <1>13, <1>14 DEF Next

(***************************************************************************)
(* The marker of a reset is set by the armed control of the crash page and *)
(* by nothing else.                                                        *)
(***************************************************************************)
LEMMA OnlyTheControlResets ==
    ASSUME TypeOK, [Next]_vars, ui.busy # "clear", ui'.busy = "clear"
    PROVE  HandleClearDataAndReload
<1>0. ui \in UI /\ FreshUI.busy = "none"
  BY DEF TypeOK, FreshUI
<1>1. ~(ToggleAcknowledgement \/ DisarmClearData \/ ArmClearData
        \/ DeletionTimesOut \/ DeletionFails \/ StartExport)
  BY <1>0
  DEF ToggleAcknowledgement, DisarmClearData, ArmClearData,
      DeletionTimesOut, DeletionFails, StartExport, UI
<1>3. ~(ExportFails \/ ExportDownloads)
  BY ExportEndFacts DEF ExportFails, ExportDownloads
<1>4. ~(ui' = ui \/ ui' = FreshUI)
  BY <1>0
<1> QED
  BY <1>1, <1>3, <1>4
  DEF Next, Write, Opens, Closes, HearsVersionChange, Reloaded, PanelCrashes,
      AppCrashes, OperationsEnd, Retry, PageReloads, ReadCrashExportSnapshot,
      DatabaseIsDeleted, vars

(***************************************************************************)
(* Without the acknowledgement the reset is requested only when every      *)
(* well-formed row of the crash that still stands is in a downloaded file. *)
(***************************************************************************)
THEOREM ResetIsBackedUp == Spec => ResetNeedsBackupOrConsent
<1>1. Init => ExportsCoverTheCrash
  BY DEF Init, ExportsCoverTheCrash, FreshUI, NoExport
<1>2. WaitInv /\ ExportsCoverTheCrash /\ [Next]_vars => ExportsCoverTheCrash'
  BY CoverStep
<1>3. WaitInv /\ ExportsCoverTheCrash /\ [Next]_vars
          => [ui.busy # "clear" /\ ui'.busy = "clear" /\ ~ui.ack
                  => before \ Malformed \subseteq files]_vars
  BY OnlyTheControlResets
  DEF WaitInv, HandleClearDataAndReload, ClearDataUnlocked, ExportsCoverTheCrash
<1> QED
  BY <1>1, <1>2, <1>3, WaitInvHolds, PTL DEF Spec, ResetNeedsBackupOrConsent

(***************************************************************************)
(* The files cover the rows of the crash; what is recorded after it is in  *)
(* no file that was read before.  Two kinds of writers leave that gap:     *)
(* other tabs, and operations of this page that began before the crash and *)
(* commit after it.  Without either, over any retries, crashes, timeouts   *)
(* and earlier resets, a reset without the acknowledgement is requested    *)
(* only when every well-formed row there is at that moment is in a file.   *)
(***************************************************************************)
ResetLosesNothing ==
    [][ui.busy # "clear" /\ ui'.busy = "clear" /\ ~ui.ack
           => table \ Malformed \subseteq files]_vars
CrashedTableStands == page = "crashed" => table \subseteq before

(***************************************************************************)
(* Without the two nobody writes while the crash page is shown.            *)
(***************************************************************************)
LEMMA StandsStep ==
    ASSUME Peers = {}, ~underWay, CrashedTableStands, [Next]_vars
    PROVE  CrashedTableStands'
<1> USE DEF CrashedTableStands
<1>1. ASSUME NEW t \in Tabs, Write(t) PROVE CrashedTableStands'
  BY <1>1 DEF Write, Tabs
<1>2. ASSUME NEW t \in Tabs, Opens(t) \/ Closes(t) \/ HearsVersionChange(t)
      PROVE  CrashedTableStands'
  BY <1>2 DEF Opens, Closes, HearsVersionChange, Reloaded
<1>3. CASE PanelCrashes \/ AppCrashes \/ Retry \/ PageReloads
  BY <1>3 DEF PanelCrashes, AppCrashes, Retry, PageReloads, Reloaded
<1>4. CASE DatabaseIsDeleted
  BY <1>4 DEF DatabaseIsDeleted
<1>5. CASE UNCHANGED <<page, table, before>>
  BY <1>5
<1> QED
  BY <1>1, <1>2, <1>3, <1>4, <1>5
  DEF Next, OperationsEnd, StartExport, ReadCrashExportSnapshot, ExportFails,
      ExportDownloads, ToggleAcknowledgement, DisarmClearData, ArmClearData,
      HandleClearDataAndReload, DeletionTimesOut, DeletionFails, vars

(***************************************************************************)
(* Without other tabs and without operations under way at the crash, the   *)
(* backup that a reset demands holds every well-formed row that the reset  *)
(* destroys.                                                               *)
(***************************************************************************)
THEOREM LoneResetIsBackedUp ==
    ASSUME Peers = {}
    PROVE  Spec /\ []~underWay => ResetLosesNothing
<1>1. Init => ExportsCoverTheCrash /\ CrashedTableStands
  BY DEF Init, ExportsCoverTheCrash, CrashedTableStands, FreshUI, NoExport
<1>2. WaitInv /\ ~underWay /\ ExportsCoverTheCrash /\ CrashedTableStands
          /\ [Next]_vars
          => ExportsCoverTheCrash' /\ CrashedTableStands'
  BY CoverStep, StandsStep
<1>3. WaitInv /\ ExportsCoverTheCrash /\ CrashedTableStands /\ [Next]_vars
          => [ui.busy # "clear" /\ ui'.busy = "clear" /\ ~ui.ack
                  => table \ Malformed \subseteq files]_vars
  BY OnlyTheControlResets
  DEF WaitInv, HandleClearDataAndReload, ClearDataUnlocked, ExportsCoverTheCrash,
      CrashedTableStands
<1> QED
  BY <1>1, <1>2, <1>3, WaitInvHolds, PTL DEF Spec, ResetLosesNothing

-------------------------------------------------------------------------------
(***************************************************************************)
(* A deletion that outlives its timeout takes nothing the app wrote on     *)
(* this page since it was asked for.                                       *)
(***************************************************************************)
THEOREM RetriedPageKeepsItsWrites == Spec => RetriedPageWritesSurvive
<1>1. WaitInv =>
          [deletion /\ ~deletion' /\ table' # table => mine \cap table = {}]_vars
  BY DEF WaitInv, PendingDeletionExcludesPage
<1> QED
  BY <1>1, WaitInvHolds, PTL DEF RetriedPageWritesSurvive
===============================================================================
