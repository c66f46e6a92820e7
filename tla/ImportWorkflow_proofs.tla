------------------------- MODULE ImportWorkflow_proofs -------------------------
(***************************************************************************)
(* Theorems about ImportWorkflow, for any number of requests and of        *)
(* overlapping backups: the file selected last is the one staged, what is  *)
(* armed and acknowledged is what is written, a replace has a backup       *)
(* behind it, and the backup button is never locked for good.              *)
(***************************************************************************)
EXTENDS ImportWorkflow, TLAPS

(***************************************************************************)
(* While replace mode is shown, an armed replace was armed for the preview *)
(* on screen; a given acknowledgment is for this preview and mode; and the *)
(* saves are what the properties compare the phase with.                   *)
(***************************************************************************)
ArmedForPending == (armed /\ mode = "replace") => armedFor = pending.req

AcknowledgedForPending == ack => ackedFor = <<pending.req, mode>>

SavesAreTyped == saves \in [Saves -> {"none", "current", "outdated"}]

StagingInv ==
    ArmedForPending /\ AcknowledgedForPending /\ SavesAreTyped /\ SavingHasSave

(***************************************************************************)
(* Resetting the checkpoint disarms, and leaves no save behind a phase.    *)
(***************************************************************************)
LEMMA ResetKeepsSaves ==
    ASSUME SavesAreTyped, resetReplaceWorkflow
    PROVE  SavesAreTyped' /\ SavingHasSave' /\ ArmedForPending'
BY DEF SavesAreTyped, resetReplaceWorkflow, SavingHasSave, Outdated,
       ArmedForPending

(***************************************************************************)
(* Clearing the staging area establishes the invariant.                    *)
(***************************************************************************)
LEMMA ClearEstablishes ==
    ASSUME SavesAreTyped, clearPendingImport
    PROVE  StagingInv'
<1>1. SavesAreTyped' /\ SavingHasSave' /\ ArmedForPending'
  BY ResetKeepsSaves DEF clearPendingImport
<1>2. AcknowledgedForPending'
  BY DEF clearPendingImport, AcknowledgedForPending
<1> QED
  BY <1>1, <1>2 DEF StagingInv

(***************************************************************************)
(* The end of a save is the end of the phase "saving".                     *)
(***************************************************************************)
LEMMA SaveEndKeeps ==
    ASSUME StagingInv, NEW s \in Saves, NEW phase \in {"ready", "manual", "idle"},
           SaveEnds(s, phase)
    PROVE  StagingInv'
<1>1. SavesAreTyped' /\ SavingHasSave'
  BY DEF StagingInv, SavesAreTyped, SavingHasSave, SaveEnds
<1>2. ArmedForPending' /\ AcknowledgedForPending'
  BY DEF StagingInv, SaveEnds, staging, ArmedForPending, AcknowledgedForPending
<1> QED
  BY <1>1, <1>2 DEF StagingInv

(***************************************************************************)
(* Every step of the panel keeps the invariant.                            *)
(***************************************************************************)
LEMMA StagingStep ==
    ASSUME StagingInv, [Next]_vars
    PROVE  StagingInv'
<1> USE DEF StagingInv
<1>1. CASE SelectFile
  BY <1>1, ResetKeepsSaves DEF SelectFile, AcknowledgedForPending
<1>2. ASSUME NEW r \in reading, NEW kind \in Kinds, PreviewArrives(r, kind)
      PROVE  StagingInv'
  BY <1>2 DEF PreviewArrives, checkpoint, history, ArmedForPending,
     AcknowledgedForPending, SavesAreTyped, SavingHasSave
<1>3. ASSUME NEW r \in reading, PreviewDropped(r) PROVE StagingInv'
  BY <1>3 DEF PreviewDropped, staging, checkpoint, history, ArmedForPending,
     AcknowledgedForPending, SavesAreTyped, SavingHasSave
<1>4. ASSUME NEW r \in reading, PreviewFails(r) PROVE StagingInv'
  BY <1>4, ClearEstablishes DEF PreviewFails
<1>5. ASSUME NEW m \in Modes, SetImportMode(m) PROVE StagingInv'
  BY <1>5, ResetKeepsSaves DEF SetImportMode, AcknowledgedForPending
<1>6. CASE AcknowledgeRisk
  BY <1>6 DEF AcknowledgeRisk, checkpoint, ArmedForPending,
     AcknowledgedForPending, SavesAreTyped, SavingHasSave
<1>7. CASE CancelImport \/ CommitSucceeds
  BY <1>7, ClearEstablishes DEF CancelImport, CommitSucceeds
<1>8. CASE ConfirmMerge \/ ExecuteReplace \/ CommitFails
  BY <1>8 DEF ConfirmMerge, ExecuteReplace, CommitBegins, CommitFails, staging,
     checkpoint, history, ArmedForPending, AcknowledgedForPending,
     SavesAreTyped, SavingHasSave
<1>9. CASE ArmReplace \/ DisarmReplace
  BY <1>9 DEF ArmReplace, DisarmReplace, staging, history, ArmedForPending,
     AcknowledgedForPending, SavesAreTyped, SavingHasSave
<1>10. ASSUME NEW s \in Saves, PrepareReplaceBackup(s) PROVE StagingInv'
  <2>1. SavesAreTyped' /\ SavingHasSave'
    BY <1>10 DEF PrepareReplaceBackup, SavesAreTyped, SavingHasSave
  <2> QED
    BY <1>10, <2>1 DEF PrepareReplaceBackup, staging, ArmedForPending,
       AcknowledgedForPending
<1>11. ASSUME NEW s \in Saves, SaveVerified(s) \/ SaveNeedsCheck(s) \/ SaveFails(s)
       PROVE  StagingInv'
  BY <1>11, SaveEndKeeps DEF SaveVerified, SaveNeedsCheck, SaveFails
<1>12. CASE TickManualBackup \/ AcknowledgeManualBackup
  BY <1>12 DEF TickManualBackup, AcknowledgeManualBackup, staging, history,
     ArmedForPending, AcknowledgedForPending, SavesAreTyped, SavingHasSave
<1>13. CASE UNCHANGED vars
  BY <1>13 DEF vars, staging, checkpoint, history, ArmedForPending,
     AcknowledgedForPending, SavesAreTyped, SavingHasSave
<1> QED
  BY <1>1, <1>2, <1>3, <1>4, <1>5, <1>6, <1>7, <1>8, <1>9, <1>10, <1>11,
     <1>12, <1>13 DEF Next, Settles

(***************************************************************************)
(* The invariant holds in every reachable state.                           *)
(***************************************************************************)
LEMMA StagingInvHolds == Spec => []StagingInv
<1>1. Init => StagingInv
  BY DEF Init, StagingInv, ArmedForPending, AcknowledgedForPending,
         SavesAreTyped, SavingHasSave
<1>2. StagingInv /\ [Next]_vars => StagingInv'
  BY StagingStep
<1> QED
  BY <1>1, <1>2, PTL DEF Spec

(***************************************************************************)
(* A replace writes the preview that was on screen when it was armed.      *)
(***************************************************************************)
THEOREM ArmedIsExecuted == Spec => ReplaceExecutesWhatWasArmed
<1>1. StagingInv => (ExecuteReplace => armedFor = pending.req)
  BY DEF StagingInv, ArmedForPending, ExecuteReplace
<1> QED
  BY <1>1, StagingInvHolds, PTL DEF ReplaceExecutesWhatWasArmed

(***************************************************************************)
(* A risky file is written only if its risk was acknowledged for that file *)
(* and for the mode it is written in.                                      *)
(***************************************************************************)
THEOREM RiskIsAcknowledged == Spec => RiskIsAcknowledgedForThisCommit
<1>1. StagingInv => (CommitBegins /\ pending.kind = "risky"
                         => ackedFor = <<pending.req, mode>>)
  BY DEF StagingInv, AcknowledgedForPending, CommitBegins, canCommitImport
<1> QED
  BY <1>1, StagingInvHolds, PTL DEF RiskIsAcknowledgedForThisCommit

(***************************************************************************)
(* However many backups overlap, the phase is "saving" only while one of   *)
(* them runs.                                                              *)
(***************************************************************************)
THEOREM BackupIsNeverLocked == Spec => []SavingHasSave
BY StagingInvHolds, PTL DEF StagingInv

-------------------------------------------------------------------------------
(* Types.                                                                  *)

(***************************************************************************)
(* Clearing the staging area keeps the types, for it forgets everything    *)
(* but the number of requests.                                             *)
(***************************************************************************)
LEMMA ClearTypes ==
    ASSUME TypeOK, clearPendingImport
    PROVE  /\ latest' \in Nat /\ 1..latest \subseteq 1..latest'
           /\ 0..latest \subseteq 0..latest'
           /\ live' = 0 /\ pending' = NoPreview /\ mode' \in Modes
           /\ ack' \in BOOLEAN /\ confirmed' \in BOOLEAN /\ armed' \in BOOLEAN
           /\ backup' = "idle" /\ backedUp' = "none"
           /\ saves' \in [Saves -> {"none", "current", "outdated"}]
<1>1. latest' = latest + 1 /\ latest \in Nat
  BY DEF clearPendingImport, TypeOK
<1>2. saves' \in [Saves -> {"none", "current", "outdated"}]
  <2>1. saves' = [s \in Saves |-> Outdated(saves[s])]
    BY DEF clearPendingImport, resetReplaceWorkflow
  <2>2. saves \in [Saves -> {"none", "current", "outdated"}]
    BY DEF TypeOK
  <2> QED
    BY <2>1, <2>2 DEF Outdated
<1>3. 1..latest \subseteq 1..latest' /\ 0..latest \subseteq 0..latest'
  BY <1>1
<1>4. latest' \in Nat
  BY <1>1
<1>5. /\ live' = 0 /\ pending' = NoPreview /\ mode' \in Modes
      /\ ack' \in BOOLEAN /\ confirmed' \in BOOLEAN /\ armed' \in BOOLEAN
      /\ backup' = "idle" /\ backedUp' = "none"
  BY Zenon DEF clearPendingImport, resetReplaceWorkflow, Modes
<1> QED
  BY <1>2, <1>3, <1>4, <1>5

(***************************************************************************)
(* A staged preview that can be committed comes from a request.            *)
(***************************************************************************)
LEMMA StagedRequest ==
    ASSUME TypeOK, pending.kind \in {"good", "risky"}
    PROVE  pending.req \in 1..latest
BY DEF TypeOK, NoPreview

(***************************************************************************)
(* Every step of the panel keeps the types.                                *)
(***************************************************************************)
LEMMA TypeStep ==
    ASSUME TypeOK, [Next]_vars
    PROVE  TypeOK'
<1>0. latest \in Nat /\ reading \subseteq 1..latest
  BY DEF TypeOK
<1>1. CASE SelectFile
  <2>1. latest' = latest + 1 /\ live' = latest + 1
        /\ reading' = reading \cup {latest + 1}
    BY <1>1 DEF SelectFile
  <2>2. /\ latest' \in Nat /\ reading' \subseteq 1..latest'
        /\ live' \in {0} \cup reading'
        /\ 1..latest \subseteq 1..latest' /\ 0..latest \subseteq 0..latest'
    BY <1>0, <2>1
  <2>3. saves' \in [Saves -> {"none", "current", "outdated"}]
    BY <1>1 DEF SelectFile, resetReplaceWorkflow, Outdated, TypeOK
  <2>4. pending' \in [req : 1..latest', kind : Kinds] \cup {NoPreview}
    BY <1>1, <2>2 DEF SelectFile, TypeOK
  <2>5. committing' \in 0..latest' /\ {selected', armedFor'} \subseteq 0..latest'
        /\ ackedFor' \in (0..latest') \X Modes
    BY <1>0, <1>1, <2>2 DEF SelectFile, TypeOK
  <2> QED
    BY <1>1, <2>2, <2>3, <2>4, <2>5 DEF SelectFile, resetReplaceWorkflow, TypeOK
<1>2. ASSUME NEW r \in reading, NEW kind \in Kinds, PreviewArrives(r, kind)
      PROVE  TypeOK'
  <2>1. pending' \in [req : 1..latest', kind : Kinds]
    BY <1>0, <1>2 DEF PreviewArrives
  <2> QED
    BY <1>2, <2>1 DEF PreviewArrives, checkpoint, history, Modes, TypeOK
<1>3. ASSUME NEW r \in reading, PreviewDropped(r) PROVE TypeOK'
  BY <1>3 DEF PreviewDropped, staging, checkpoint, history, TypeOK
<1>4. ASSUME NEW r \in reading, PreviewFails(r) PROVE TypeOK'
  <2>1. clearPendingImport /\ reading' \subseteq reading
        /\ UNCHANGED <<committing, selected, armedFor, ackedFor>>
    BY <1>4 DEF PreviewFails
  <2>2. committing' \in 0..latest' /\ {selected', armedFor'} \subseteq 0..latest'
        /\ ackedFor' \in (0..latest') \X Modes /\ reading' \subseteq 1..latest'
    BY <2>1, ClearTypes DEF TypeOK
  <2> QED
    BY <2>1, <2>2, ClearTypes DEF TypeOK
<1>5. ASSUME NEW m \in Modes, SetImportMode(m) PROVE TypeOK'
  BY <1>5 DEF SetImportMode, resetReplaceWorkflow, Outdated, TypeOK
<1>6. CASE AcknowledgeRisk
  <2>1. ackedFor' \in (0..latest) \X Modes
    BY <1>0, <1>6, StagedRequest DEF AcknowledgeRisk, TypeOK
  <2> QED
    BY <1>6, <2>1 DEF AcknowledgeRisk, checkpoint, TypeOK
<1>7. CASE CancelImport \/ CommitSucceeds
  <2>1. clearPendingImport /\ committing' \in {0, committing}
        /\ UNCHANGED <<reading, selected, armedFor, ackedFor>>
    BY <1>7 DEF CancelImport, CommitSucceeds
  <2>2. committing' \in 0..latest' /\ {selected', armedFor'} \subseteq 0..latest'
        /\ ackedFor' \in (0..latest') \X Modes /\ reading' \subseteq 1..latest'
    BY <1>0, <2>1, ClearTypes DEF TypeOK
  <2> QED
    BY <2>1, <2>2, ClearTypes DEF TypeOK
<1>8. CASE ConfirmMerge \/ ExecuteReplace
  <2>1. CommitBegins
    BY <1>8 DEF ConfirmMerge, ExecuteReplace
  <2>2. pending.req \in 0..latest
    BY <1>0, <2>1, StagedRequest
       DEF CommitBegins, canCommitImport, isSuccessfulImportPreview
  <2> QED
    BY <2>1, <2>2 DEF CommitBegins, staging, checkpoint, history, TypeOK
<1>9. CASE CommitFails
  BY <1>0, <1>9 DEF CommitFails, staging, checkpoint, history, TypeOK
<1>10. CASE ArmReplace
  <2>1. pending.req \in 0..latest
    BY <1>0, <1>10, StagedRequest DEF ArmReplace, ReplaceShown, isSuccessfulImportPreview
  <2> QED
    BY <1>10, <2>1 DEF ArmReplace, staging, TypeOK
<1>11. CASE DisarmReplace \/ TickManualBackup \/ AcknowledgeManualBackup
  BY <1>11 DEF DisarmReplace, TickManualBackup, AcknowledgeManualBackup, staging,
     history, TypeOK
<1>12. ASSUME NEW s \in Saves, PrepareReplaceBackup(s) PROVE TypeOK'
  BY <1>12 DEF PrepareReplaceBackup, staging, TypeOK
<1>13. ASSUME NEW s \in Saves, NEW phase \in {"ready", "manual", "idle"},
              SaveEnds(s, phase)
       PROVE  TypeOK'
  BY <1>13 DEF SaveEnds, staging, TypeOK
<1>14. CASE UNCHANGED vars
  BY <1>14 DEF vars, staging, checkpoint, history, TypeOK
<1> QED
  BY <1>1, <1>2, <1>3, <1>4, <1>5, <1>6, <1>7, <1>8, <1>9, <1>10, <1>11, <1>12,
     <1>13, <1>14 DEF Next, Settles, SaveVerified, SaveNeedsCheck, SaveFails

(***************************************************************************)
(* The types of the panel: a request that can still be aborted is being    *)
(* read, and whatever is written, armed or acknowledged was requested.     *)
(***************************************************************************)
THEOREM TypeCorrect == Spec => []TypeOK
<1>1. Init => TypeOK
  <2> SUFFICES ASSUME Init PROVE TypeOK
    OBVIOUS
  <2>1. /\ latest \in Nat /\ reading \subseteq 1..latest /\ live \in {0} \cup reading
        /\ committing \in 0..latest /\ {selected, armedFor} \subseteq 0..latest
        /\ ackedFor \in (0..latest) \X Modes
    BY DEF Init, Modes
  <2>2. /\ pending \in [req : 1..latest, kind : Kinds] \cup {NoPreview}
        /\ mode \in Modes /\ {ack, confirmed, armed} \subseteq BOOLEAN
        /\ backup \in {"idle", "saving", "manual", "ready"}
        /\ backedUp \in {"none", "current", "outdated"}
    BY Zenon DEF Init, Modes
  <2>3. saves \in [Saves -> {"none", "current", "outdated"}]
    BY DEF Init
  <2> QED
    BY <2>1, <2>2, <2>3, Zenon DEF TypeOK
<1>2. TypeOK /\ [Next]_vars => TypeOK'
  BY TypeStep
<1> QED
  BY <1>1, <1>2, PTL DEF Spec

-------------------------------------------------------------------------------
(* Which preview is staged.                                                *)

(***************************************************************************)
(* The code asks twice whether a preview is still wanted, by the           *)
(* controller (live) and by the request number (latest).  The two always   *)
(* agree: what can still be aborted is the latest request while it is      *)
(* being read, so a preview that was not aborted is never dropped, and     *)
(* every request that settles does so in one of the ways of Settles.       *)
(***************************************************************************)
OnlyLatestIsLive == live = IF latest \in reading THEN latest ELSE 0

(***************************************************************************)
(* A new number is the number of no request that is being read.            *)
(***************************************************************************)
LEMMA NextRequestIsNew ==
    ASSUME TypeOK
    PROVE  /\ latest + 1 \notin reading /\ latest \in Nat
           /\ \A r \in reading : r # 0
BY DEF TypeOK

(***************************************************************************)
(* Clearing the staging area lets the controller go with the number.       *)
(***************************************************************************)
LEMMA ClearDropsController ==
    ASSUME TypeOK, clearPendingImport, reading' \subseteq reading
    PROVE  OnlyLatestIsLive'
BY NextRequestIsNew DEF clearPendingImport, OnlyLatestIsLive

(***************************************************************************)
(* Every step of the panel keeps the two tests in agreement.               *)
(***************************************************************************)
LEMMA ControllerStep ==
    ASSUME TypeOK, OnlyLatestIsLive, [Next]_vars
    PROVE  OnlyLatestIsLive'
<1>1. CASE UNCHANGED <<latest, reading, live>>
  BY <1>1 DEF OnlyLatestIsLive
<1>2. CASE SelectFile
  BY <1>2 DEF SelectFile, OnlyLatestIsLive
<1>3. ASSUME NEW r \in reading, NEW kind \in Kinds, PreviewArrives(r, kind)
      PROVE  OnlyLatestIsLive'
  BY <1>3 DEF PreviewArrives, OnlyLatestIsLive
<1>4. ASSUME NEW r \in reading, PreviewDropped(r) PROVE OnlyLatestIsLive'
  BY <1>4 DEF PreviewDropped, staging, OnlyLatestIsLive
<1>5. ASSUME NEW r \in reading, PreviewFails(r) PROVE OnlyLatestIsLive'
  BY <1>5, ClearDropsController DEF PreviewFails
<1>6. CASE CancelImport \/ CommitSucceeds
  BY <1>6, ClearDropsController DEF CancelImport, CommitSucceeds
<1>7. CASE \/ \E m \in Modes : SetImportMode(m)
           \/ AcknowledgeRisk \/ ConfirmMerge \/ ArmReplace \/ DisarmReplace
           \/ ExecuteReplace \/ CommitFails
           \/ TickManualBackup \/ AcknowledgeManualBackup
  BY <1>1, <1>7 DEF SetImportMode, AcknowledgeRisk, ConfirmMerge, CommitBegins,
     ArmReplace, DisarmReplace, ExecuteReplace, CommitFails, TickManualBackup,
     AcknowledgeManualBackup, staging
<1>8. CASE \E s \in Saves : \/ PrepareReplaceBackup(s) \/ SaveVerified(s)
                           \/ SaveNeedsCheck(s) \/ SaveFails(s)
  BY <1>1, <1>8 DEF PrepareReplaceBackup, SaveVerified, SaveNeedsCheck,
     SaveFails, SaveEnds, staging
<1>9. CASE UNCHANGED vars
  BY <1>1, <1>9 DEF vars, staging
<1> QED
  BY <1>2, <1>3, <1>4, <1>5, <1>6, <1>7, <1>8, <1>9 DEF Next, Settles

(***************************************************************************)
(* The request that can still be aborted is the latest one, as long as it  *)
(* is being read, and no other ever is.                                    *)
(***************************************************************************)
THEOREM LatestRequestIsLive == Spec => []OnlyLatestIsLive
<1>1. Init => OnlyLatestIsLive
  BY DEF Init, OnlyLatestIsLive
<1>2. TypeOK /\ OnlyLatestIsLive /\ [Next]_vars => OnlyLatestIsLive'
  BY ControllerStep
<1> QED
  BY <1>1, <1>2, TypeCorrect, PTL DEF Spec

(***************************************************************************)
(* While a preview is on screen no number has been given out since the     *)
(* last file was selected, and the preview is of that file unless the file *)
(* is still being read.  Whatever gives out a number without a selection,  *)
(* a failure, a cancel or a commit, takes the preview off the screen.      *)
(***************************************************************************)
SelectionInv ==
    /\ reading \subseteq 1..selected
    /\ pending # NoPreview =>
           /\ selected = latest
           /\ Superseded => selected \in reading

(***************************************************************************)
(* What can still be aborted is the file selected last.                    *)
(***************************************************************************)
LEMMA LiveIsSelected ==
    ASSUME TypeOK, OnlyLatestIsLive, SelectionInv, NEW r \in reading, live = r
    PROVE  r = selected /\ r = latest
<1>1. latest \in Nat /\ selected \in 0..latest /\ r \in 1..latest
      /\ r \in 1..selected
  BY DEF TypeOK, SelectionInv
<1>2. r = latest
  BY <1>1 DEF OnlyLatestIsLive
<1> QED
  BY <1>1, <1>2

(***************************************************************************)
(* Clearing the staging area keeps the invariant, and so does a step that  *)
(* leaves the selection and what is read alone.                            *)
(***************************************************************************)
LEMMA NothingStagedKeepsSelection ==
    ASSUME SelectionInv, UNCHANGED selected, reading' \subseteq reading,
           \/ clearPendingImport
           \/ UNCHANGED <<latest, reading, pending>>
    PROVE  SelectionInv' /\ (Superseded' => selected' \in reading'
                                            /\ (pending' = pending))
<1>1. CASE clearPendingImport
  <2>1. pending' = NoPreview
    BY <1>1 DEF clearPendingImport
  <2> QED
    BY <2>1 DEF SelectionInv, Superseded, NoPreview
<1>2. CASE UNCHANGED <<latest, reading, pending>>
  BY <1>2 DEF SelectionInv, Superseded, NoPreview
<1> QED
  BY <1>1, <1>2

(***************************************************************************)
(* Every step of the panel keeps the invariant, and stages nothing but the *)
(* file selected last.                                                     *)
(***************************************************************************)
LEMMA SelectionStep ==
    ASSUME TypeOK, OnlyLatestIsLive, SelectionInv, [Next]_vars
    PROVE  SelectionInv' /\ (Superseded' => selected' \in reading'
                                            /\ (pending' = pending))
<1> DEFINE Kept == SelectionInv' /\ (Superseded' => selected' \in reading'
                                                    /\ (pending' = pending))
<1> SUFFICES Kept
  OBVIOUS
<1>1. CASE SelectFile
  <2>1. selected' = latest' /\ latest' = latest + 1 /\ pending' = pending
        /\ reading' = reading \cup {selected'}
    BY <1>1 DEF SelectFile
  <2>2. latest \in Nat /\ reading \subseteq 1..latest
    BY DEF TypeOK
  <2>3. reading' \subseteq 1..selected'
    BY <2>1, <2>2
  <2> QED
    BY <2>1, <2>3 DEF SelectionInv
<1>2. ASSUME NEW r \in reading, NEW kind \in Kinds, PreviewArrives(r, kind)
      PROVE  Kept
  <2>1. r = selected /\ r = latest
    BY <1>2, LiveIsSelected DEF PreviewArrives
  <2>2. /\ UNCHANGED <<latest, selected>> /\ reading' \subseteq reading
        /\ pending'.req = r
    BY <1>2 DEF PreviewArrives, history
  <2> QED
    BY <2>1, <2>2 DEF SelectionInv, Superseded
<1>3. ASSUME NEW r \in reading, PreviewDropped(r) PROVE Kept
  <2>1. /\ UNCHANGED <<latest, selected, pending>> /\ reading' = reading \ {r}
        /\ live # r
    BY <1>3 DEF PreviewDropped, staging, history
  <2>2. pending # NoPreview => r # selected
    BY <2>1 DEF OnlyLatestIsLive, SelectionInv
  <2> QED
    BY <2>1, <2>2 DEF SelectionInv, Superseded
<1>4. ASSUME NEW r \in reading, PreviewFails(r) PROVE Kept
  BY <1>4, NothingStagedKeepsSelection DEF PreviewFails
<1>5. CASE CancelImport \/ CommitSucceeds
  BY <1>5, NothingStagedKeepsSelection DEF CancelImport, CommitSucceeds
<1>6. CASE \/ \E m \in Modes : SetImportMode(m)
           \/ AcknowledgeRisk \/ ConfirmMerge \/ ArmReplace \/ DisarmReplace
           \/ ExecuteReplace \/ CommitFails
           \/ TickManualBackup \/ AcknowledgeManualBackup
           \/ UNCHANGED vars
  <2>1. UNCHANGED <<latest, reading, pending, selected>>
    BY <1>6 DEF SetImportMode, AcknowledgeRisk, ConfirmMerge, CommitBegins,
       ArmReplace, DisarmReplace, ExecuteReplace, CommitFails, TickManualBackup,
       AcknowledgeManualBackup, staging, history, vars
  <2> QED
    BY <2>1, NothingStagedKeepsSelection
<1>7. CASE \E s \in Saves : \/ PrepareReplaceBackup(s) \/ SaveVerified(s)
                           \/ SaveNeedsCheck(s) \/ SaveFails(s)
  <2>1. UNCHANGED <<latest, reading, pending, selected>>
    BY <1>7 DEF PrepareReplaceBackup, SaveVerified, SaveNeedsCheck, SaveFails,
       SaveEnds, staging
  <2> QED
    BY <2>1, NothingStagedKeepsSelection
<1> QED
  BY <1>1, <1>2, <1>3, <1>4, <1>5, <1>6, <1>7 DEF Next, Settles

(***************************************************************************)
(* The file selected last wins, however many files are being read and in   *)
(* whatever order their previews settle: a preview of an earlier file is   *)
(* never staged late and never outlives the reading of the last one.       *)
(***************************************************************************)
THEOREM LatestSelectionIsStaged == Spec => LatestSelectionWins
<1>1. Init => SelectionInv
  BY DEF Init, SelectionInv
<1>2. TypeOK /\ OnlyLatestIsLive /\ SelectionInv /\ [Next]_vars
          => SelectionInv' /\ (Superseded' => selected' \in reading'
                                              /\ (pending' = pending))
  BY SelectionStep
<1> QED
  BY <1>1, <1>2, TypeCorrect, LatestRequestIsLive, PTL
     DEF Spec, LatestSelectionWins

-------------------------------------------------------------------------------
(* The backup behind a replace.                                            *)

(***************************************************************************)
(* The phases that lead to arming have a save behind them.                 *)
(***************************************************************************)
BackupBehindPhase == backup \in {"ready", "manual"} => backedUp # "none"

(***************************************************************************)
(* A replace is executed only when a backup has been saved, whichever way  *)
(* it was confirmed and whatever saves overlapped.  It need not be one     *)
(* that began after the last reset of the checkpoint: backedUp may be      *)
(* "outdated", since a save that overlaps a reset still ends in its phase. *)
(***************************************************************************)
ReplaceHasBackup == [][ExecuteReplace => backedUp # "none"]_vars

(***************************************************************************)
(* Every step of the panel keeps a save behind the phase.                  *)
(***************************************************************************)
LEMMA BackupStep ==
    ASSUME BackupBehindPhase, [Next]_vars
    PROVE  BackupBehindPhase'
<1>1. CASE UNCHANGED <<backup, backedUp>> \/ backup' \in {"idle", "saving"}
  BY <1>1 DEF BackupBehindPhase
<1>2. CASE resetReplaceWorkflow
  BY <1>1, <1>2 DEF resetReplaceWorkflow
<1>3. CASE \/ SelectFile \/ CancelImport \/ CommitSucceeds
           \/ \E r \in reading : PreviewFails(r)
           \/ \E m \in Modes : SetImportMode(m)
  BY <1>2, <1>3 DEF SelectFile, CancelImport, CommitSucceeds, PreviewFails,
     SetImportMode, clearPendingImport
<1>4. CASE \/ \E r \in reading : \/ \E kind \in Kinds : PreviewArrives(r, kind)
                               \/ PreviewDropped(r)
           \/ AcknowledgeRisk \/ ConfirmMerge \/ ArmReplace \/ DisarmReplace
           \/ ExecuteReplace \/ CommitFails \/ TickManualBackup
           \/ UNCHANGED vars
  BY <1>1, <1>4 DEF PreviewArrives, PreviewDropped, AcknowledgeRisk,
     ConfirmMerge, CommitBegins, ArmReplace, DisarmReplace, ExecuteReplace,
     CommitFails, TickManualBackup, checkpoint, history, vars
<1>5. CASE \E s \in Saves : PrepareReplaceBackup(s)
  BY <1>1, <1>5 DEF PrepareReplaceBackup
<1>6. CASE \E s \in Saves : SaveVerified(s) \/ SaveNeedsCheck(s) \/ SaveFails(s)
  BY <1>6 DEF SaveVerified, SaveNeedsCheck, SaveFails, SaveEnds,
     BackupBehindPhase
<1>7. CASE AcknowledgeManualBackup
  BY <1>7 DEF AcknowledgeManualBackup, history, BackupBehindPhase
<1> QED
  BY <1>3, <1>4, <1>5, <1>6, <1>7 DEF Next, Settles

(***************************************************************************)
(* No replace without a backup that was saved or confirmed by hand.        *)
(***************************************************************************)
THEOREM ReplaceIsBackedUp == Spec => ReplaceHasBackup
<1>1. Init => BackupBehindPhase
  BY DEF Init, BackupBehindPhase
<1>2. BackupBehindPhase /\ [Next]_vars => BackupBehindPhase'
  BY BackupStep
<1>3. BackupBehindPhase => (ExecuteReplace => backedUp # "none")
  BY DEF BackupBehindPhase, ExecuteReplace
<1> QED
  BY <1>1, <1>2, <1>3, PTL DEF Spec, ReplaceHasBackup
===============================================================================
