---------------------------- MODULE ImportWorkflow ----------------------------
(***************************************************************************)
(* Staging an import in the export panel of one page: the hooks            *)
(* useImportWorkflow (select a file, preview it, choose the mode,          *)
(* acknowledge a risk, commit) and useReplaceCheckpoint (back the local    *)
(* data up, unlock, arm) with the buttons of ImportRestoreSection.         *)
(*                                                                         *)
(* Previews, backups and the commit are asynchronous and overlap with      *)
(* whatever the operator does meanwhile.  A handler is one step up to its  *)
(* first await, and one step from each await to the next.  React has       *)
(* rendered before the operator acts again.  What a commit does to the     *)
(* table, and the undo it leaves, is in UndoImport.                        *)
(***************************************************************************)
EXTENDS Naturals

CONSTANTS
    Saves,         \* backups that may be in progress at once
    MaxRequests    \* bound on preview requests

ASSUME RequestAssumption == MaxRequests \in Nat

VARIABLES
    latest,      \* previewRequestIdRef
    reading,     \* requests whose preview has not settled
    live,        \* the request previewAbortRef can still abort; 0: none
    pending,     \* pendingImport, with the request it came from
    mode,        \* importMode
    ack,         \* riskyImportAcknowledged
    committing,  \* request of the import being written (importBusy); 0: none
    backup,      \* phase of replaceBackupState
    confirmed,   \* manualBackupConfirmed
    armed,       \* replaceConfirmState is 'armed'
    saves,       \* per save: handlePrepareReplaceBackup awaits it; "outdated"
                 \* is history: the checkpoint was reset after it began
    backedUp,    \* history: the same, of the save behind the phase
    selected,    \* history: the request of the file selected last
    armedFor,    \* history: the request shown when replace was last armed
    ackedFor     \* history: request and mode when ack was last given

staging == <<latest, live, pending, mode, ack>>
checkpoint == <<backup, confirmed, armed, saves>>
history == <<backedUp, selected, armedFor, ackedFor>>
vars == <<staging, reading, committing, checkpoint, history>>

-------------------------------------------------------------------------------
Modes == {"merge", "replace"}

(***************************************************************************)
(* "risky" stands for the preview kinds stale and legacy-unverified,       *)
(* "rejected" for the six kinds that cannot be committed.                  *)
(***************************************************************************)
Kinds == {"good", "risky", "rejected"}

NoPreview == [req |-> 0, kind |-> "none"]

TypeOK ==
    /\ latest \in Nat /\ reading \subseteq 1..latest /\ live \in {0} \cup reading
    /\ pending \in [req : 1..latest, kind : Kinds] \cup {NoPreview}
    /\ mode \in Modes
    /\ committing \in 0..latest
    /\ backup \in {"idle", "saving", "manual", "ready"}
    /\ saves \in [Saves -> {"none", "current", "outdated"}]
    /\ {ack, confirmed, armed} \subseteq BOOLEAN
    /\ backedUp \in {"none", "current", "outdated"}
    /\ {selected, armedFor} \subseteq 0..latest
    /\ ackedFor \in (0..latest) \X Modes

Init ==
    /\ latest = 0 /\ reading = {} /\ live = 0
    /\ pending = NoPreview
    /\ mode = "merge" /\ ack = FALSE /\ committing = 0
    /\ backup = "idle" /\ confirmed = FALSE /\ armed = FALSE
    /\ saves = [s \in Saves |-> "none"]
    /\ backedUp = "none" /\ selected = 0 /\ armedFor = 0 /\ ackedFor = <<0, "merge">>

importBusy == committing # 0

isSuccessfulImportPreview == pending.kind \in {"good", "risky"}

canCommitImport == isSuccessfulImportPreview /\ (pending.kind = "risky" => ack)

ReplaceShown == isSuccessfulImportPreview /\ mode = "replace"

Outdated(s) == IF s = "current" THEN "outdated" ELSE s

resetReplaceWorkflow ==
    /\ armed' = FALSE /\ backup' = "idle" /\ confirmed' = FALSE
    /\ saves' = [s \in Saves |-> Outdated(saves[s])]
    /\ backedUp' = "none"

\* Mutant: the controller of the aborted request is not let go.
clearPendingImportKeepsController ==
    /\ UNCHANGED live
    /\ latest' = latest + 1
    /\ pending' = NoPreview
    /\ mode' = "merge" /\ ack' = FALSE
    /\ resetReplaceWorkflow

clearPendingImport ==
    /\ live' = 0
    /\ latest' = latest + 1
    /\ pending' = NoPreview
    /\ mode' = "merge" /\ ack' = FALSE
    /\ resetReplaceWorkflow

-------------------------------------------------------------------------------
(* Preview requests: handleImportSelection.                                *)

\* The file input stays enabled, also during a commit.
SelectFile ==
    /\ latest < MaxRequests
    /\ latest' = latest + 1
    /\ live' = latest + 1
    /\ reading' = reading \cup {latest + 1}
    /\ selected' = latest + 1
    /\ resetReplaceWorkflow
    /\ UNCHANGED <<pending, mode, ack, committing, armedFor, ackedFor>>

\* Mutant: a preview is staged without asking whether it is still wanted.
PreviewArrivesLate(r, kind) ==
    /\ reading' = reading \ {r}
    /\ live' = IF live = r THEN 0 ELSE live
    /\ pending' = [req |-> r, kind |-> kind]
    /\ mode' = "merge" /\ ack' = FALSE
    /\ UNCHANGED <<latest, committing, checkpoint, history>>

\* Mutant: the mode of the preview before stays selected.
PreviewArrivesInOldMode(r, kind) ==
    /\ live = r /\ latest = r
    /\ reading' = reading \ {r}
    /\ live' = 0
    /\ pending' = [req |-> r, kind |-> kind]
    /\ ack' = FALSE
    /\ UNCHANGED <<latest, mode, committing, checkpoint, history>>

\* Mutant: the acknowledgment of the preview before stays given.
PreviewArrivesAcknowledged(r, kind) ==
    /\ live = r /\ latest = r
    /\ reading' = reading \ {r}
    /\ live' = 0
    /\ pending' = [req |-> r, kind |-> kind]
    /\ mode' = "merge"
    /\ UNCHANGED <<latest, ack, committing, checkpoint, history>>

\* Note that the checkpoint is not reset here: it was when the file was chosen.
PreviewArrives(r, kind) ==
    /\ live = r /\ latest = r
    /\ reading' = reading \ {r}
    /\ live' = 0
    /\ pending' = [req |-> r, kind |-> kind]
    /\ mode' = "merge" /\ ack' = FALSE
    /\ UNCHANGED <<latest, committing, checkpoint, history>>

\* A superseded request ends with an AbortError or a result nobody wants.
PreviewDropped(r) ==
    /\ live # r
    /\ reading' = reading \ {r}
    /\ UNCHANGED <<staging, committing, checkpoint, history>>

\* Any other error, of whatever request, clears what is staged.
PreviewFails(r) ==
    /\ clearPendingImport
    /\ reading' = reading \ {r}
    /\ UNCHANGED <<committing, selected, armedFor, ackedFor>>

-------------------------------------------------------------------------------
(* What the operator does with the preview.                                *)

SetImportMode(m) ==
    /\ isSuccessfulImportPreview
    /\ m # mode
    /\ mode' = m /\ ack' = FALSE
    /\ resetReplaceWorkflow
    /\ UNCHANGED <<latest, reading, live, pending, committing, selected,
                   armedFor, ackedFor>>

AcknowledgeRisk ==
    /\ pending.kind = "risky"
    /\ ack' = ~ack
    /\ ackedFor' = IF ack THEN ackedFor ELSE <<pending.req, mode>>
    /\ UNCHANGED <<latest, reading, live, pending, mode, committing,
                   checkpoint, backedUp, selected, armedFor>>

CancelImport ==
    /\ pending # NoPreview
    /\ ~importBusy
    /\ clearPendingImport
    /\ UNCHANGED <<reading, committing, selected, armedFor, ackedFor>>

CommitBegins ==
    /\ canCommitImport
    /\ ~importBusy
    /\ committing' = pending.req
    /\ UNCHANGED <<staging, reading, checkpoint, history>>

ConfirmMerge == mode = "merge" /\ CommitBegins

ArmReplace ==
    /\ ReplaceShown /\ canCommitImport /\ ~importBusy
    /\ backup = "ready"
    /\ ~armed
    /\ armed' = TRUE
    /\ armedFor' = pending.req
    /\ UNCHANGED <<staging, reading, committing, backup, confirmed, saves,
                   backedUp, selected, ackedFor>>

\* The button, Escape, or a pointer outside the destructive controls.
DisarmReplace ==
    /\ armed
    /\ armed' = FALSE
    /\ UNCHANGED <<staging, reading, committing, backup, confirmed, saves,
                   history>>

ExecuteReplace ==
    /\ mode = "replace"
    /\ backup = "ready"
    /\ armed
    /\ CommitBegins

\* onImportApplied stages the undo; then the staging area is cleared.
CommitSucceeds ==
    /\ importBusy
    /\ committing' = 0
    /\ clearPendingImport
    /\ UNCHANGED <<reading, selected, armedFor, ackedFor>>

CommitFails ==
    /\ importBusy
    /\ committing' = 0
    /\ UNCHANGED <<staging, reading, checkpoint, history>>

-------------------------------------------------------------------------------
(* The pre-replace backup: handlePrepareReplaceBackup up to its awaits,    *)
(* and what the result of checkpointJsonBackupToDisk does.                 *)

PrepareReplaceBackup(s) ==
    /\ ReplaceShown /\ canCommitImport /\ ~importBusy
    /\ backup \notin {"saving", "manual"}
    /\ saves[s] = "none"
    /\ saves' = [saves EXCEPT ![s] = "current"]
    /\ confirmed' = FALSE
    /\ backup' = "saving"
    /\ backedUp' = "none"
    /\ UNCHANGED <<staging, reading, committing, armed, selected, armedFor,
                   ackedFor>>

SaveEnds(s, phase) ==
    /\ saves[s] # "none"
    /\ saves' = [saves EXCEPT ![s] = "none"]
    /\ backup' = phase
    /\ backedUp' = IF phase = "idle" THEN "none" ELSE saves[s]
    /\ UNCHANGED <<staging, reading, committing, confirmed, armed, selected,
                   armedFor, ackedFor>>

\* verified-save-succeeded
SaveVerified(s) == SaveEnds(s, "ready")

\* fallback-download-triggered, manual-verification-required
SaveNeedsCheck(s) == SaveEnds(s, "manual")

\* Mutant: a failed save leaves the phase where it is.
SaveFailsSilently(s) ==
    /\ saves[s] # "none"
    /\ saves' = [saves EXCEPT ![s] = "none"]
    /\ UNCHANGED <<staging, reading, committing, backup, confirmed, armed,
                   history>>

\* save-cancelled, save-failed, or the export itself failed
SaveFails(s) == SaveEnds(s, "idle")

TickManualBackup ==
    /\ ReplaceShown /\ backup = "manual"
    /\ confirmed' = ~confirmed
    /\ UNCHANGED <<staging, reading, committing, backup, armed, saves, history>>

AcknowledgeManualBackup ==
    /\ ReplaceShown /\ backup = "manual"
    /\ confirmed /\ ~importBusy
    /\ backup' = "ready"
    /\ confirmed' = FALSE
    /\ UNCHANGED <<staging, reading, committing, armed, saves, history>>

-------------------------------------------------------------------------------
Settles(r) ==
    \/ \E kind \in Kinds : PreviewArrives(r, kind)
    \/ PreviewDropped(r)
    \/ PreviewFails(r)

Next ==
    \/ SelectFile
    \/ \E r \in reading : Settles(r)
    \/ \E m \in Modes : SetImportMode(m)
    \/ AcknowledgeRisk
    \/ CancelImport
    \/ ConfirmMerge
    \/ ArmReplace
    \/ DisarmReplace
    \/ ExecuteReplace
    \/ CommitSucceeds
    \/ CommitFails
    \/ \E s \in Saves :
           \/ PrepareReplaceBackup(s)
           \/ SaveVerified(s)
           \/ SaveNeedsCheck(s)
           \/ SaveFails(s)
    \/ TickManualBackup
    \/ AcknowledgeManualBackup

Spec == Init /\ [][Next]_vars

-------------------------------------------------------------------------------
(* Properties.                                                             *)

(***************************************************************************)
(* A replace writes the preview that was on screen when it was armed, even *)
(* if another file's preview arrives between arming and executing: the     *)
(* armed state is not reset then, only the mode is (useImportWorkflow.ts,  *)
(* handleImportSelection).                                                 *)
(***************************************************************************)
ReplaceExecutesWhatWasArmed == [][ExecuteReplace => armedFor = pending.req]_vars

(***************************************************************************)
(* A risky file is written only if its risk was acknowledged for that file *)
(* and for the mode it is written in.                                      *)
(***************************************************************************)
RiskIsAcknowledgedForThisCommit ==
    [][CommitBegins /\ pending.kind = "risky"
           => ackedFor = <<pending.req, mode>>]_vars

(***************************************************************************)
(* The preview on screen is of another file than the one selected last.    *)
(***************************************************************************)
Superseded == pending # NoPreview /\ pending.req # selected

(***************************************************************************)
(* The file selected last wins, in whatever order the previews come back,  *)
(* fail or are dropped and whatever is cancelled or committed meanwhile: a *)
(* preview of an earlier file is only ever on screen because it was there  *)
(* when the last one was chosen, and no longer than that one is being      *)
(* read.  It is not staged late, and it does not stay behind a preview     *)
(* that settled without taking its place.                                  *)
(***************************************************************************)
LatestSelectionWins ==
    [][Superseded' => selected' \in reading'
                      /\ (pending' = pending)]_vars

(***************************************************************************)
(* The backup button is disabled while a save runs, and only then: with    *)
(* overlapping saves the phase never stays "saving" after the last of them *)
(* has ended, which would lock replace for good.                           *)
(***************************************************************************)
SavingHasSave == backup = "saving" => \E s \in Saves : saves[s] # "none"

===============================================================================
