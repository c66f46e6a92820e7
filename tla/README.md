# A TLA+ model of OpsNormal

OpsNormal is a browser app without a server: a daily status grid kept in
IndexedDB, with JSON backups as the operator's only safety net. What can go
wrong is therefore not in a protocol between machines but between tabs, timers,
awaits and page loads: a write that another tab does not hear of, an undo that
comes too late, a connection that two callers reopen at once, a backup that
finishes after the operator changed his mind. This directory models those parts
of `src/src`, checks them with TLC and proves the main results with TLAPS.

Paths below are relative to the repository's `src/` directory (application
code); `docs/` is the repository's documentation.

## Contents

| Module | What it is |
| --- | --- |
| `EntryTable` | the `dailyEntries` table as a value; what an import computes from it |
| `EntryLedger` | abstract specification: what the entry store promises |
| `UndoImport` | check-ins, imports and undo of several tabs, announcements between tabs |
| `DbConnection` | the Dexie handle of one tab: reopening, reload timers, the reload guard |
| `ImportWorkflow` | staging an import in the export panel: preview, mode, risk, checkpoint, commit |
| `ImportPreview` | one backup file: reading, the preview worker, checksums, classification |
| `PwaUpdate` | the service worker handoff of several tabs, its timers and its loop breaker |
| `StorageHealth` | diagnostics, overlapping refreshes, persistence requests, the backup prompt |
| `CheckInPanel` | the cards of a day: overlapping writes, the live query, midnight |
| `CrashReset` | the crash fallbacks: emergency exports and the reset of all local data |
| `MC...` | instances of these for TLC; each `.cfg` is a run |
| `..._proofs` | theorems about a module, checked by TLAPS |

`UndoImport` and `EntryLedger` extend `EntryTable`; `UndoImport` instantiates
`EntryLedger` for the refinement. The other modules meet at the seams the code
has: `ImportWorkflow` treats a preview as arriving or failing, `ImportPreview`
says how, and what its commit writes is `UndoImport`; `StorageHealth` takes the
reconnect state from `DbConnection` and the verification result from
`UndoImport`; `PwaUpdate`'s hand-over is `DbConnection`'s `ServiceWorkerHandoff`
with the same stamp; `CheckInPanel` folds `UndoImport`'s check-in to a commit and
a read-back. `PROJECT.json` maps every definition to the
source lines it stands for, and lists the runs, mutants, findings, hazards and
theorems.

## The system

| Component | State | Operations | Talks to |
| --- | --- | --- | --- |
| database connection, `db/appDb.ts` | Dexie handle, three module flags, two timers, a stamp in sessionStorage | reopen, run an operation, handle `ready`, `blocked`, `versionchange`, `close`, hand over to a new service worker | every reader and writer; other tabs through IndexedDB; `lib/storage.ts` for diagnostics |
| check-in write, `db/appDb.ts` | none beyond the call | `setDailyStatus`, its read-back, its announcement | import service and export panel (window event), other tabs (BroadcastChannel) |
| import and undo, `services/importService.ts` | `undoSnapshotState` | preview, `applyImport`, `restoreUndoSnapshot`, two invalidation listeners | the table, the panel (a closure over the snapshot) |
| coordination, `services/entryWrittenCoordination.ts` | the tab id in sessionStorage | post, subscribe, filter by sender | peer tabs |
| undo hook, `features/export/useUndoImport.ts` | `undoImport`, `undoInvalidated`, `undoBusy` | stage, undo, invalidate | import service |
| import workflow, `features/export/useImportWorkflow.ts` | pending preview, mode, acknowledgment, request id, abort controller | select, preview, acknowledge, commit, clear | import service, replace checkpoint, undo hook |
| replace checkpoint, `features/export/useReplaceCheckpoint.ts` | backup phase, manual tick, armed | save a backup, unlock, arm, disarm, reset | `lib/export.ts` |
| import validation, `services/importValidation.ts`, `schemas/import.ts`, preview worker | none | classify a file into nine preview kinds | import service |
| exports and backup prompt, `lib/export*.ts`, `lib/fileDownload.ts`, `features/export/useExportWorkflow.ts`, `backupActionPrompt.ts` | last completed backup | write, read back, prompt | localStorage, file system |
| storage health, `lib/storage.ts`, `hooks/useStorageHealth.ts` | diagnostics counters, shown health | record, classify, refresh, request persistence | database, panels |
| PWA update, `features/pwa/*` | waiting worker, handoff state, dead-man timer, reload recovery | prompt, apply, hand over, recover | database connection, peer tabs, service worker |
| check-in panel, `features/checkin/TodayPanel.tsx` | one busy marker, one message | write a status | check-in write |
| crash fallback, `components/AppCrashFallback.tsx`, `lib/crashExport.ts` | export and reset state | export raw rows, delete the database | IndexedDB |
| history, install prompt, shell | view state | navigation | read only |

What is hard in them, and which properties make them correct:

* **Undo.** An undo is only safe while nothing was written since the import. The
  news of a write takes two paths (an event in the window, a broadcast to
  peers), comes only after a read-back that may fail, and is compared with a flag
  well before the restore's transaction. Correct means: news always arrives or is
  on its way, panel and service agree, a restore returns to real contents.
* **Connection.** Nothing serialises `reopenIfClosed`; callers close the shared
  handle under each other, and two timers, a stamp and four events decide on
  reloads. Correct means: calls end, a working page is not reloaded, reloads
  caused by schema upgrades do not loop, no tab refuses operations for good.
* **Staging.** Previews, backups and the commit overlap with the operator's
  clicks. Correct means: what is written is what was selected last, with the
  risk acknowledged and the replace armed for exactly that file and mode, behind
  a backup that is still meant for it.
* **Preview.** A file is parsed on the page or in a worker that may hang, while
  the operator selects another; its checksum is verified twice over two different
  projections. Correct means: nothing altered is written, nothing genuine is
  refused, an aborted preview ends.
* **PWA update.** Tabs that come and go tell each other of a handoff, two timers
  end one nobody answers, and a record survives the reloads it counts. Correct
  means: one tab drives, the others are released, reloads do not loop, the update
  is offered in the end.
* **Storage health.** Refreshes overtake each other and each overwrites what is
  shown. Correct means: what is shown at rest is what is the case, and the browser
  is asked for persistence once.
* **Check-in panel.** One busy marker and one message serve overlapping writes,
  and a write takes its day from the clock, not from the page. Correct means: cards
  come back, failures stay visible, a saved day is a shown day.
* **Crash reset.** A deletion races its timeout, other tabs, a retry of the page
  and the exports that should precede it. Correct means: no reset without backup or
  consent, no late deletion of new data, no dead controls.

## UndoImport

State and code: `store` is the table shared by all tabs; `undo[t]` is
`undoSnapshotState` of tab `t`'s import service and `panel[t]` the panel's
`undoImport` with `undoInvalidated`, its separate copy; `importing[t]` is an
import whose transaction has committed but whose `await` has not returned;
`undoing[t]` is an accepted undo; `checkIns` are the calls of `setDailyStatus`
that have committed, with their outcome; `channel` holds the broadcasts on their
way, one for each of the two listeners of every other tab. `gen`, the stamp of an
import, stands for the identity of its snapshot array, which is what the code
compares.

| Action | Code |
| --- | --- |
| `SetDailyStatus` | the transaction of `setDailyStatus` |
| `VerifySucceeds`, `VerifyMismatches`, `VerifyStalls` | `verifyPersistedDailyStatus`; success dispatches and broadcasts |
| `VerifyFindsClosed`, `RetryCheckIn`, `RetryFails` | the one retry of `runDatabaseOperation`, which repeats the write as a whole |
| `ApplyImport`, `StageUndo` | the transaction of `applyImport`, then what follows its `await` up to `onImportApplied` |
| `UndoAccepted`, `RestoreSnapshot`, `UndoCompletes`, `UndoFails` | `handleUndoImport` and `restoreUndoSnapshot`: test, transaction, completion |
| `ServiceHears`, `PanelHears` | the two `handleCrossTabEntryWritten` |
| `Reload` | a page load; only the tab id survives |

Abstractions. IndexedDB runs the readwrite transactions of a store one after the
other, so each is one step; the verification inside the import's and the undo's
transaction can only abort it, which changes nothing. The row's autoincrement id
is left out because `[date+sectorId]` is unique. Stamps are taken to be unique
and increasing (the code has milliseconds); rows of a file carry a stamp older than all of
them. The sender's own listeners drop its broadcast, so none is posted to it.
Completions reach a tab in the order of its transactions. Whether a tab may get a
peer's announcement of a later check-in *before* it hears of its own commit is
the constant `CommitHeardFirst`; whether a broadcast may get lost is `Lossy`;
whether two tabs may share an id (a duplicated browser tab copies
sessionStorage) is the constant `TabIdOf`. Rendering is immediate.
A panel that is unmounted while its page lives on is not modelled.

| Run | Instance | Shows |
| --- | --- | --- |
| `undo_lossy` | two tabs sharing an id, announcements lost or heard before the commit; two keys, one stored status, two files, 3 stamps | `TypeOK`; `OwnCheckInDisablesUndo` and `OfferedUndoIsHonoured` need no channel; `StoreFollowsLedger`: the store implements `EntryLedger` |
| `undo_liveness` | two tabs with ids of their own, reliable, one key, an empty file, 3 stamps, fair | `VerifiedCheckInReachesUndo`: no verified check-in leaves an earlier import's undo alive and uninformed; `StaleUndoIsWithdrawn`, `CheckInsEnd` |
| `undo_race` | two tabs, one key, two statuses, two files, reliable | **violation** of `UndoKeepsVerifiedCheckIns` |

Bounds. Three stamps are an import, a check-in of a peer and one more write of
either kind, enough for every order of two writes around an import and its undo,
and for a second import while the first one's undo is under way. Two tabs are a
writer and a listener; listeners do not interact. One key suffices for
invalidation, which knows no keys; `undo_lossy` has two, so that a merge keeps a
row that a replace removes. An empty file is a valid one and imports under
`undo_liveness` only have to leave an undo behind.

Fairness (`undo_liveness`). The operator may stop at any time: starting a
check-in, an import or an undo is not fair, nor is a reload. Fair are, for each
tab, the steps of its check-ins, of the staging of its import and of its undo,
and the deliveries to each of its two listeners: the read-back has a timeout
(`WRITE_VERIFICATION_TIMEOUT_MS`), a reopening has a bounded number of attempts,
and the browser delivers events. Delivery is fair per listener and not per
message, so nothing is assumed about their order.

The ledger. `EntryLedger` knows no announcements, phases or timers: rows are
rewritten one at a time with the newest stamp, an import yields exactly the merge
or the replacement, and a roll-back returns to contents the table had just
before an import of that tab. `rollback` is mapped to the snapshots that tab
still holds. The mapping maps every other step to a stutter or a `Forget`.

## DbConnection

State and code: `conn` is the Dexie handle; `recovery`, `loop`, `blocked` are
`databaseRecoveryRequired`, `schemaReloadLoopDetected`, `databaseUpgradeBlocked`;
`reloadTimer` and `retryIn` are the two timeouts; `guardLeft` is what is left of
the guard window since the stamp in sessionStorage (it survives a page load);
`calls` are operations between their awaits, with the loop counter, the constant
`recovering` that each read before its loop, and whether the handle was closed
under the running operation; `reconnect` is `reconnectState` of the diagnostics;
`leaving` the reloads that were requested, by cause. A requested reload is not
yet a reload: the code goes on running until the page is unloaded (`Unload`),
which may also happen without a request.

| Action | Code |
| --- | --- |
| `Start`, `BackoffEnds`, `OperationEnds`, `OperationFindsClosed` | `runDatabaseOperation`, `reopenIfClosed` |
| `OpenSucceeds` | the awaited open, the `ready` event, the success branch of `monitorBlockedUpgradeResolution` |
| `OpenFails` | the catch block of `reopenIfClosed`, for each of the callers that share the open |
| `ConnectionDrops`, `UpgradeBlocked` | the `close` and `blocked` events |
| `VersionChangeReloads`, `VersionChangeHeldBack` | `handleDatabaseVersionChange` outside and inside the window |
| `ServiceWorkerHandoff` | `closeDatabaseForServiceWorkerHandoff` |
| `RecoveryReload`, `SchemaReloadRetry` | the callbacks of the two timers |
| `Unload`, `Tick` | a page load; time |

Abstractions. Dexie, outside the repository, is modelled from its use: several
`open()` calls share one pending open; closing the handle rejects that open and
cuts off what runs on it. `ready` comes with the first opening of a page and may
or may not come with later ones, so both happen. Live queries open the handle of
a fresh page without a call. Another tab's upgrade is an event of the
environment. A caller's open timeout is `OpenFails`, since the caller then closes
the handle for all.

| Run | Instance | Shows |
| --- | --- | --- |
| `db_connection` | two calls, two attempts, window 2, buffer 1, fair | `TypeOK`, `NoReloadOfHealthyPage`, `HeldBackTabHasRetry`, `SchemaReloadsAreSpaced`, `OnlyLeavingPageIsHeldBack`, `CallsEnd`, `HeldBackTabRecovers` |
| `db_blocked_forever` | the same with three attempts | **violation** of `BlockedTabHasWayOut` |

Bounds. Two callers are one that gives up or closes and one that it disturbs. The
code makes three attempts; two are a first that is
retried and a last that gives up, and the theorems hold for any number.
A window of two ticks and a buffer of one distinguish before, at and after each
deadline.

Fairness. Timers fire and time passes; an open *with* a caller settles, because
`openDatabaseWithTimeout` bounds it; an operation settles. An open without a
caller may hang for good, a requested reload need not come, and nobody has to
start an operation. The recovery that `HeldBackTabRecovers` claims is thus the
request of the reload, which is what the code does.

## ImportWorkflow

State and code: the fields of `useImportWorkflow` (`latest` is
`previewRequestIdRef`, `live` the request `previewAbortRef` can still abort,
`pending` the staged preview, `mode`, `ack`, `committing`) and of
`useReplaceCheckpoint` (`backup` is the phase, `confirmed` the tick, `armed`).
`saves` are the calls of `handlePrepareReplaceBackup` that have not returned:
resetting the checkpoint enables the button again, so they can overlap.
`selected` (the file selected last), `backedUp`, `armedFor` and `ackedFor` are
history that only properties read.
Each handler is an action with the guards of its button (`ImportRestoreSection`)
and of its code. The nine preview kinds are three here: `good`, `risky` (stale,
legacy-unverified) and `rejected`; the save's outcomes are three phases. What the
commit writes is in `UndoImport`.

| Action | Code |
| --- | --- |
| `SelectFile`, `Settles` | `handleImportSelection` up to its await, and the three ends of that (`PreviewFails` among them) |
| `SetImportMode`, `AcknowledgeRisk`, `CancelImport` | the mode radios, the risk tick, cancel |
| `ConfirmMerge`, `ExecuteReplace`, `CommitSucceeds`, `CommitFails` | the commit and the ends of its await |
| `ArmReplace`, `DisarmReplace` | arming and disarming the replace |
| `PrepareReplaceBackup`, `SaveVerified`, `SaveNeedsCheck`, `SaveFails` | `handlePrepareReplaceBackup` and the ends of its await |
| `TickManualBackup`, `AcknowledgeManualBackup` | the manual confirmation of a save that could not be verified |

| Run | Instance | Shows |
| --- | --- | --- |
| `import_workflow` | two overlapping saves, request counter up to 5, symmetric saves | `TypeOK`, `SavingHasSave`, `ReplaceExecutesWhatWasArmed`, `RiskIsAcknowledgedForThisCommit`, `LatestSelectionWins` |

Bounds. The counter also grows when the staging area is cleared, so its bound
allows up to five selections without a clearing and fewer with; two previews
under way and one to replace them need three. `CHECK_DEADLOCK FALSE`: with the
counter at its bound and nothing staged the operator has nothing left to do.
React renders before the operator acts again, and the workflow stays mounted.

`LatestSelectionWins` is stated over the order of the selections and not over the
request numbers: a preview of an earlier file is on screen only while the latest
file is still being read, because it was there already, and it is not staged then.
Until the latest has settled, the earlier preview can still be committed: the file
input does not clear it, and the code has no test against it.

## ImportPreview

State and code: `stage` is how far `previewImportFile` is, `worker` and `answer`
the preview worker and its message, `aborted` the panel's signal, `outcome` how
the preview settled, `ack` the risk tick and `commit` what `applyImport` did. A
file is a record of what the code tells apart: its size class, its age, what
parsing would object to, whether its contents were altered, whether it carries
the canonicalisation tag, the order of its keys, and its checksum.

| Action | Code |
| --- | --- |
| `PreviewImportFile`, `FileRead`, `FileUnavailable` | `previewImportFile` up to the text of the file |
| `ParseEnds` | `parseImportPayload` on the page, for small files |
| `WorkerAnswers`, `WorkerMessage`, `WorkerError` | the worker, its message, its error |
| `Abort` | a newer selection or `clearPendingImport` |
| `EntriesRead`, `EntriesUnavailable` | the comparison with the table, `classifySuccessfulPreview` |
| `Acknowledge`, `ApplyImport` | the tick; the second verification before the transaction |

The checksum of an untagged file is verified over the keys in the order of the
text by the preview, and over the keys as zod rebuilt them by the commit; a tagged
one over sorted keys both times. A digest is therefore modelled as the projection
that was hashed (SHA-256 is taken to be injective), and whether two digests agree
is what `RawVerified` and `ParsedVerified` compute.

| Run | Instance | Shows |
| --- | --- | --- |
| `import_preview` | every file of `MCFiles` in three sizes and three ages, fair | `OnlyTrustedFilesAreWritten`, `OwnBackupsAreAccepted`, `AbortEndsPreview` |

Bounds. `MCFiles` has what each build exported, the same without a checksum, with
the contents, the tag, the order or the checksum changed, and with one or two
defects; nothing else about a file is looked at. `CHECK_DEADLOCK FALSE`: a preview
settles once and a commit ends the story. Fair are reading, parsing on the page
and the table's answer, but not the worker, which may hang: `AbortEndsPreview`
needs nothing of it.

Two things the model makes visible: the size test stands outside the `try` that
turns errors into previews, so the preview kind for an oversize file is never
produced and such a file ends as an exception; and an untagged file whose entries
have their keys in another order than the exports passes the preview and is
refused at the commit (`OwnBackupsAreAccepted` therefore speaks of files whose
keys are in the order of the exports).

## PwaUpdate

State and code: `worker` is the registration all tabs share; per tab, `registered`
is `swRegistration`, `ui` the hook's React state, `timers` its two timers,
`inFlight` the module flag `controllerReloadInFlight`, `dismissed`
`dismissedWaitingWorkerRef`, `count` the record of automatic reloads in
sessionStorage, `guard` the schema reload guard of `appDb.ts`, `coord` and
`recover` the messages of the two channels, `change` the `controllerchange`
events not handled yet, `reloading` a reload that is due: by the hook, which closed
the database (`hook`), by the hook with the database open again (`reopened`), or by
Workbox's listener (`prompt`). `early`, `handed` and `clicks` are history and a
bound. `SessionStorage` says whether the page may write its sessionStorage; both
records are kept there and a failed write is swallowed
(`controllerReloadRecovery.ts:59`, `recordSchemaReloadAt`), so without it neither the
loop breaker nor the guard exists. The runs set it to TRUE; the two properties that
need it say so in their theorems.

| Action | Code |
| --- | --- |
| `UpdateInstalled`, `WorkerActivates` | the browser: a build waits; it takes over |
| `PageLoads`, `TabCloses`, `TabOpens` | page loads; a closed tab loses its sessionStorage |
| `Registered` | `onRegisteredSW`, and the effect cleanup it causes |
| `ShowSkipWaitingPrompt`, `Revalidate` | `onNeedRefresh`; `revalidateRegistration` |
| `HandleApplyUpdate`, `HandleDismissBanner`, `HandleReloadPage` | the banner's buttons |
| `SkipWaitingPosted`, `NoWorkerToApply`, `SkipWaitingThrows` | the awaited apply |
| `UpdateTimeout`, `DeadmanTimeout` | the timers |
| `HearsStarted`, `HearsStalled`, `HearsCleared`, `HearsRecoveryClear` | the channels' handlers |
| `ChangeSuppressed`, `ChangePinsRecovery`, `ChangeHandsOver`, with `PromptReloads` | `handleControllerChange`, `recordControllerReloadAttempt`, and Workbox's own listener |
| `DatabaseReady` | `handleDatabaseReady`, whenever the handle opens, also between a handoff and the unload |
| `GuardExpires`, `WindowExpires` | five and fifteen seconds |

Abstractions. A revalidation is one step that may start at any time: its two
awaits only delay it. Every page is taken to be controlled when it loads. A worker
that is installing is one that is not waiting yet. The reload after 50 ms precedes
the end of the guard after 5 s. Messages that arrive while an effect subscribes
anew are delivered. The offline notice and announcements are left out.

| Run | Instance | Shows |
| --- | --- | --- |
| `pwa_update` | two tabs, two builds, two messages under way, two reloads, two clicks | `TypeOK`; `OneOwner`: two tabs apply at once only while one is about to hear of the other; `HandoffHasDeadman`, `AutomaticReloadsAreBounded`; `OneReloadPerPage`: a page that waits for its reload with the database still closed is not counted again |
| `pwa_liveness` | the same with one build and one message, fair | `HandoffGuidanceEnds`, `WaitingWorkerIsOffered` |

Bounds. Two clicks are both tabs applying before either hears of the other, an
apply and a tab that closes, or an apply and a recovery; two reloads are what the
code allows (`CONTROLLER_RELOAD_MAX_AUTOMATIC_RELOADS`); two builds make one that
is superseded while it waits. `CHECK_DEADLOCK FALSE`: builds and clicks are bounded
and the operator may stop. Fairness: messages are delivered, timers fire,
requested reloads happen, a page that stays registers and revalidates (the hourly
interval). Workers need not activate and operators need not click. The history
variable `early` marks a handoff that was shown before the page had its
registration; its dead-man timer is lost when the registration comes, which is why
both handoff properties exclude it.

## StorageHealth

State and code: `diagnostics` is `storageDiagnosticsState`, `refresh` the calls of
`getStorageHealth` in progress with the await they are at, `attempt` and `cooling`
the recorded persistence request, `requesting` and `buttonCooling` the indicator's
button, `shown` the hook's `storageHealth`, `prompt` the memoised backup prompt. Two
constants say how the browser may fail: without `LocalStorage` the attempt is not
recorded (`lib/storage.ts:125` ignores the error), and with `PersistedFails` a
rejecting `persisted()` counts as a refusal (`lib/storage.ts:427`).

| Action | Code |
| --- | --- |
| `DiagnosticsChange` | the recorders of `lib/storage.ts`, each of which tells the hook |
| `Foreground`, `ReinforceDurability`, `DisplayModeChanges` | focus, visibility and the interval; the first check-in and every import; installing |
| `RequestStorageProtection` | the indicator's button |
| `PersistedAnswers`, `NobodyToAsk`, `AskForPersistence`, `PersistAnswers`, `EstimateAnswers` | `getStorageHealth` and `requestPersistentStorage` between their awaits |
| `CooldownEnds` | the two cooldowns of a minute |
| `BackupCompleted`, `BackupAges` | `markBackupCompleted`; six days |

| Run | Instance | Shows |
| --- | --- | --- |
| `storage_health` | two refreshes at once; an iPhone, any other browser, one without a storage manager; fair | `TroubleIsShown`, `AutomaticRequestOnce`, `ProtectionIsShown` |

Bounds. Two refreshes overtake each other; a request that announces itself needs
the second one. Diagnostics have the values the classification tells apart, and
mismatch counts as a failed verification. macOS Safari, at risk in
either display mode, is left to the theorems. Fairness: the browser answers
each await and the five-minute interval goes on; the operator need not click.
`ProtectionIsShown` needs the interval, because a refresh that began before the
grant can be the last to end. The run has `LocalStorage` TRUE, since without the
record every page load and every trigger asks again, and `PersistedFails` FALSE,
since protection is not shown while the browser does not admit to it. The other two
properties hold with `PersistedFails` as well, and are proved for it.

## CheckInPanel

State and code: `now` is the clock's day and `today` the page's (`App.tsx`);
`live` the last result of the live query with its day; `write` the calls of
`handleSelectStatus` in progress; `busy` the one marker with the optimistic status
of its card; `error` the message; `reinforced` `persistRequestedRef`.

| Action | Code |
| --- | --- |
| `Select` | `handleSelectStatus` up to its await |
| `Commit`, `Verified`, `Fails` | the transaction, then the two ends of the await |
| `PeerWrites` | another tab, or an import |
| `DayPasses`, `RefreshCalendarWindow` | midnight; focus or the minute's interval |
| `LiveQueryDelivers` | Dexie's live query, some time after a commit |

| Run | Instance | Shows |
| --- | --- | --- |
| `check_in` | two cards, one stored status, two overlapping writes, one midnight, fair | `BusyCardHasWrite`, `SavedDayIsShown`, `FailureStaysShown`, `CardsSettle` |

Bounds. Two writes overlap on two cards, or on one card whose marker another's
end took back. Two days are one midnight; the theorems allow any number. The clock
never goes backwards. Fairness: a write ends (its read-back has a timeout), the
live query reports, the interval goes on. `CardsSettle` says only where a card ends
up: between the end of a write and the live query's report a card shows the old
status for a moment. It also shows that one card can be written twice at once, and
then the first read-back finds the second row and reports a failure for a write
that committed.

## CrashReset

State and code: `open` is which tabs hold a connection, `deletion` a deletion that
was requested and has not happened, `page` what renders, `ui` the state of the
fallback, `export` the export this fallback waits for; one whose fallback has been
unmounted goes on in the code, but nobody hears of it and its file is not counted.
`underWay` says that operations which began before the crash are still waiting for
the connection or their transaction. `before` (the rows of the crash that nobody has
removed since), `files` and `mine` are history.

| Action | Code |
| --- | --- |
| `Write`, `Opens`, `Closes` | a transaction (check-in, unmark, import, undo) and the connection, of the app here, of an operation that outlived it and of other tabs |
| `PanelCrashes`, `AppCrashes`, `Retry` | `ErrorBoundary` and its buttons |
| `OperationsEnd`, `PageReloads` | the last operation under way ends; a reload, by the button, the browser or a timer |
| `StartExport`, `ReadCrashExportSnapshot`, `ExportFails`, `ExportDownloads` | `emergencyExport.ts`, `crashExport.ts`, in either format |
| `ToggleAcknowledgement`, `ArmClearData`, `DisarmClearData` | the controls of the reset |
| `HandleClearDataAndReload`, `DeletionTimesOut`, `DeletionFails`, `DatabaseIsDeleted` | `handleClearDataAndReload`, `deleteCrashDatabase`, and the browser, which goes on after the timeout |
| `HearsVersionChange` | the handler of the connections (`DbConnection`) |

The browser side is IndexedDB's: a deletion waits until every connection is closed,
new connections wait for it, and a tab's own connection hears `versionchange` well
before the three seconds of the timeout. A second deletion is merged with a first
that still waits: IndexedDB queues the two and the second follows the first at once;
an opening asked for between them is given up after one second
(`openDatabaseWithTimeout`), before the three of this reset. A write is any change
of the table: what it adds after the crash is in no file of the crash page unless an
export follows it.

| Run | Instance | Shows |
| --- | --- | --- |
| `crash_reset` | three rows, one of them malformed, one other tab, fair | `NoWaitInACircle`: the page is not on both sides of the wait of an export for a deletion; `ResetNeedsBackupOrConsent`: without the tick, what is left of the rows of the crash is in a file; `RetriedPageWritesSurvive`, `ControlsComeBack` |

Bounds. Two good rows are one exported and one written, overwritten or removed
since, by the peer or by an operation under way. Fairness: tabs run their handlers,
the timeout fires, the browser deletes when it can and exports end when they can.
Closing the other tab is not fair, nor is any click. An export started while a
deletion still waits after its timeout hangs with all controls disabled until that
deletion can happen; it ends because every other tab hears `versionchange`. A reset
that timed out goes on behind enabled controls, and `RetriedPageWritesSurvive` says
what it cannot take. A CSV file unlocks the reset as a JSON one does, although it
cannot be imported.

## What the violated runs show

1. `undo_race`. The undo's check and its transaction are separated by awaits. A
   check-in that is verified in between, of this tab or a peer, is overwritten
   by the restored snapshot, although the announcement arrived in time to set the
   flag. ADR 0025 promises the opposite.
2. `db_blocked_forever`. After `blocked`, when the pending open is rejected,
   `databaseUpgradeBlocked` stays set, every operation throws before it would
   reopen, and no reload is scheduled. The comment relies on "the existing
   recovery paths".
Other places where code and documents part, or where the behaviour may surprise,
come up in the same models without a run of their own:

* A check-in that committed but whose read-back stalled or failed is announced to
  nobody (`db/appDb.ts:335`), so an earlier undo stays enabled over it, while
  `docs/architecture.md:139` says any write invalidates it. The undo properties
  speak of verified check-ins for that reason.
* Tabs that share an id, after duplicating a tab, do not hear each other's
  announcements (`services/entryWrittenCoordination.ts:50`).
* An undo accepted before a second import of the same tab rolls back both
  (`StoreFollowsLedger` allows exactly that).
* A caller that read `recovering` before a drop clears the recovery flag without
  recording the success (`db/appDb.ts:478`), and the diagnostics go on to show
  `recovering` on a working handle; compare `docs/risk-register.md:35`.
* The `ready` event erases the guard's stamp, which is the exception in
  `SchemaReloadsAreSpaced`.
* A save that ends after the operator left replace mode and came back unlocks
  replace though the checkpoint was reset meanwhile
  (`features/export/useReplaceCheckpoint.ts:142`; compare `docs/test-plan.md:32`).
* A superseded preview that fails with anything but an abort clears the staging of
  its successor (`PreviewFails`).
* Workbox's own listener (`features/pwa/registerSw.ts:76`) reloads a page that
  showed the prompt even when its loop breaker is pinned; compare
  `docs/release-checklist.md:33`. `AutomaticReloadsAreBounded` claims the hook's
  reloads only.
* Another tab's message that a handoff, or a reload recovery, is over stops the
  timeout of this tab's own apply (`features/pwa/usePwaUpdate.ts:365` and `:332`)
  and leaves its banner: "Applying" is then shown with neither a button nor a timer
  until the next revalidation or activation. `ApplyKeepsItsTimeout` shows that
  this is the only way there.
* The dead-man timer of a handoff that is shown before the page has its
  registration is cleared by the effect's cleanup
  (`features/pwa/usePwaUpdate.ts:387`).
* Whatever opens the database again between a handoff and the unload, such as a
  write in progress, erases the stamp (`db/appDb.ts:385`), so a second
  `controllerchange` in that gap is counted again and may pin recovery though the
  first reload is due; compare "suppresses ... immediate post-handoff
  controllerchange churn", `docs/architecture.md:185`.
* An operation that was waiting for its connection when the app crashed goes on
  behind the crash page (`db/appDb.ts:533`). What it, or another tab, writes after
  the export is in no file, and the export still unlocks the reset.
* A record of an export that throws after the download reports a failure for a
  file that exists (`components/AppCrashFallback.tsx:145`).

## Proofs

All theorems hold for every value of the constants that the named assumptions of
the modules allow: any number of tabs, keys, files, stamps, calls, attempts,
saves, requests, builds, writes, rows and any window. Each module's type invariant
is inductive and proved (`TypeCorrect`); those of `ImportPreview`, `StorageHealth`,
`CheckInPanel` and `CrashReset` are proved only.

Every safety property of a passing run is proved. The other statements below are
defined beside their proofs: facts about the code's own mechanisms (a marker, a
stamp, a second test) and the safety cores of liveness properties, which stay
with TLC themselves.

**`UndoImport_proofs`.** `NewsReachesUndo` assumes `ReliableNews` (no losses,
commits heard first, an id per tab), the setting of `undo_liveness`; `undo_lossy`
drops it and does not claim the property. The property alone is not inductive: an
import that has committed but is not staged yet would stage an undo without knowing
of check-ins verified meanwhile. `NewsInv` adds that such an import is already
informed of every newer verified check-in (it can only be a peer's, with its
announcement still under way) and that all stamps lie in the past. `OfferIsHonoured`
needs no assumption about the channel: panel and service change together, and the
panel's own listener can only withdraw. `OwnCheckInReachesUndo` needs none either;
`OwnInv` adds that stamps are past, that panel and service hold the same import, and
that an import not staged yet is younger than every check-in its tab has verified.

`TabsImplementLedger` proves the refinement: every step of the tabs is a step of
`EntryLedger` or a stutter. The ledger demands that rewritten rows are newer than
all others and that a roll-back returns to contents held just before an import.
The first rests on `RowsArePast` (no row, of the table or of a snapshot, carries a
stamp still to come), the second on what a tab holds being the same set for the
mapping and for the undo (`Holds`, `HeldInPlace`).

`undo_race` shows what the undo can overwrite; the next three say how far that
goes. `StampsNameWrites`: a stamp names one check-in or one import of one tab
with one snapshot. The code compares snapshots by the identity of their array
(`restoreUndoSnapshot`), the model by the stamp of the import, and this is why
the two are the same. `SecondTestWouldSuffice`: no undo is accepted over a
newer verified check-in of its own tab, and if one is there when the snapshot is
written, the staged undo has been withdrawn or replaced meanwhile; the test
repeated inside the transaction would refuse it. `SecondTestWouldCatchPeers` says
so of every tab's check-ins, under `ReliableNews`, but for those whose
announcement is still under way. `CheckInsAreBounded` gives each check-in a number
of tries left, which every step of it lowers; it is inductive only with the
stamps, since two check-ins with one stamp would be one in the set.
`ImportIsRepeatable` is about the operator alone: an import whose outcome is not
known may be made again.

**`DbConnection_proofs`.** `TimerInv` carries three results. "No reload is
pending on a healthy page" is not inductive, since a pending open could succeed;
what is, is that a pending reload implies the recovery flag
(`TimerNeedsRecovery`, giving `HealthyPageStays`). `HeldBackTabKeepsRetry` is inductive
itself. `GuardHoldsBackLeavers` rests on `OpenedPageIsUnguarded`: an opened page
that is not being left carries no stamp. `ReloadsAreSpaced` assumes
`SessionStorage` (without it there is no stamp, and the code knows no other
guard) and adds `WindowIsCovered`: what is left of the stamp and the age of the
last reload together fill the window, and so do the retry timer and that age.
`TypeCorrect` needs the timer invariant for the range of the timers, and shows
that no operation makes more attempts than it may.
`HandleIsKnown` (`CallersKnowTheHandle`) relates each call to the one handle all
share: a call that awaits an open has one under way, and one that runs on a
closed handle has been cut off. It is inductive because whoever closes the handle
cuts off every call at once. `CallsAreBounded` gives each call a measure
(`StepsLeft`: attempts left, and whether the second run is still to come) that
every step touching it lowers, also those of other calls; so fairness ends it.

**`ImportWorkflow_proofs`.** `StagingInv` says what armed and acknowledged refer to.
Armed is tied to the preview only *in replace mode*: a preview that arrives while
replace is armed leaves it armed and falls back to merge, and it is the reset on
changing the mode that disarms. From it follow `ArmedIsExecuted`,
`RiskIsAcknowledged` and `BackupIsNeverLocked`. `LatestSelectionIsStaged` is about
the order of the selections, which the code does not keep: `SelectionInv` ties it to
the request numbers (while a preview is on screen, none has been given out since the
last selection, and the preview is that selection's unless it is still being read;
whatever gives out a number without a selection takes the preview away).
`LatestRequestIsLive` says that this test and the controller agree always, so
neither drops what the other would keep. `ReplaceIsBackedUp` rests on
`BackupBehindPhase`: the phases that allow arming have a save behind them. It claims
no more than the code gives: the save may be one from before the last reset of the
checkpoint (see the list above).

**`ImportPreview_proofs`.** `ParserWasPassed` says a file that is being compared
with the table, or is past that, met no objection, whichever path parsed it;
`WrittenFilesAreTrusted` follows with the second verification. `OwnBackupsPass`
shows first, as a lemma on digests, that both verifications accept a file an
export wrote, and then that nothing turns it down on the way (`NothingTurnedDown`).
`PathsAgree` strengthens its statement with what each stage knows of the verdict
(`VerdictInv`). `OnlyReorderedAreRefused` names exactly what the second
verification turns down after an accepting preview, by a lemma on the digests of
both; `AbortReachesWorker` is inductive.

**`PwaUpdate_proofs`.** `OwnerIsUnique` needs that a closed tab applies nothing
(`ClosedTabsApplyNothing`), since a start is posted to open tabs only.
`GuidanceHasTimer` needs that a handoff shown without a registration is an early
one (`UnregisteredHandoffIsEarly`). For `ReloadsAreBounded` the record covers the
reloads made (`RecordCoversReloads`); for `PageIsReloadedOnce` a page that waits
for the hook's reload with its database closed has a fresh guard
(`WaitingPageIsGuarded`), although others reset its flag. Both assume
`SessionStorage`.
`FlagIsNeverStuck` is inductive: the flag and the request to reload are set
together, and both go with the page. `ApplyKeepsItsTimeout` compares a step's
two states, action by action: "Applying" appears with its timer and loses it only
to another tab's message that a handoff is over.

**`StorageHealth_proofs`.** `TroubleIsSeen`: the diagnostics are read when a refresh
ends, and every change starts one, so a page at rest shows what is the case.
`BrowserIsAskedOnce` rests on `RequestIsRecorded`: a request counted for this
display mode has its attempt recorded, before the browser is awaited; it assumes
`LocalStorage`. `ProtectionIsNotOverclaimed` adds that what a refresh found is
granted (`FoundIsGranted`), for which it matters that a grant is not taken back.
`GrantFadesNoFurther` counts the other direction: the refreshes that hold the old
answer when the grant comes are used up one by one (`Stale`), and none joins them
while `persisted()` does not reject (`~PersistedFails`). `RequestMarkerIsReleased`
is inductive: a manual refresh keeps its kind to its end.

**`CheckInPanel_proofs`.** `BusyCardIsWritten` is inductive, since every end of a
write takes the marker back. `SavedDayIsVisible` adds `DaysAreOrdered`: neither
the page nor a write is ahead of the clock, and a write that is not late is for a
day the page has come to.
`ReportOfFailureStays` follows from the step alone.
`SavedIsStored` rests on `CommittedIsLast`: a write counts as committed only while
it is the last of its row, whoever wrote. `CalendarsStayInOrder` is inductive.

**`CrashReset_proofs`.** `WaitInv` is inductive: `BusyIsWork` (a fallback is busy
only while its export or the deletion it asked for goes on) and
`PendingDeletionExcludesPage` (while a deletion waits, this page has written nothing
since it asked, and is connected only as long as its crash page waits for the reset;
nothing opens its connection before). `ExportsDoNotHoldDeletions` and
`RetriedPageKeepsItsWrites` follow from it. `ResetIsBackedUp` adds
`ExportsCoverTheCrash`: the fallback remembers an export only if its file has all
recoverable rows of the crash that are still there; other tabs and operations under
way may remove and overwrite rows, and what they write is not promised.
`LoneResetIsBackedUp` says when nothing is lost at all: without other tabs
(`Peers = {}`) and without operations that outlive the crash (`[]~underWay`) the
table gains nothing while the crash page is shown (`CrashedTableStands`), so the
reset destroys no well-formed row that is not in a file.

Only model-checked are the ten liveness properties, since fairness and ENABLED are
out of the prover's reach (as are induction over data and RECURSIVE operators,
which no module here uses). Most have a proved core, the measure that fairness
drives down or the promise that a way out is there:

| liveness property | proved core | what fairness adds |
| --- | --- | --- |
| `CallsEnd` | `CallsAreBounded` | each attempt and back-off ends |
| `CheckInsEnd` | `CheckInsAreBounded` | each read-back and retry ends |
| `AbortEndsPreview` | `AbortReachesWorker` | reads and the page's parser end |
| `HeldBackTabRecovers` | `HeldBackTabKeepsRetry` | the timer fires |
| `HandoffGuidanceEnds` | `GuidanceHasTimer` | the timer fires |
| `ProtectionIsShown` | `GrantFadesNoFurther` | refreshes end, and another begins |
| `CardsSettle` | `BusyCardIsWritten` | each write ends |
| `ControlsComeBack` | `ExportsDoNotHoldDeletions` | exports and deletions end |
| `StaleUndoIsWithdrawn` | `NewsReachesUndo` | announcements are delivered |
| `WaitingWorkerIsOffered` | none | the page looks for a waiting worker again |

## Not modelled

* **Compositions.** A check-in between the backup and the replace needs
  `ImportWorkflow` and `UndoImport` together; the code promises nothing about it,
  and the undo of the import still has that check-in. Two tabs of `DbConnection`,
  where the upgrade of one is the version change of the other, are an environment
  event here, which allows at least what a second tab would do.
* **Unmounting.** The panels are taken to stay mounted while their page lives;
  `CrashReset` is the exception.
* **Migrations.** There is a single schema version without an upgrade function, so
  there is nothing to order.
* **Steps of a save** (stream, read-back) and CSV formatting: `ImportWorkflow` has
  their outcomes. Serialisation, canonical JSON, checksums: pure or cryptographic;
  `ImportPreview` has what they tell apart.
* **History grid and install prompt.** A read-only view with a pure layout; one
  deferred browser event and one stored dismissal.
* `cycleDailyStatus`, which nothing calls; the static boot fallback page; the
  offline notice; announcements for screen readers; focus movement; presentation,
  styling, build and deployment.

## Running

In this directory: `tlc -config undo_lossy.cfg MCUndoImport`, and likewise for the
other runs (`undo_*` with `MCUndoImport`, `db_*` with `MCDbConnection`,
`import_workflow` with `MCImportWorkflow`, `import_preview` with
`MCImportPreview`, `pwa_*` with `MCPwaUpdate`, `storage_health` with
`MCStorageHealth`, `check_in` with `MCCheckInPanel`, `crash_reset` with
`MCCrashReset`); `tlapm UndoImport_proofs.tla` and likewise for the other proof
modules. Every run ends within five minutes.
