----------------------------- MODULE DbConnection -----------------------------
(***************************************************************************)
(* The IndexedDB connection of one tab (db/appDb.ts): operations that      *)
(* reopen a closed handle with bounded attempts and run once more when the *)
(* handle is closed under them, the two reload timers, the session-scoped  *)
(* guard against tight reload loops, and the events of Dexie: an abnormal  *)
(* close, a schema upgrade by another tab, an upgrade that waits for one.  *)
(*                                                                         *)
(* Operations overlap: nothing serialises reopenIfClosed, and all callers  *)
(* share one handle.  Code between two awaits is one step.  Time is kept   *)
(* as the ticks that are left to each deadline.                            *)
(***************************************************************************)
EXTENDS Naturals

CONSTANTS
    Calls,             \* operations that may be in progress at once
    MaxAttempts,       \* DATABASE_REOPEN_MAX_ATTEMPTS
    GuardWindow,       \* SCHEMA_RELOAD_GUARD_WINDOW_MS, in ticks
    RetryBuffer,       \* SCHEMA_RELOAD_RETRY_BUFFER_MS, in ticks
    SessionStorage     \* FALSE: the browser denies sessionStorage

ASSUME AttemptAssumption == MaxAttempts \in Nat \ {0}
ASSUME WindowAssumption == GuardWindow \in Nat \ {0} /\ RetryBuffer \in Nat
ASSUME StorageAssumption == SessionStorage \in BOOLEAN

VARIABLES
    conn,          \* the Dexie handle
    recovery,      \* databaseRecoveryRequired
    loop,          \* schemaReloadLoopDetected
    blocked,       \* databaseUpgradeBlocked
    monitored,     \* monitorBlockedUpgradeResolution awaits the pending open
    everReady,     \* the handle has been open on this page
    reloadTimer,   \* databaseRecoveryReloadTimeoutId is set
    retryIn,       \* ticks until schemaReloadRetryTimeoutId fires, or NoTimer
    guardLeft,     \* ticks the stamp in sessionStorage still guards; 0: none
    leaving,       \* the reloads requested on this page, by their cause
    reconnect,     \* reconnectState of the diagnostics
    calls,         \* per operation: where it is
    sinceReload,   \* history: ticks since the last schema reload, at most
                   \* GuardWindow
    readySince     \* history: the database became ready since that reload

flags == <<recovery, loop, blocked>>
history == <<sinceReload, readySince>>
timers == <<reloadTimer, retryIn>>
vars == <<conn, recovery, loop, blocked, monitored, everReady, reloadTimer,
          retryIn, guardLeft, leaving, reconnect, calls, history>>

-------------------------------------------------------------------------------
NoTimer == GuardWindow + RetryBuffer + 1

(***************************************************************************)
(* attempt counts the attempts that failed; recovering is the constant of  *)
(* that name in reopenIfClosed; second marks the repeated operation; torn  *)
(* says that the handle was closed under the running operation.            *)
(***************************************************************************)
Call == [at : {"idle", "opening", "backoff", "running"},
         attempt : 0..(MaxAttempts - 1), recovering : BOOLEAN,
         second : BOOLEAN, torn : BOOLEAN]

Idle == [at |-> "idle", attempt |-> 0, recovering |-> FALSE,
         second |-> FALSE, torn |-> FALSE]

TypeOK ==
    /\ conn \in {"closed", "opening", "open"}
    /\ {recovery, loop, blocked, monitored, everReady, reloadTimer}
           \subseteq BOOLEAN
    /\ leaving \subseteq {"recovery", "schema", "retry", "handoff"}
    /\ retryIn \in 0..NoTimer
    /\ guardLeft \in 0..GuardWindow
    /\ reconnect \in {"steady", "recovering", "failed"}
    /\ calls \in [Calls -> Call]
    /\ sinceReload \in 0..GuardWindow

(***************************************************************************)
(* A fresh page: module state is initial, live queries open the handle.    *)
(***************************************************************************)
FreshPage ==
    /\ conn' = "opening"
    /\ recovery' = FALSE /\ loop' = FALSE /\ blocked' = FALSE
    /\ monitored' = FALSE /\ everReady' = FALSE
    /\ reloadTimer' = FALSE /\ retryIn' = NoTimer
    /\ leaving' = {}
    /\ reconnect' = "steady"
    /\ calls' = [c \in Calls |-> Idle]

Init ==
    /\ conn = "opening"
    /\ recovery = FALSE /\ loop = FALSE /\ blocked = FALSE
    /\ monitored = FALSE /\ everReady = FALSE
    /\ reloadTimer = FALSE /\ retryIn = NoTimer
    /\ guardLeft = 0
    /\ leaving = {}
    /\ reconnect = "steady"
    /\ calls = [c \in Calls |-> Idle]
    /\ sinceReload = GuardWindow /\ readySince = TRUE

Healthy == conn = "open" /\ ~recovery

-------------------------------------------------------------------------------
(* Operations: runDatabaseOperation and reopenIfClosed.                    *)

Running(c) == [c EXCEPT !.at = "running", !.attempt = 0, !.torn = FALSE]

Torn(c) == IF c.at = "running" THEN [c EXCEPT !.torn = TRUE] ELSE c

(***************************************************************************)
(* The awaited open was rejected: one attempt is gone, the last one ends   *)
(* the call.                                                               *)
(***************************************************************************)
\* Mutant: the loop runs once more than it should.
LastAttemptOffByOne(c) == c.at = "opening" /\ c.attempt = MaxAttempts

LastAttempt(c) == c.at = "opening" /\ c.attempt + 1 = MaxAttempts

\* Mutant: a failed attempt is not counted.
AttemptFailedUncounted(c) ==
    IF c.at # "opening" THEN c ELSE [c EXCEPT !.at = "backoff"]

AttemptFailed(c) ==
    IF c.at # "opening" THEN c
    ELSE IF LastAttempt(c) THEN Idle
    ELSE [c EXCEPT !.at = "backoff", !.attempt = @ + 1]

(***************************************************************************)
(* One pass of the loop of reopenIfClosed up to its first await.  A handle *)
(* that is open but marked for recovery is closed first, under whatever    *)
(* runs on it.                                                             *)
(***************************************************************************)
BeginAttempt(c, state) ==
    IF Healthy
    THEN /\ calls' = [calls EXCEPT ![c] = Running(state)]
         /\ reloadTimer' = FALSE
         /\ reconnect' = IF state.recovering THEN "steady" ELSE reconnect
         /\ UNCHANGED conn
    ELSE /\ conn' = "opening"
         /\ calls' = [d \in Calls |->
                IF d = c THEN [state EXCEPT !.at = "opening"]
                ELSE IF conn = "open" THEN Torn(calls[d]) ELSE calls[d]]
         /\ UNCHANGED <<reloadTimer, reconnect>>

Unavailable == blocked \/ loop

ReopenIfClosed(c, second) ==
    LET fresh == [Idle EXCEPT !.recovering = recovery, !.second = second]
    IN  IF Unavailable
        THEN /\ calls' = [calls EXCEPT ![c] = Idle]
             /\ UNCHANGED <<conn, reloadTimer, reconnect>>
        ELSE IF Healthy
        THEN /\ calls' = [calls EXCEPT ![c] = Running(fresh)]
             /\ UNCHANGED <<conn, reloadTimer, reconnect>>
        ELSE BeginAttempt(c, fresh)

\* A handle that works is used without asking for the two refusals.
Start(c) ==
    /\ calls[c].at = "idle"
    /\ IF Healthy
       THEN /\ calls' = [calls EXCEPT ![c] = Running(Idle)]
            /\ UNCHANGED <<conn, reloadTimer, reconnect>>
       ELSE ReopenIfClosed(c, FALSE)
    /\ UNCHANGED <<recovery, loop, blocked, monitored, everReady, retryIn,
                   guardLeft, leaving, history>>

BackoffEnds(c) ==
    /\ calls[c].at = "backoff"
    /\ BeginAttempt(c, calls[c])
    /\ UNCHANGED <<recovery, loop, blocked, monitored, everReady, retryIn,
                   guardLeft, leaving, history>>

\* The operation settles, with its result or an error of its own.
OperationEnds(c) ==
    /\ calls[c].at = "running"
    /\ calls' = [calls EXCEPT ![c] = Idle]
    /\ UNCHANGED <<conn, flags, monitored, everReady, timers, guardLeft,
                   leaving, reconnect, history>>

\* DatabaseClosedError: once it leads to a reopening, then to a rejection.
OperationFindsClosed(c) ==
    /\ calls[c].at = "running"
    /\ calls[c].torn
    /\ IF calls[c].second
       THEN /\ calls' = [calls EXCEPT ![c] = Idle]
            /\ UNCHANGED <<conn, reloadTimer, reconnect>>
       ELSE ReopenIfClosed(c, TRUE)
    /\ UNCHANGED <<recovery, loop, blocked, monitored, everReady, retryIn,
                   guardLeft, leaving, history>>

-------------------------------------------------------------------------------
(* The pending open settles; every caller that awaits it goes on at once.  *)

Awaiting == {c \in Calls : calls[c].at = "opening"}

\* Mutant: becoming ready leaves the stamp where it is.
DatabaseReadyKeepsStamp ==
    /\ blocked' = FALSE /\ loop' = FALSE
    /\ retryIn' = NoTimer
    /\ readySince' = TRUE
    /\ UNCHANGED guardLeft

\* handleDatabaseReady, but for the two variables that callers reset as well.
DatabaseReady ==
    /\ blocked' = FALSE /\ loop' = FALSE
    /\ retryIn' = NoTimer
    /\ guardLeft' = IF SessionStorage THEN 0 ELSE guardLeft
    /\ readySince' = TRUE

\* Mutant: a caller that gets through lets the scheduled reload happen.
RecoveryIsOverButReloads(ready) ==
    /\ recovery' = (recovery /\ ~ready /\ Awaiting = {})
    /\ reloadTimer' = (reloadTimer /\ ~ready)

RecoveryIsOver(ready) ==
    /\ recovery' = (recovery /\ ~ready /\ Awaiting = {})
    /\ reloadTimer' = (reloadTimer /\ ~ready /\ Awaiting = {})

CallersGoOn ==
    /\ reconnect' = IF \E c \in Awaiting : calls[c].recovering
                    THEN "steady" ELSE reconnect
    /\ calls' = [c \in Calls |->
           IF c \in Awaiting THEN Running(calls[c]) ELSE calls[c]]

(***************************************************************************)
(* handleDatabaseReady runs on Dexie's ready event, which comes with the   *)
(* first opening of a page and may come with later ones, and when the open *)
(* that monitorBlockedUpgradeResolution awaits succeeds.                   *)
(***************************************************************************)
OpenSucceeds ==
    /\ conn = "opening"
    /\ conn' = "open"
    /\ everReady' = TRUE
    /\ \/ DatabaseReady /\ RecoveryIsOver(TRUE)
       \/ /\ everReady /\ ~monitored
          /\ RecoveryIsOver(FALSE)
          /\ UNCHANGED <<blocked, loop, retryIn, guardLeft, readySince>>
    /\ CallersGoOn
    /\ monitored' = FALSE
    /\ UNCHANGED <<leaving, sinceReload>>

(***************************************************************************)
(* The open is rejected, or it outlasts one caller's timeout; that caller  *)
(* closes the handle and so rejects the open for the others.               *)
(***************************************************************************)
OpenFails ==
    /\ conn = "opening"
    /\ conn' = "closed"
    /\ calls' = [c \in Calls |-> AttemptFailed(calls[c])]
    /\ recovery' = (recovery \/ Awaiting # {})
    /\ reloadTimer' = (reloadTimer \/ \E c \in Calls : LastAttempt(calls[c]))
    /\ reconnect' = IF \E c \in Calls : LastAttempt(calls[c])
                    THEN "failed" ELSE reconnect
    /\ monitored' = FALSE
    /\ UNCHANGED <<loop, blocked, everReady, retryIn, guardLeft, leaving,
                   history>>

-------------------------------------------------------------------------------
(* Events.                                                                 *)

\* closeDatabaseConnection: running operations are cut off, a pending open
\* is rejected for its callers.
CloseConnection ==
    /\ conn' = "closed"
    /\ recovery' = TRUE
    /\ monitored' = FALSE
    /\ calls' = [c \in Calls |-> Torn(AttemptFailed(calls[c]))]
    /\ reconnect' = IF \E c \in Calls : LastAttempt(calls[c])
                    THEN "failed" ELSE reconnect
    /\ reloadTimer' = (reloadTimer \/ \E c \in Calls : LastAttempt(calls[c]))

\* The browser drops the connection (Dexie's close event).
ConnectionDrops ==
    /\ conn = "open"
    /\ conn' = "closed"
    /\ recovery' = TRUE
    /\ reconnect' = "recovering"
    /\ calls' = [c \in Calls |-> Torn(calls[c])]
    /\ UNCHANGED <<loop, blocked, monitored, everReady, timers, guardLeft,
                   leaving, history>>

RecordReload == guardLeft' = IF SessionStorage THEN GuardWindow ELSE guardLeft

\* Another tab wants to upgrade the schema: handleDatabaseVersionChange.
VersionChangeReloads ==
    /\ conn = "open"
    /\ guardLeft = 0
    /\ CloseConnection
    /\ loop' = FALSE
    /\ retryIn' = NoTimer
    /\ RecordReload
    /\ leaving' = leaving \cup {"schema"}
    /\ sinceReload' = 0 /\ readySince' = FALSE
    /\ UNCHANGED <<blocked, everReady>>

\* Mutant: the timer is cleared after it has been set instead of before.
HeldBackThenCleared ==
    /\ loop' = TRUE
    /\ retryIn' = NoTimer

HeldBack ==
    /\ loop' = TRUE
    /\ retryIn' = guardLeft + RetryBuffer

\* The same inside the guard window: the reload is put off.
VersionChangeHeldBack ==
    /\ conn = "open"
    /\ guardLeft > 0
    /\ CloseConnection
    /\ HeldBack
    /\ UNCHANGED <<blocked, everReady, guardLeft, leaving, history>>

\* This tab's own opening has to upgrade and waits for another tab.
UpgradeBlocked ==
    /\ conn = "opening"
    /\ blocked' = TRUE
    /\ recovery' = TRUE
    /\ monitored' = TRUE
    /\ UNCHANGED <<conn, loop, everReady, timers, guardLeft, leaving,
                   reconnect, calls, history>>

\* closeDatabaseForServiceWorkerHandoff and the reload that follows it.
ServiceWorkerHandoff ==
    /\ loop' = FALSE
    /\ retryIn' = NoTimer
    /\ CloseConnection
    /\ RecordReload
    /\ leaving' = leaving \cup {"handoff"}
    /\ UNCHANGED <<blocked, everReady, history>>

RecoveryReload ==
    /\ reloadTimer
    /\ reloadTimer' = FALSE
    /\ leaving' = leaving \cup {"recovery"}
    /\ UNCHANGED <<conn, flags, monitored, everReady, retryIn, guardLeft,
                   reconnect, calls, history>>

\* Mutant: the retried reload leaves no stamp.
SchemaReloadRetryUnrecorded ==
    /\ retryIn = 0
    /\ retryIn' = NoTimer
    /\ leaving' = leaving \cup {"retry"}
    /\ sinceReload' = 0 /\ readySince' = FALSE
    /\ UNCHANGED <<conn, flags, monitored, everReady, reloadTimer, guardLeft,
                   reconnect, calls>>

SchemaReloadRetry ==
    /\ retryIn = 0
    /\ retryIn' = NoTimer
    /\ RecordReload
    /\ leaving' = leaving \cup {"retry"}
    /\ sinceReload' = 0 /\ readySince' = FALSE
    /\ UNCHANGED <<conn, flags, monitored, everReady, reloadTimer, reconnect,
                   calls>>

\* The page is unloaded: by a requested reload, or by the user.
Unload ==
    /\ FreshPage
    /\ UNCHANGED <<guardLeft, history>>

Less(ticks) == IF ticks = 0 THEN 0 ELSE ticks - 1

Tick ==
    /\ guardLeft' = Less(guardLeft)
    /\ retryIn' = IF retryIn = NoTimer THEN NoTimer ELSE Less(retryIn)
    /\ sinceReload' = IF sinceReload < GuardWindow THEN sinceReload + 1
                      ELSE sinceReload
    /\ UNCHANGED <<conn, flags, monitored, everReady, reloadTimer, leaving,
                   reconnect, calls, readySince>>

Next ==
    \/ \E c \in Calls :
           \/ Start(c)
           \/ BackoffEnds(c)
           \/ OperationEnds(c)
           \/ OperationFindsClosed(c)
    \/ OpenSucceeds
    \/ OpenFails
    \/ ConnectionDrops
    \/ VersionChangeReloads
    \/ VersionChangeHeldBack
    \/ UpgradeBlocked
    \/ ServiceWorkerHandoff
    \/ RecoveryReload
    \/ SchemaReloadRetry
    \/ Unload
    \/ Tick

Spec == Init /\ [][Next]_vars

(***************************************************************************)
(* Timers fire, time passes, an operation settles, and an open that has a  *)
(* caller settles (its timeout sees to it); an open without a caller may   *)
(* hang, a requested reload may not come, and nobody has to start.         *)
(***************************************************************************)
Fairness ==
    /\ WF_vars(Tick) /\ WF_vars(RecoveryReload) /\ WF_vars(SchemaReloadRetry)
    /\ WF_vars(Awaiting # {} /\ (OpenSucceeds \/ OpenFails))
    /\ \A c \in Calls :
           /\ WF_vars(BackoffEnds(c))
           /\ WF_vars(OperationEnds(c) \/ OperationFindsClosed(c))

FairSpec == Spec /\ Fairness

-------------------------------------------------------------------------------
(* Properties.                                                             *)

(***************************************************************************)
(* A page whose handle works is never reloaded by the recovery timer: a    *)
(* caller that gives up schedules the reload, and any caller that gets     *)
(* through cancels it (db.test.ts: "cancels a scheduled recovery reload if *)
(* the database reconnects before the timer fires").                       *)
(***************************************************************************)
NoReloadOfHealthyPage == reloadTimer => ~Healthy

(***************************************************************************)
(* A tab whose schema reload was held back refuses to reopen its handle,   *)
(* so its bounded retry (ADR 0015) is either still to come or has been     *)
(* made, even if other reloads, drops and reopenings come in between.      *)
(***************************************************************************)
HeldBackTabHasRetry == loop => retryIn # NoTimer \/ "retry" \in leaving

(***************************************************************************)
(* "let the existing recovery paths surface the failure" (appDb.ts): a tab *)
(* without a working handle that refuses operations because its upgrade is *)
(* blocked has a way out without the user reloading it: the pending open,  *)
(* a caller that goes on, or a reload.                                     *)
(***************************************************************************)
BlockedTabHasWayOut ==
    blocked /\ ~Healthy =>
        \/ monitored
        \/ reloadTimer
        \/ leaving # {}
        \/ \E c \in Calls : calls[c].at \in {"opening", "backoff"}

SchemaReload == VersionChangeReloads \/ SchemaReloadRetry

(***************************************************************************)
(* Two schema reloads are never closer than the guard window, unless the   *)
(* database became ready in between: the stamp, the retry timer and the    *)
(* handoff, which stamps too, work together (appDb.ts).                    *)
(***************************************************************************)
SchemaReloadsAreSpaced ==
    [][SchemaReload => sinceReload = GuardWindow \/ readySince]_vars

(***************************************************************************)
(* A reload is only ever held back on a page that is being left already:   *)
(* the stamp that would hold back a fresh page is gone once it is ready.   *)
(***************************************************************************)
OnlyLeavingPageIsHeldBack == [][VersionChangeHeldBack => leaving # {}]_vars

(***************************************************************************)
(* Every operation settles or its page goes: attempts are bounded, also    *)
(* when callers close the handle under each other.                         *)
(***************************************************************************)
CallsEnd == \A c \in Calls : calls[c].at # "idle" ~> calls[c].at = "idle"

(***************************************************************************)
(* A tab whose schema reload was held back gets out of it by itself: its   *)
(* retry reloads it, or a handle serves it again before.                   *)
(***************************************************************************)
HeldBackTabRecovers == loop ~> (~loop \/ "retry" \in leaving)
===============================================================================
