-------------------------- MODULE DbConnection_proofs --------------------------
(***************************************************************************)
(* Theorems about DbConnection, for any number of overlapping operations,  *)
(* attempts and window lengths: the two reload timers, what the            *)
(* session-scoped stamp does and does not hold back, what a caller knows   *)
(* of the handle that all of them share, and how far a call is from its    *)
(* end.                                                                    *)
(***************************************************************************)
EXTENDS DbConnection, TLAPS

TimersAreTyped ==
    /\ retryIn \in 0..NoTimer
    /\ guardLeft \in 0..GuardWindow
    /\ sinceReload \in 0..GuardWindow

(***************************************************************************)
(* A page that has been open and is not being left carries no stamp, and   *)
(* without sessionStorage there is none.                                   *)
(***************************************************************************)
OpenedPageIsUnguarded ==
    /\ (conn = "open" => everReady)
    /\ ((everReady /\ leaving = {}) => guardLeft = 0)
    /\ (~SessionStorage => guardLeft = 0)

(***************************************************************************)
(* The stamp lasts until the window since the last schema reload is over,  *)
(* and a retry does not fire before that.                                  *)
(***************************************************************************)
WindowIsCovered ==
    readySince \/ /\ guardLeft + sinceReload >= GuardWindow
                  /\ retryIn + sinceReload >= GuardWindow

(***************************************************************************)
(* The recovery reload is only scheduled while the handle is marked for    *)
(* recovery; that the handle does not work is too weak to be inductive,    *)
(* since a pending open could succeed unmarked.                            *)
(***************************************************************************)
TimerNeedsRecovery == reloadTimer => recovery

TimerInv ==
    /\ TimersAreTyped
    /\ TimerNeedsRecovery
    /\ HeldBackTabHasRetry
    /\ OpenedPageIsUnguarded

(***************************************************************************)
(* A step that only serves a caller changes none of the timers but the     *)
(* recovery reload, which it cancels if the handle works.                  *)
(***************************************************************************)
LEMMA AttemptKeeps ==
    ASSUME NEW c, NEW state, TimerNeedsRecovery, BeginAttempt(c, state),
           recovery' = recovery
    PROVE  TimerNeedsRecovery' /\ (conn' = "open" => conn = "open")
BY DEF BeginAttempt, TimerNeedsRecovery

(***************************************************************************)
(* The same of a call that reopens the handle if it has to.                *)
(***************************************************************************)
LEMMA ReopenKeeps ==
    ASSUME NEW c, NEW second, TimerNeedsRecovery, ReopenIfClosed(c, second),
           recovery' = recovery
    PROVE  TimerNeedsRecovery' /\ (conn' = "open" => conn = "open")
<1>1. CASE UNCHANGED <<conn, reloadTimer, reconnect>>
  BY <1>1 DEF TimerNeedsRecovery
<1>2. CASE BeginAttempt(c, [Idle EXCEPT !.recovering = recovery,
                                        !.second = second])
  BY <1>2, AttemptKeeps
<1> QED
  BY <1>1, <1>2 DEF ReopenIfClosed

(***************************************************************************)
(* A step that leaves the timers and the flags alone keeps the invariant   *)
(* if it neither opens the handle nor sets the recovery timer wrongly.     *)
(***************************************************************************)
LEMMA CallerStep ==
    ASSUME TimerInv, TimerNeedsRecovery',
           conn' = "open" => conn = "open",
           UNCHANGED <<loop, everReady, retryIn, guardLeft, leaving, history>>
    PROVE  TimerInv'
BY DEF TimerInv, TimersAreTyped, HeldBackTabHasRetry, OpenedPageIsUnguarded,
       history, NoTimer

(***************************************************************************)
(* Closing the connection leaves no working handle.                        *)
(***************************************************************************)
LEMMA CloseKeeps ==
    ASSUME CloseConnection
    PROVE  TimerNeedsRecovery' /\ conn' = "closed"
BY DEF CloseConnection, TimerNeedsRecovery

(***************************************************************************)
(* Opening the handle ends the recovery and its timer together.            *)
(***************************************************************************)
LEMMA OpeningKeeps ==
    ASSUME TimerNeedsRecovery, OpenSucceeds
    PROVE  TimerNeedsRecovery'
<1>1. ASSUME NEW ready \in BOOLEAN, RecoveryIsOver(ready)
      PROVE  TimerNeedsRecovery'
  BY <1>1, Zenon DEF RecoveryIsOver, TimerNeedsRecovery
<1> QED
  BY <1>1 DEF OpenSucceeds

(***************************************************************************)
(* Every step of the page keeps the invariant of the timers.               *)
(***************************************************************************)
LEMMA TimerStep ==
    ASSUME TimerInv, [Next]_vars
    PROVE  TimerInv'
<1>0. /\ GuardWindow \in Nat /\ RetryBuffer \in Nat
      /\ guardLeft \in 0..GuardWindow /\ retryIn \in 0..NoTimer
      /\ sinceReload \in 0..GuardWindow /\ NoTimer \in Nat
      /\ TimerNeedsRecovery
  BY WindowAssumption DEF TimerInv, TimersAreTyped, NoTimer
<1>1. ASSUME NEW c \in Calls, Start(c) PROVE TimerInv'
  <2>1. /\ UNCHANGED <<recovery, loop, everReady, retryIn, guardLeft, leaving,
                       history>>
        /\ UNCHANGED <<conn, reloadTimer, reconnect>> \/ ReopenIfClosed(c, FALSE)
    BY <1>1 DEF Start
  <2>2. CASE UNCHANGED <<conn, reloadTimer, reconnect>>
    <3>1. TimerNeedsRecovery'
      BY <1>0, <2>1, <2>2 DEF TimerNeedsRecovery
    <3> QED
      BY <2>1, <2>2, <3>1, CallerStep
  <2>3. CASE ReopenIfClosed(c, FALSE)
    BY <1>0, <2>1, <2>3, ReopenKeeps, CallerStep
  <2> QED
    BY <2>1, <2>2, <2>3
<1>2. ASSUME NEW c \in Calls, BackoffEnds(c) PROVE TimerInv'
  BY <1>0, <1>2, AttemptKeeps, CallerStep DEF BackoffEnds
<1>3. ASSUME NEW c \in Calls, OperationEnds(c) PROVE TimerInv'
  <2>1. TimerNeedsRecovery'
    BY <1>0, <1>3 DEF OperationEnds, flags, timers, TimerNeedsRecovery
  <2> QED
    BY <1>3, <2>1, CallerStep DEF OperationEnds, flags, timers
<1>4. ASSUME NEW c \in Calls, OperationFindsClosed(c) PROVE TimerInv'
  <2>1. /\ UNCHANGED <<recovery, loop, everReady, retryIn, guardLeft, leaving,
                       history>>
        /\ UNCHANGED <<conn, reloadTimer, reconnect>> \/ ReopenIfClosed(c, TRUE)
    BY <1>4 DEF OperationFindsClosed
  <2>2. CASE UNCHANGED <<conn, reloadTimer, reconnect>>
    <3>1. TimerNeedsRecovery'
      BY <1>0, <2>1, <2>2 DEF TimerNeedsRecovery
    <3> QED
      BY <2>1, <2>2, <3>1, CallerStep
  <2>3. CASE ReopenIfClosed(c, TRUE)
    BY <1>0, <2>1, <2>3, ReopenKeeps, CallerStep
  <2> QED
    BY <2>1, <2>2, <2>3
<1>5. CASE OpenSucceeds
  <2>1. TimerNeedsRecovery'
    BY <1>0, <1>5, OpeningKeeps
  <2>2. TimersAreTyped'
    <3>1. UNCHANGED sinceReload
      BY <1>5 DEF OpenSucceeds
    <3>2. UNCHANGED <<retryIn, guardLeft>> \/ DatabaseReady
      BY <1>5 DEF OpenSucceeds
    <3> QED
      BY <1>0, <3>1, <3>2 DEF DatabaseReady, TimersAreTyped, NoTimer
  <2>3. HeldBackTabHasRetry'
    BY <1>5 DEF OpenSucceeds, DatabaseReady, TimerInv, HeldBackTabHasRetry, NoTimer
  <2>4. OpenedPageIsUnguarded'
    BY <1>5 DEF OpenSucceeds, DatabaseReady, TimerInv, OpenedPageIsUnguarded
  <2> QED
    BY <2>1, <2>2, <2>3, <2>4 DEF TimerInv
<1>6. CASE OpenFails
  <2>1. TimerNeedsRecovery' /\ conn' = "closed"
    <3>1. (\E c \in Calls : LastAttempt(calls[c])) => Awaiting # {}
      BY DEF LastAttempt, Awaiting
    <3>2. /\ recovery' = (recovery \/ Awaiting # {})
          /\ reloadTimer' = (reloadTimer \/ \E c \in Calls : LastAttempt(calls[c]))
          /\ conn' = "closed"
      BY <1>6 DEF OpenFails
    <3> QED
      BY <1>0, <3>1, <3>2, Zenon DEF TimerNeedsRecovery
  <2> QED
    BY <1>6, <2>1, CallerStep DEF OpenFails
<1>7. CASE ConnectionDrops
  <2>1. TimerNeedsRecovery' /\ conn' = "closed"
    BY <1>7 DEF ConnectionDrops, TimerNeedsRecovery
  <2> QED
    BY <1>7, <2>1, CallerStep DEF ConnectionDrops, timers
<1>8. CASE VersionChangeReloads
  <2>1. TimerNeedsRecovery' /\ conn' = "closed"
    BY <1>8, CloseKeeps DEF VersionChangeReloads
  <2>2. TimersAreTyped'
    BY <1>0, <1>8 DEF VersionChangeReloads, RecordReload, TimersAreTyped, NoTimer
  <2>3. HeldBackTabHasRetry'
    BY <1>8 DEF VersionChangeReloads, HeldBackTabHasRetry
  <2>4. OpenedPageIsUnguarded'
    BY <1>8, <2>1 DEF VersionChangeReloads, RecordReload, TimerInv,
       OpenedPageIsUnguarded
  <2> QED
    BY <2>1, <2>2, <2>3, <2>4 DEF TimerInv
<1>9. CASE VersionChangeHeldBack
  <2>1. TimerNeedsRecovery' /\ conn' = "closed"
    BY <1>9, CloseKeeps DEF VersionChangeHeldBack
  <2>2. TimersAreTyped' /\ retryIn' # NoTimer'
    BY <1>0, <1>9 DEF VersionChangeHeldBack, HeldBack, TimersAreTyped, NoTimer,
       history
  <2>3. HeldBackTabHasRetry'
    BY <2>2 DEF HeldBackTabHasRetry
  <2>4. OpenedPageIsUnguarded'
    BY <1>9, <2>1 DEF VersionChangeHeldBack, TimerInv, OpenedPageIsUnguarded
  <2> QED
    BY <2>1, <2>2, <2>3, <2>4 DEF TimerInv
<1>10. CASE UpgradeBlocked
  <2>1. TimerNeedsRecovery' /\ conn' = conn
    BY <1>10 DEF UpgradeBlocked, TimerNeedsRecovery
  <2> QED
    BY <1>10, <2>1, CallerStep DEF UpgradeBlocked, timers
<1>11. CASE ServiceWorkerHandoff
  <2>1. TimerNeedsRecovery' /\ conn' = "closed"
    BY <1>11, CloseKeeps DEF ServiceWorkerHandoff
  <2>2. TimersAreTyped'
    BY <1>0, <1>11 DEF ServiceWorkerHandoff, RecordReload, TimersAreTyped,
       NoTimer, history
  <2>3. HeldBackTabHasRetry'
    BY <1>11 DEF ServiceWorkerHandoff, HeldBackTabHasRetry
  <2>4. OpenedPageIsUnguarded'
    BY <1>11, <2>1 DEF ServiceWorkerHandoff, RecordReload, TimerInv,
       OpenedPageIsUnguarded
  <2> QED
    BY <2>1, <2>2, <2>3, <2>4 DEF TimerInv
<1>12. CASE RecoveryReload
  BY <1>12 DEF RecoveryReload, flags, history, TimerInv, TimersAreTyped,
     TimerNeedsRecovery, HeldBackTabHasRetry, OpenedPageIsUnguarded,
     NoTimer
<1>13. CASE SchemaReloadRetry
  <2>1. TimerNeedsRecovery'
    BY <1>0, <1>13 DEF SchemaReloadRetry, flags, TimerNeedsRecovery
  <2>2. TimersAreTyped'
    BY <1>0, <1>13 DEF SchemaReloadRetry, RecordReload, TimersAreTyped, NoTimer
  <2>3. HeldBackTabHasRetry' /\ OpenedPageIsUnguarded'
    BY <1>13 DEF SchemaReloadRetry, RecordReload, TimerInv,
       HeldBackTabHasRetry, OpenedPageIsUnguarded
  <2> QED
    BY <2>1, <2>2, <2>3 DEF TimerInv
<1>14. CASE Unload
  BY <1>0, <1>14 DEF Unload, FreshPage, history, TimerInv, TimersAreTyped,
     TimerNeedsRecovery, HeldBackTabHasRetry, OpenedPageIsUnguarded, NoTimer
<1>15. CASE Tick
  <2>1. TimerNeedsRecovery'
    BY <1>0, <1>15 DEF Tick, flags, TimerNeedsRecovery
  <2>2. TimersAreTyped'
    BY <1>0, <1>15 DEF Tick, Less, TimersAreTyped, NoTimer
  <2>3. HeldBackTabHasRetry'
    BY <1>0, <1>15 DEF Tick, Less, flags, TimerInv, HeldBackTabHasRetry, NoTimer
  <2>4. OpenedPageIsUnguarded'
    BY <1>15 DEF Tick, Less, TimerInv, OpenedPageIsUnguarded
  <2> QED
    BY <2>1, <2>2, <2>3, <2>4 DEF TimerInv
<1>16. CASE UNCHANGED vars
  <2>1. TimerNeedsRecovery'
    BY <1>0, <1>16 DEF vars, TimerNeedsRecovery
  <2> QED
    BY <1>16, <2>1, CallerStep DEF vars
<1> QED
  BY <1>1, <1>2, <1>3, <1>4, <1>5, <1>6, <1>7, <1>8, <1>9, <1>10, <1>11,
     <1>12, <1>13, <1>14, <1>15, <1>16 DEF Next

(***************************************************************************)
(* The invariant of the timers holds in every reachable state.             *)
(***************************************************************************)
LEMMA TimerInvHolds == Spec => []TimerInv
<1>1. Init => TimerInv
  BY WindowAssumption DEF Init, TimerInv, TimersAreTyped, TimerNeedsRecovery,
     HeldBackTabHasRetry, OpenedPageIsUnguarded, NoTimer
<1>2. TimerInv /\ [Next]_vars => TimerInv'
  BY TimerStep
<1> QED
  BY <1>1, <1>2, PTL DEF Spec

(***************************************************************************)
(* A page whose handle works is never reloaded by the recovery timer,      *)
(* however callers, drops and schema events interleave.                    *)
(***************************************************************************)
THEOREM HealthyPageStays == Spec => []NoReloadOfHealthyPage
<1>1. TimerInv => NoReloadOfHealthyPage
  BY DEF TimerInv, TimerNeedsRecovery, NoReloadOfHealthyPage, Healthy
<1> QED
  BY <1>1, TimerInvHolds, PTL

(***************************************************************************)
(* A tab whose schema reload was held back keeps its bounded retry.        *)
(***************************************************************************)
THEOREM HeldBackTabKeepsRetry == Spec => []HeldBackTabHasRetry
BY TimerInvHolds, PTL DEF TimerInv

(***************************************************************************)
(* The stamp only ever holds back a reload of a page that is being left.   *)
(***************************************************************************)
THEOREM GuardHoldsBackLeavers == Spec => OnlyLeavingPageIsHeldBack
<1>1. TimerInv => (VersionChangeHeldBack => leaving # {})
  BY WindowAssumption DEF TimerInv, TimersAreTyped, OpenedPageIsUnguarded,
     VersionChangeHeldBack
<1> QED
  BY <1>1, TimerInvHolds, PTL DEF OnlyLeavingPageIsHeldBack

-------------------------------------------------------------------------------
(* Schema reloads are spaced.                                              *)

(***************************************************************************)
(* With sessionStorage, every step keeps the window covered: a reload      *)
(* stamps it anew, a tick takes from the stamp what it gives to the age of *)
(* the reload, and only becoming ready erases the stamp.                   *)
(***************************************************************************)
LEMMA WindowStep ==
    ASSUME SessionStorage, TimerInv, WindowIsCovered, [Next]_vars
    PROVE  WindowIsCovered'
<1>0. /\ GuardWindow \in Nat /\ RetryBuffer \in Nat
      /\ guardLeft \in 0..GuardWindow /\ retryIn \in 0..NoTimer
      /\ sinceReload \in 0..GuardWindow
      /\ NoTimer = GuardWindow + RetryBuffer + 1
  BY WindowAssumption DEF TimerInv, TimersAreTyped, NoTimer
<1>1. CASE UNCHANGED <<guardLeft, retryIn, history>>
  BY <1>1 DEF WindowIsCovered, history
<1>2. CASE OpenSucceeds
  <2>1. UNCHANGED <<guardLeft, retryIn, history>> \/ readySince'
    BY <1>2 DEF OpenSucceeds, DatabaseReady, history
  <2> QED
    BY <1>1, <2>1 DEF WindowIsCovered
<1>3. CASE VersionChangeReloads \/ SchemaReloadRetry
  BY <1>0, <1>3 DEF VersionChangeReloads, SchemaReloadRetry, RecordReload,
     WindowIsCovered
<1>4. CASE VersionChangeHeldBack
  BY <1>0, <1>4 DEF VersionChangeHeldBack, HeldBack, WindowIsCovered, history
<1>5. CASE ServiceWorkerHandoff
  BY <1>0, <1>5 DEF ServiceWorkerHandoff, RecordReload, WindowIsCovered, history
<1>6. CASE Unload
  BY <1>0, <1>6 DEF Unload, FreshPage, WindowIsCovered, history
<1>7. CASE Tick
  BY <1>0, <1>7 DEF Tick, Less, WindowIsCovered
<1>8. CASE \/ \E c \in Calls : \/ Start(c) \/ BackoffEnds(c)
                              \/ OperationEnds(c) \/ OperationFindsClosed(c)
           \/ OpenFails \/ ConnectionDrops \/ UpgradeBlocked \/ RecoveryReload
           \/ UNCHANGED vars
  BY <1>1, <1>8 DEF Start, BackoffEnds, OperationEnds, OperationFindsClosed,
     OpenFails, ConnectionDrops, UpgradeBlocked, RecoveryReload, timers, vars
<1> QED
  BY <1>2, <1>3, <1>4, <1>5, <1>6, <1>7, <1>8 DEF Next

(***************************************************************************)
(* With sessionStorage, two schema reloads are never closer than the guard *)
(* window unless the database became ready in between.                     *)
(***************************************************************************)
THEOREM ReloadsAreSpaced ==
    ASSUME SessionStorage
    PROVE  Spec => SchemaReloadsAreSpaced
<1>1. Init => WindowIsCovered
  BY DEF Init, WindowIsCovered
<1>2. TimerInv /\ WindowIsCovered /\ [Next]_vars => WindowIsCovered'
  BY WindowStep
<1>3. TimerInv /\ WindowIsCovered
          => (SchemaReload => sinceReload = GuardWindow \/ readySince)
  BY WindowAssumption DEF TimerInv, TimersAreTyped, WindowIsCovered,
     SchemaReload, VersionChangeReloads, SchemaReloadRetry
<1> QED
  BY <1>1, <1>2, <1>3, TimerInvHolds, PTL DEF Spec, SchemaReloadsAreSpaced

-------------------------------------------------------------------------------
(* Types.                                                                  *)

(***************************************************************************)
(* Everything but the timers and the clock, which TimersAreTyped covers.   *)
(***************************************************************************)
Flags == {recovery, loop, blocked, monitored, everReady, reloadTimer}

PageIsTyped ==
    /\ conn \in {"closed", "opening", "open"}
    /\ Flags \subseteq BOOLEAN
    /\ leaving \subseteq {"recovery", "schema", "retry", "handoff"}
    /\ reconnect \in {"steady", "recovering", "failed"}
    /\ calls \in [Calls -> Call]

(***************************************************************************)
(* What happens to one operation keeps it one: its attempts stay below the *)
(* bound, for the last failed one ends it.                                 *)
(***************************************************************************)
LEMMA CallTypes ==
    /\ Idle \in Call
    /\ \A c \in Call : Running(c) \in Call /\ Torn(c) \in Call
                       /\ AttemptFailed(c) \in Call
<1>1. Idle \in Call
  BY AttemptAssumption DEF Idle, Call
<1>2. ASSUME NEW c \in Call PROVE Running(c) \in Call /\ Torn(c) \in Call
  <2>1. 0 \in 0..(MaxAttempts - 1)
    BY AttemptAssumption
  <2>2. Running(c) \in Call
    BY <2>1 DEF Running, Call
  <2>3. Torn(c) \in Call
    <3>1. [c EXCEPT !.torn = TRUE] \in Call
      BY DEF Call
    <3> QED
      BY <3>1 DEF Torn
  <2> QED
    BY <2>2, <2>3
<1>3. ASSUME NEW c \in Call PROVE AttemptFailed(c) \in Call
  <2>1. CASE c.at # "opening" \/ LastAttempt(c)
    BY <1>1, <2>1 DEF AttemptFailed
  <2>2. CASE c.at = "opening" /\ ~LastAttempt(c)
    <3>1. c.attempt + 1 \in 0..(MaxAttempts - 1)
      BY <2>2, AttemptAssumption DEF LastAttempt, Call
    <3>2. AttemptFailed(c) = [c EXCEPT !.at = "backoff", !.attempt = @ + 1]
      BY <2>2 DEF AttemptFailed
    <3> QED
      BY <3>1, <3>2 DEF Call
  <2> QED
    BY <2>1, <2>2
<1> QED
  BY <1>1, <1>2, <1>3

(***************************************************************************)
(* A pass of the reopening loop keeps the types of what it touches.        *)
(***************************************************************************)
LEMMA AttemptTypes ==
    ASSUME PageIsTyped, NEW c \in Calls, NEW state \in Call, BeginAttempt(c, state)
    PROVE  /\ conn' \in {"closed", "opening", "open"}
           /\ reloadTimer' \in BOOLEAN
           /\ reconnect' \in {"steady", "recovering", "failed"}
           /\ calls' \in [Calls -> Call]
<1>1. [state EXCEPT !.at = "opening"] \in Call /\ Running(state) \in Call
      /\ \A d \in Calls : calls[d] \in Call /\ Torn(calls[d]) \in Call
  BY CallTypes DEF Call, PageIsTyped
<1>2. calls' \in [Calls -> Call]
  <2>1. CASE calls' = [calls EXCEPT ![c] = Running(state)]
    BY <1>1, <2>1 DEF PageIsTyped
  <2>2. CASE calls' = [d \in Calls |->
                IF d = c THEN [state EXCEPT !.at = "opening"]
                ELSE IF conn = "open" THEN Torn(calls[d]) ELSE calls[d]]
    BY <1>1, <2>2
  <2> QED
    BY <2>1, <2>2 DEF BeginAttempt
<1>3. /\ conn' \in {"closed", "opening", "open"}
      /\ reloadTimer' \in BOOLEAN
      /\ reconnect' \in {"steady", "recovering", "failed"}
  BY DEF BeginAttempt, PageIsTyped, Flags
<1> QED
  BY <1>2, <1>3

(***************************************************************************)
(* The same of a call that reopens the handle if it has to.                *)
(***************************************************************************)
LEMMA ReopenTypes ==
    ASSUME PageIsTyped, NEW c \in Calls, NEW second \in BOOLEAN,
           ReopenIfClosed(c, second)
    PROVE  /\ conn' \in {"closed", "opening", "open"}
           /\ reloadTimer' \in BOOLEAN
           /\ reconnect' \in {"steady", "recovering", "failed"}
           /\ calls' \in [Calls -> Call]
<1> DEFINE fresh == [Idle EXCEPT !.recovering = recovery, !.second = second]
<1>1. fresh \in Call /\ Running(fresh) \in Call /\ Idle \in Call
  <2>1. fresh \in Call
    BY CallTypes DEF Call, PageIsTyped, Flags
  <2> QED
    BY <2>1, CallTypes
<1> HIDE DEF fresh
<1>2. CASE BeginAttempt(c, fresh)
  BY <1>1, <1>2, AttemptTypes
<1>3. CASE /\ UNCHANGED <<conn, reloadTimer, reconnect>>
           /\ \/ calls' = [calls EXCEPT ![c] = Running(fresh)]
              \/ calls' = [calls EXCEPT ![c] = Idle]
  <2>1. calls' \in [Calls -> Call]
    BY <1>1, <1>3 DEF PageIsTyped
  <2> QED
    BY <1>3, <2>1 DEF PageIsTyped, Flags
<1> QED
  BY <1>2, <1>3 DEF ReopenIfClosed, fresh

(***************************************************************************)
(* Closing the connection keeps the types of what it touches.              *)
(***************************************************************************)
LEMMA CloseTypes ==
    ASSUME PageIsTyped, CloseConnection
    PROVE  /\ conn' \in {"closed", "opening", "open"}
           /\ recovery' \in BOOLEAN /\ monitored' \in BOOLEAN
           /\ reloadTimer' \in BOOLEAN
           /\ reconnect' \in {"steady", "recovering", "failed"}
           /\ calls' \in [Calls -> Call]
<1>1. \A c \in Calls : Torn(AttemptFailed(calls[c])) \in Call
  BY CallTypes DEF PageIsTyped
<1>2. calls' \in [Calls -> Call]
  BY <1>1 DEF CloseConnection
<1>3. reloadTimer' \in BOOLEAN
  BY Zenon DEF CloseConnection
<1> QED
  BY <1>2, <1>3 DEF CloseConnection, PageIsTyped

(***************************************************************************)
(* Every step of the page keeps its types.                                 *)
(***************************************************************************)
LEMMA PageStep ==
    ASSUME PageIsTyped, [Next]_vars
    PROVE  PageIsTyped'
<1>0. /\ recovery \in BOOLEAN /\ loop \in BOOLEAN /\ blocked \in BOOLEAN
      /\ monitored \in BOOLEAN /\ everReady \in BOOLEAN /\ reloadTimer \in BOOLEAN
  BY DEF PageIsTyped, Flags
<1>1. ASSUME NEW c \in Calls, NEW second \in BOOLEAN, ReopenIfClosed(c, second),
             UNCHANGED <<recovery, loop, blocked, monitored, everReady, leaving>>
      PROVE  PageIsTyped'
  BY <1>0, <1>1, ReopenTypes DEF PageIsTyped, Flags
<1>2. ASSUME NEW c \in Calls, NEW op \in Call, calls' = [calls EXCEPT ![c] = op],
             UNCHANGED <<conn, recovery, loop, blocked, monitored, everReady,
                         reloadTimer, reconnect, leaving>>
      PROVE  PageIsTyped'
  BY <1>0, <1>2 DEF PageIsTyped, Flags
<1>3. ASSUME NEW c \in Calls, Start(c) PROVE PageIsTyped'
  <2>1. CASE Healthy
    BY <1>2, <1>3, <2>1, CallTypes DEF Start
  <2>2. CASE ~Healthy
    BY <1>1, <1>3, <2>2 DEF Start
  <2> QED
    BY <2>1, <2>2
<1>4. ASSUME NEW c \in Calls, BackoffEnds(c) PROVE PageIsTyped'
  <2>1. calls[c] \in Call
    BY DEF PageIsTyped
  <2> QED
    BY <1>0, <1>4, <2>1, AttemptTypes DEF BackoffEnds, PageIsTyped, Flags
<1>5. ASSUME NEW c \in Calls, OperationEnds(c) PROVE PageIsTyped'
  BY <1>2, <1>5, CallTypes DEF OperationEnds, flags, timers
<1>6. ASSUME NEW c \in Calls, OperationFindsClosed(c) PROVE PageIsTyped'
  <2>1. CASE calls[c].second
    BY <1>2, <1>6, <2>1, CallTypes DEF OperationFindsClosed
  <2>2. CASE ~calls[c].second
    BY <1>1, <1>6, <2>2 DEF OperationFindsClosed
  <2> QED
    BY <2>1, <2>2
<1>7. CASE OpenSucceeds
  <2>1. calls' \in [Calls -> Call] /\ reconnect' \in {"steady", "recovering", "failed"}
    <3>1. \A c \in Calls : calls[c] \in Call /\ Running(calls[c]) \in Call
      BY CallTypes DEF PageIsTyped
    <3> QED
      BY <1>7, <3>1 DEF OpenSucceeds, CallersGoOn, PageIsTyped
  <2>2. recovery' \in BOOLEAN /\ reloadTimer' \in BOOLEAN
    BY <1>7, Zenon DEF OpenSucceeds, RecoveryIsOver
  <2>3. blocked' \in BOOLEAN /\ loop' \in BOOLEAN
    BY <1>0, <1>7 DEF OpenSucceeds, DatabaseReady
  <2> QED
    BY <1>7, <2>1, <2>2, <2>3 DEF OpenSucceeds, PageIsTyped, Flags
<1>8. CASE OpenFails
  <2>1. calls' \in [Calls -> Call]
    <3>1. \A c \in Calls : AttemptFailed(calls[c]) \in Call
      BY CallTypes DEF PageIsTyped
    <3> QED
      BY <1>8, <3>1 DEF OpenFails
  <2>2. recovery' \in BOOLEAN /\ reloadTimer' \in BOOLEAN
    BY <1>8, Zenon DEF OpenFails
  <2>3. reconnect' \in {"steady", "recovering", "failed"}
    BY <1>8 DEF OpenFails, PageIsTyped
  <2> QED
    BY <1>0, <1>8, <2>1, <2>2, <2>3 DEF OpenFails, PageIsTyped, Flags
<1>9. CASE ConnectionDrops
  <2>1. calls' \in [Calls -> Call]
    <3>1. \A c \in Calls : Torn(calls[c]) \in Call
      BY CallTypes DEF PageIsTyped
    <3> QED
      BY <1>9, <3>1 DEF ConnectionDrops
  <2> QED
    BY <1>0, <1>9, <2>1 DEF ConnectionDrops, timers, PageIsTyped, Flags
<1>10. CASE VersionChangeReloads \/ VersionChangeHeldBack \/ ServiceWorkerHandoff
  <2>1. /\ CloseConnection /\ loop' \in BOOLEAN /\ UNCHANGED <<blocked, everReady>>
        /\ leaving' \subseteq leaving \cup {"schema", "handoff"}
    BY <1>10 DEF VersionChangeReloads, VersionChangeHeldBack, HeldBack,
       ServiceWorkerHandoff
  <2>2. leaving' \subseteq {"recovery", "schema", "retry", "handoff"}
    BY <2>1 DEF PageIsTyped
  <2> QED
    BY <1>0, <2>1, <2>2, CloseTypes DEF PageIsTyped, Flags
<1>11. CASE UpgradeBlocked
  BY <1>0, <1>11 DEF UpgradeBlocked, timers, PageIsTyped, Flags
<1>12. CASE RecoveryReload \/ SchemaReloadRetry
  <2>1. /\ UNCHANGED <<conn, recovery, loop, blocked, monitored, everReady,
                       reconnect, calls>>
        /\ reloadTimer' \in BOOLEAN
        /\ leaving' \subseteq leaving \cup {"recovery", "retry"}
    BY <1>0, <1>12 DEF RecoveryReload, SchemaReloadRetry, flags
  <2> QED
    BY <1>0, <2>1 DEF PageIsTyped, Flags
<1>13. CASE Unload
  BY <1>13, CallTypes DEF Unload, FreshPage, PageIsTyped, Flags
<1>14. CASE Tick
  BY <1>0, <1>14 DEF Tick, flags, PageIsTyped, Flags
<1>15. CASE UNCHANGED vars
  BY <1>0, <1>15 DEF vars, PageIsTyped, Flags
<1> QED
  BY <1>3, <1>4, <1>5, <1>6, <1>7, <1>8, <1>9, <1>10, <1>11, <1>12, <1>13,
     <1>14, <1>15 DEF Next

(***************************************************************************)
(* The types of the page, for every number of attempts and every length of *)
(* the guard window: no operation makes more attempts than it may.         *)
(***************************************************************************)
THEOREM TypeCorrect == Spec => []TypeOK
<1>1. Init => PageIsTyped
  BY CallTypes DEF Init, PageIsTyped, Flags
<1>2. PageIsTyped /\ [Next]_vars => PageIsTyped'
  BY PageStep
<1>3. PageIsTyped /\ TimerInv => TypeOK
  BY DEF PageIsTyped, Flags, TimerInv, TimersAreTyped, TypeOK
<1> QED
  BY <1>1, <1>2, <1>3, TimerInvHolds, PTL DEF Spec

-------------------------------------------------------------------------------
(* What a call knows of the handle.                                        *)

(***************************************************************************)
(* A call that awaits an open, or runs undisturbed, and the shared handle. *)
(***************************************************************************)
Knows(op, handle) ==
    /\ op.at = "opening" => handle = "opening"
    /\ op.at = "running" /\ ~op.torn => handle = "open"

(***************************************************************************)
(* No call waits for an open that nobody makes, and none runs on a handle  *)
(* that was closed without being cut off, although every caller may close  *)
(* and reopen the one handle they share (reopenIfClosed,                   *)
(* closeDatabaseConnection).                                               *)
(***************************************************************************)
CallersKnowTheHandle == \A c \in Calls : Knows(calls[c], conn)

(***************************************************************************)
(* How a call keeps up with the handle when that opens, fails or closes.   *)
(***************************************************************************)
LEMMA KnowledgeFacts ==
    ASSUME NEW op \in Call
    PROVE  /\ \A handle : Knows(Idle, handle)
           /\ Knows(Running(op), "open")
           /\ Knows([op EXCEPT !.at = "opening"], "opening")
           /\ Knows(op, "open") => Knows(Torn(op), "opening")
           /\ Knows(op, "open") => Knows(Torn(op), "closed")
           /\ Knows(op, "closed") => Knows(op, "opening")
           /\ Knows(op, "opening") => Knows(AttemptFailed(op), "closed")
           /\ Knows(Torn(AttemptFailed(op)), "closed")
<1>1. /\ \A handle : Knows(Idle, handle)
      /\ Knows(op, "closed") => Knows(op, "opening")
  BY DEF Idle, Knows
<1>2. /\ Knows(Running(op), "open")
      /\ Knows([op EXCEPT !.at = "opening"], "opening")
  BY DEF Running, Knows, Call
<1>3. /\ Knows(op, "open") => Knows(Torn(op), "opening")
      /\ Knows(op, "open") => Knows(Torn(op), "closed")
  BY DEF Torn, Knows, Call
<1>4. AttemptFailed(op).at # "opening"
  BY DEF AttemptFailed, Idle, Call
<1>5. op.at # "running" => AttemptFailed(op).at # "running"
  BY DEF AttemptFailed, Idle, Call
<1>6. op.at = "running" => AttemptFailed(op) = op
  BY DEF AttemptFailed
<1>7. Knows(op, "opening") => Knows(AttemptFailed(op), "closed")
  BY <1>4, <1>5, <1>6 DEF Knows
<1>8. Knows(Torn(AttemptFailed(op)), "closed")
  <2>1. CASE op.at = "running"
    BY <1>6, <2>1 DEF Torn, Knows, Call
  <2>2. CASE op.at # "running"
    BY <1>4, <1>5, <2>2 DEF Torn, Knows
  <2> QED
    BY <2>1, <2>2
<1> QED
  BY <1>1, <1>2, <1>3, <1>7, <1>8

(***************************************************************************)
(* A pass of the reopening loop: the call that makes it either runs on the *)
(* working handle or opens it, and the others lose a handle that was open. *)
(***************************************************************************)
LEMMA AttemptKnows ==
    ASSUME TypeOK, CallersKnowTheHandle, NEW c \in Calls, NEW state \in Call,
           BeginAttempt(c, state)
    PROVE  CallersKnowTheHandle'
<1>1. calls \in [Calls -> Call] /\ conn \in {"closed", "opening", "open"}
  BY DEF TypeOK
<1>2. CASE Healthy
  BY <1>1, <1>2, KnowledgeFacts DEF BeginAttempt, Healthy, CallersKnowTheHandle
<1>3. CASE ~Healthy
  <2>1. SUFFICES ASSUME NEW d \in Calls PROVE Knows(calls'[d], conn')
    BY DEF CallersKnowTheHandle
  <2>2. /\ conn' = "opening"
        /\ calls'[d] = IF d = c THEN [state EXCEPT !.at = "opening"]
                       ELSE IF conn = "open" THEN Torn(calls[d]) ELSE calls[d]
    BY <1>3 DEF BeginAttempt
  <2>3. calls[d] \in Call /\ Knows(calls[d], conn)
    BY <1>1 DEF CallersKnowTheHandle
  <2> QED
    BY <1>1, <2>2, <2>3, KnowledgeFacts
<1> QED
  BY <1>2, <1>3

(***************************************************************************)
(* The same of a call that reopens the handle if it has to.                *)
(***************************************************************************)
LEMMA ReopenKnows ==
    ASSUME TypeOK, CallersKnowTheHandle, NEW c \in Calls, NEW second \in BOOLEAN,
           ReopenIfClosed(c, second)
    PROVE  CallersKnowTheHandle'
<1> DEFINE fresh == [Idle EXCEPT !.recovering = recovery, !.second = second]
<1>1. fresh \in Call
  BY CallTypes DEF Call, TypeOK
<1> HIDE DEF fresh
<1>2. CASE Unavailable
  BY <1>2, KnowledgeFacts, CallTypes
     DEF ReopenIfClosed, TypeOK, CallersKnowTheHandle
<1>3. CASE ~Unavailable /\ Healthy
  <2>1. UNCHANGED conn /\ calls' = [calls EXCEPT ![c] = Running(fresh)]
    BY <1>3 DEF ReopenIfClosed, fresh
  <2> QED
    BY <1>1, <1>3, <2>1, KnowledgeFacts DEF Healthy, TypeOK, CallersKnowTheHandle
<1>4. CASE ~Unavailable /\ ~Healthy
  <2>1. BeginAttempt(c, fresh)
    BY <1>4 DEF ReopenIfClosed, fresh
  <2> QED
    BY <1>1, <2>1, AttemptKnows
<1> QED
  BY <1>2, <1>3, <1>4

(***************************************************************************)
(* Every step of the page keeps what the calls know of the handle.         *)
(***************************************************************************)
LEMMA KnowledgeStep ==
    ASSUME TypeOK, CallersKnowTheHandle, [Next]_vars
    PROVE  CallersKnowTheHandle'
<1>0. /\ calls \in [Calls -> Call] /\ conn \in {"closed", "opening", "open"}
      /\ \A c \in Calls : calls[c] \in Call /\ Knows(calls[c], conn)
  BY DEF TypeOK, CallersKnowTheHandle
<1>1. CASE UNCHANGED <<conn, calls>>
  BY <1>1 DEF CallersKnowTheHandle
<1>2. ASSUME NEW c \in Calls, UNCHANGED conn, calls' = [calls EXCEPT ![c] = Idle]
      PROVE  CallersKnowTheHandle'
  BY <1>0, <1>2, KnowledgeFacts DEF CallersKnowTheHandle
<1>3. ASSUME NEW c \in Calls, Start(c) PROVE CallersKnowTheHandle'
  <2>1. CASE Healthy
    BY <1>0, <1>3, <2>1, KnowledgeFacts, CallTypes
       DEF Start, Healthy, CallersKnowTheHandle
  <2>2. CASE ~Healthy
    BY <1>3, <2>2, ReopenKnows DEF Start
  <2> QED
    BY <2>1, <2>2
<1>4. ASSUME NEW c \in Calls, BackoffEnds(c) PROVE CallersKnowTheHandle'
  BY <1>0, <1>4, AttemptKnows DEF BackoffEnds
<1>5. ASSUME NEW c \in Calls, OperationEnds(c) PROVE CallersKnowTheHandle'
  BY <1>2, <1>5 DEF OperationEnds
<1>6. ASSUME NEW c \in Calls, OperationFindsClosed(c) PROVE CallersKnowTheHandle'
  BY <1>2, <1>6, ReopenKnows DEF OperationFindsClosed
<1>7. CASE OpenSucceeds
  <2>1. SUFFICES ASSUME NEW c \in Calls PROVE Knows(calls'[c], conn')
    BY DEF CallersKnowTheHandle
  <2>2. /\ conn = "opening" /\ conn' = "open"
        /\ calls'[c] = IF c \in Awaiting THEN Running(calls[c]) ELSE calls[c]
    BY <1>7 DEF OpenSucceeds, CallersGoOn
  <2>3. CASE c \in Awaiting
    BY <1>0, <2>2, <2>3, KnowledgeFacts
  <2>4. CASE c \notin Awaiting
    BY <1>0, <2>2, <2>4 DEF Awaiting, Knows
  <2> QED
    BY <2>3, <2>4
<1>8. CASE OpenFails
  BY <1>0, <1>8, KnowledgeFacts DEF OpenFails, CallersKnowTheHandle
<1>9. CASE ConnectionDrops
  BY <1>0, <1>9, KnowledgeFacts DEF ConnectionDrops, CallersKnowTheHandle
<1>10. CASE VersionChangeReloads \/ VersionChangeHeldBack \/ ServiceWorkerHandoff
  <2>1. CloseConnection
    BY <1>10 DEF VersionChangeReloads, VersionChangeHeldBack, ServiceWorkerHandoff
  <2> QED
    BY <1>0, <2>1, KnowledgeFacts DEF CloseConnection, CallersKnowTheHandle
<1>11. CASE Unload
  BY <1>0, <1>11, KnowledgeFacts DEF Unload, FreshPage, CallersKnowTheHandle
<1>12. CASE \/ UpgradeBlocked \/ RecoveryReload \/ SchemaReloadRetry \/ Tick
            \/ UNCHANGED vars
  BY <1>1, <1>12 DEF UpgradeBlocked, RecoveryReload, SchemaReloadRetry, Tick, vars
<1> QED
  BY <1>3, <1>4, <1>5, <1>6, <1>7, <1>8, <1>9, <1>10, <1>11, <1>12 DEF Next

(***************************************************************************)
(* No call waits for an open that nobody makes, and no call runs unnoticed *)
(* on a handle that another call, a drop or an event has closed.           *)
(***************************************************************************)
THEOREM HandleIsKnown == Spec => []CallersKnowTheHandle
<1>1. Init => CallersKnowTheHandle
  <2>1. Knows(Idle, "opening")
    BY CallTypes, KnowledgeFacts
  <2> QED
    BY <2>1 DEF Init, CallersKnowTheHandle
<1>2. TypeOK /\ CallersKnowTheHandle /\ [Next]_vars => CallersKnowTheHandle'
  BY KnowledgeStep
<1> QED
  BY <1>1, <1>2, TypeCorrect, PTL DEF Spec

-------------------------------------------------------------------------------
(* Calls are bounded.                                                      *)

(***************************************************************************)
(* The steps a call may still make: an attempt and its pause for every     *)
(* attempt that is left, the operation, its discovery that the handle is   *)
(* gone, and the same once more for the repeated operation.                *)
(***************************************************************************)
StepsLeft(op) ==
    IF op.at = "idle" THEN 0
    ELSE (IF op.second THEN 0 ELSE 2 * MaxAttempts + 1)
         + (CASE op.at = "running" -> IF op.torn THEN 1 ELSE 2
              [] op.at = "opening" -> 2 * (MaxAttempts - op.attempt) + 1
              [] op.at = "backoff" -> 2 * (MaxAttempts - op.attempt) + 2)

(***************************************************************************)
(* Whatever happens to a call in progress, by its own doing or because     *)
(* another one, a drop or an event closes the handle under it, brings it   *)
(* nearer to its end: calls cannot keep each other from ending by closing  *)
(* the handle in turn.  Fairness then ends every call (CallsEnd).          *)
(***************************************************************************)
CallsOnlyShorten ==
    [][\A c \in Calls : calls[c].at # "idle" /\ calls'[c] # calls[c]
           => StepsLeft(calls'[c]) < StepsLeft(calls[c])]_vars

(***************************************************************************)
(* The measure at each place of a call.                                    *)
(***************************************************************************)
LEMMA Measure ==
    ASSUME NEW op \in Call, op.at # "idle"
    PROVE  /\ StepsLeft(op) \in Nat \ {0} /\ MaxAttempts \in Nat
           /\ op.attempt \in 0..(MaxAttempts - 1)
           /\ LET base == IF op.second THEN 0 ELSE 2 * MaxAttempts + 1
              IN  /\ op.at = "running" /\ op.torn => StepsLeft(op) = base + 1
                  /\ op.at = "running" /\ ~op.torn => StepsLeft(op) = base + 2
                  /\ op.at = "opening" =>
                         StepsLeft(op) = base + 2 * (MaxAttempts - op.attempt) + 1
                  /\ op.at = "backoff" =>
                         StepsLeft(op) = base + 2 * (MaxAttempts - op.attempt) + 2
<1>1. /\ op.at \in {"opening", "backoff", "running"} /\ op.torn \in BOOLEAN
      /\ op.second \in BOOLEAN /\ op.attempt \in 0..(MaxAttempts - 1)
  BY DEF Call
<1>2. MaxAttempts \in Nat /\ MaxAttempts - op.attempt \in Nat
  BY <1>1, AttemptAssumption
<1> DEFINE base == IF op.second THEN 0 ELSE 2 * MaxAttempts + 1
<1>3. base \in Nat
  BY <1>2
<1>4. CASE op.at = "running"
  <2>1. StepsLeft(op) = base + (IF op.torn THEN 1 ELSE 2)
    BY <1>4 DEF StepsLeft
  <2> QED
    BY <1>1, <1>2, <1>3, <1>4, <2>1
<1>5. CASE op.at = "opening"
  <2>1. StepsLeft(op) = base + (2 * (MaxAttempts - op.attempt) + 1)
    BY <1>5 DEF StepsLeft
  <2> QED
    BY <1>1, <1>2, <1>3, <1>5, <2>1
<1>6. CASE op.at = "backoff"
  <2>1. StepsLeft(op) = base + (2 * (MaxAttempts - op.attempt) + 2)
    BY <1>6 DEF StepsLeft
  <2> QED
    BY <1>1, <1>2, <1>3, <1>6, <2>1
<1> QED
  BY <1>1, <1>4, <1>5, <1>6

(***************************************************************************)
(* What happens to a call in progress shortens it.                         *)
(***************************************************************************)
LEMMA ShorterCalls ==
    ASSUME NEW op \in Call, op.at # "idle"
    PROVE  /\ StepsLeft(Idle) < StepsLeft(op)
           /\ op.at # "running" => StepsLeft(Running(op)) < StepsLeft(op)
           /\ op.at = "backoff" =>
                  StepsLeft([op EXCEPT !.at = "opening"]) < StepsLeft(op)
           /\ Torn(op) # op => StepsLeft(Torn(op)) < StepsLeft(op)
           /\ AttemptFailed(op) # op => StepsLeft(AttemptFailed(op)) < StepsLeft(op)
           /\ Torn(AttemptFailed(op)) # op =>
                  StepsLeft(Torn(AttemptFailed(op))) < StepsLeft(op)
<1> DEFINE base == IF op.second THEN 0 ELSE 2 * MaxAttempts + 1
<1>0. /\ op.at \in {"opening", "backoff", "running"} /\ op.torn \in BOOLEAN
      /\ MaxAttempts \in Nat /\ base \in Nat /\ op.attempt \in 0..(MaxAttempts - 1)
  BY AttemptAssumption DEF Call
<1>1. StepsLeft(Idle) < StepsLeft(op)
  <2>1. StepsLeft(Idle) = 0
    BY DEF StepsLeft, Idle
  <2> QED
    BY <2>1, Measure
<1>2. ASSUME op.at # "running" PROVE StepsLeft(Running(op)) < StepsLeft(op)
  <2>1. /\ Running(op) \in Call /\ Running(op).at = "running"
        /\ ~Running(op).torn /\ Running(op).second = op.second
    BY CallTypes DEF Running, Call
  <2>2. StepsLeft(Running(op)) = base + 2
    BY <2>1, Measure
  <2> QED
    BY <1>0, <1>2, <2>2, Measure
<1>3. ASSUME op.at = "backoff"
      PROVE  StepsLeft([op EXCEPT !.at = "opening"]) < StepsLeft(op)
  <2> DEFINE new == [op EXCEPT !.at = "opening"]
  <2>1. /\ new \in Call /\ new.at = "opening" /\ new.attempt = op.attempt
        /\ new.second = op.second
    BY DEF Call
  <2> HIDE DEF new
  <2>2. StepsLeft(new) = base + 2 * (MaxAttempts - op.attempt) + 1
    BY <2>1, Measure
  <2>3. StepsLeft(new) < StepsLeft(op)
    BY <1>0, <1>3, <2>2, Measure
  <2> QED
    BY <2>3 DEF new
<1>4. ASSUME Torn(op) # op PROVE StepsLeft(Torn(op)) < StepsLeft(op)
  <2>1. op.at = "running" /\ ~op.torn
    BY <1>4 DEF Torn, Call
  <2>2. /\ Torn(op) \in Call /\ Torn(op).at = "running"
        /\ Torn(op).torn /\ Torn(op).second = op.second
    BY <2>1, CallTypes DEF Torn, Call
  <2>3. StepsLeft(Torn(op)) = base + 1
    BY <2>2, Measure
  <2> QED
    BY <1>0, <2>1, <2>3, Measure
<1>5. ASSUME AttemptFailed(op) # op
      PROVE  /\ StepsLeft(AttemptFailed(op)) < StepsLeft(op)
             /\ AttemptFailed(op).at # "running"
  <2>1. op.at = "opening"
    BY <1>5 DEF AttemptFailed
  <2>2. CASE LastAttempt(op)
    BY <1>1, <2>1, <2>2 DEF AttemptFailed, Idle
  <2>3. CASE ~LastAttempt(op)
    <3> DEFINE new == AttemptFailed(op)
    <3>1. new = [op EXCEPT !.at = "backoff", !.attempt = @ + 1]
      BY <2>1, <2>3 DEF AttemptFailed
    <3>2. /\ new \in Call /\ new.at = "backoff" /\ new.second = op.second
          /\ new.attempt = op.attempt + 1
      BY <3>1, CallTypes DEF Call
    <3> HIDE DEF new
    <3>3. StepsLeft(new) = base + 2 * (MaxAttempts - new.attempt) + 2
      BY <3>2, Measure
    <3>4. StepsLeft(op) = base + 2 * (MaxAttempts - op.attempt) + 1
      BY <2>1, Measure
    <3>5. StepsLeft(new) < StepsLeft(op)
      BY <1>0, <3>2, <3>3, <3>4
    <3> QED
      BY <3>2, <3>5 DEF new
  <2> QED
    BY <2>2, <2>3
<1>6. ASSUME Torn(AttemptFailed(op)) # op
      PROVE  StepsLeft(Torn(AttemptFailed(op))) < StepsLeft(op)
  <2>1. CASE AttemptFailed(op) = op
    BY <1>4, <1>6, <2>1
  <2>2. CASE AttemptFailed(op) # op
    BY <1>5, <2>2 DEF Torn
  <2> QED
    BY <2>1, <2>2
<1> QED
  BY <1>1, <1>2, <1>3, <1>4, <1>5, <1>6

(***************************************************************************)
(* An operation that found its handle closed has less to do in its second  *)
(* run than it could have had left in its first.                           *)
(***************************************************************************)
LEMMA SecondRunIsShorter ==
    ASSUME NEW op \in Call, op.at = "running", ~op.second,
           NEW fresh \in Call, fresh.second, fresh.attempt = 0
    PROVE  /\ StepsLeft(Running(fresh)) < StepsLeft(op)
           /\ StepsLeft([fresh EXCEPT !.at = "opening"]) < StepsLeft(op)
<1>1. /\ StepsLeft(op) \in Nat /\ StepsLeft(op) > 2 * MaxAttempts + 1
      /\ MaxAttempts \in Nat \ {0}
  BY AttemptAssumption, Measure DEF Call
<1>2. StepsLeft(Running(fresh)) = 2
  <2>1. /\ Running(fresh) \in Call /\ Running(fresh).at = "running"
        /\ ~Running(fresh).torn /\ Running(fresh).second
    BY CallTypes DEF Running, Call
  <2> QED
    BY <2>1, Measure
<1>3. StepsLeft([fresh EXCEPT !.at = "opening"]) = 2 * MaxAttempts + 1
  <2> DEFINE new == [fresh EXCEPT !.at = "opening"]
  <2>1. /\ new \in Call /\ new.at = "opening" /\ new.attempt = 0 /\ new.second
    BY DEF Call
  <2> HIDE DEF new
  <2>2. StepsLeft(new) = 2 * MaxAttempts + 1
    BY <1>1, <2>1, Measure
  <2> QED
    BY <2>2 DEF new
<1> QED
  BY <1>1, <1>2, <1>3

(***************************************************************************)
(* One step of the page shortens the calls in progress that it changes.    *)
(***************************************************************************)
Shortens(op, new) ==
    op.at # "idle" /\ new # op => StepsLeft(new) < StepsLeft(op)

(***************************************************************************)
(* Every step that touches a call in progress shortens it.                 *)
(***************************************************************************)
LEMMA ShorteningStep ==
    ASSUME TypeOK, [Next]_vars, NEW d \in Calls
    PROVE  Shortens(calls[d], calls'[d])
<1>0. calls \in [Calls -> Call] /\ calls[d] \in Call
  BY DEF TypeOK
<1>1. CASE UNCHANGED calls
  BY <1>1 DEF Shortens
<1>2. ASSUME NEW c \in Calls, calls' = [calls EXCEPT ![c] = Idle]
      PROVE  Shortens(calls[d], calls'[d])
  BY <1>0, <1>2, ShorterCalls DEF Shortens
<1>3. ASSUME NEW c \in Calls, NEW state, c # d,
             BeginAttempt(c, state)
      PROVE  Shortens(calls[d], calls'[d])
  <2>1. calls'[d] \in {calls[d], Torn(calls[d])}
    BY <1>0, <1>3 DEF BeginAttempt
  <2> QED
    BY <1>0, <2>1, ShorterCalls DEF Shortens
<1>4. ASSUME NEW c \in Calls, NEW second \in BOOLEAN, c # d,
             ReopenIfClosed(c, second)
      PROVE  Shortens(calls[d], calls'[d])
  <2>1. \/ \E new : calls' = [calls EXCEPT ![c] = new]
        \/ BeginAttempt(c, [Idle EXCEPT !.recovering = recovery,
                                        !.second = second])
    BY <1>4 DEF ReopenIfClosed
  <2> QED
    BY <1>0, <1>3, <1>4, <2>1 DEF Shortens
<1>5. ASSUME NEW c \in Calls, Start(c) PROVE Shortens(calls[d], calls'[d])
  <2>1. CASE c = d
    BY <1>5, <2>1 DEF Start, Shortens
  <2>2. CASE c # d /\ Healthy
    BY <1>0, <1>5, <2>2 DEF Start, Shortens
  <2>3. CASE c # d /\ ~Healthy
    BY <1>4, <1>5, <2>3 DEF Start
  <2> QED
    BY <2>1, <2>2, <2>3
<1>6. ASSUME NEW c \in Calls, BackoffEnds(c) PROVE Shortens(calls[d], calls'[d])
  <2>1. BeginAttempt(c, calls[c]) /\ calls[c].at = "backoff"
    BY <1>6 DEF BackoffEnds
  <2>2. CASE c = d
    <3>1. calls'[d] \in {Running(calls[d]), [calls[d] EXCEPT !.at = "opening"]}
      BY <1>0, <2>1, <2>2 DEF BeginAttempt
    <3> QED
      BY <1>0, <2>1, <2>2, <3>1, ShorterCalls DEF Shortens
  <2> QED
    BY <1>3, <2>1, <2>2
<1>7. ASSUME NEW c \in Calls, OperationFindsClosed(c)
      PROVE  Shortens(calls[d], calls'[d])
  <2>1. CASE calls[c].second
    BY <1>2, <1>7, <2>1 DEF OperationFindsClosed
  <2>2. CASE ~calls[c].second /\ c # d
    BY <1>4, <1>7, <2>2 DEF OperationFindsClosed
  <2>3. CASE ~calls[c].second /\ c = d
    <3> DEFINE fresh == [Idle EXCEPT !.recovering = recovery, !.second = TRUE]
    <3>1. fresh \in Call /\ fresh.second /\ fresh.attempt = 0
      BY CallTypes DEF Call, TypeOK, Idle
    <3> HIDE DEF fresh
    <3>2. calls[d].at = "running" /\ ReopenIfClosed(d, TRUE)
      BY <1>7, <2>3 DEF OperationFindsClosed
    <3>3. calls'[d] \in {Idle, Running(fresh), [fresh EXCEPT !.at = "opening"]}
      BY <1>0, <3>2 DEF ReopenIfClosed, BeginAttempt, fresh
    <3> QED
      BY <1>0, <2>3, <3>1, <3>2, <3>3, ShorterCalls, SecondRunIsShorter
         DEF Shortens
  <2> QED
    BY <2>1, <2>2, <2>3
<1>8. CASE OpenSucceeds
  <2>1. \/ calls'[d] = calls[d]
        \/ calls[d].at = "opening" /\ calls'[d] = Running(calls[d])
    BY <1>8 DEF OpenSucceeds, CallersGoOn, Awaiting
  <2> QED
    BY <1>0, <2>1, ShorterCalls DEF Shortens
<1>9. CASE \/ OpenFails \/ ConnectionDrops \/ VersionChangeReloads
           \/ VersionChangeHeldBack \/ ServiceWorkerHandoff
  <2>1. calls'[d] \in {AttemptFailed(calls[d]), Torn(calls[d]),
                       Torn(AttemptFailed(calls[d]))}
    BY <1>9 DEF OpenFails, ConnectionDrops, VersionChangeReloads,
       VersionChangeHeldBack, ServiceWorkerHandoff, CloseConnection
  <2> QED
    BY <1>0, <2>1, ShorterCalls DEF Shortens
<1>10. CASE Unload
  BY <1>0, <1>10, ShorterCalls DEF Unload, FreshPage, Shortens
<1>11. ASSUME NEW c \in Calls, OperationEnds(c)
       PROVE  Shortens(calls[d], calls'[d])
  BY <1>2, <1>11 DEF OperationEnds
<1>12. CASE \/ UpgradeBlocked \/ RecoveryReload \/ SchemaReloadRetry \/ Tick
            \/ UNCHANGED vars
  BY <1>1, <1>12 DEF UpgradeBlocked, RecoveryReload, SchemaReloadRetry, Tick, vars
<1> QED
  BY <1>5, <1>6, <1>7, <1>8, <1>9, <1>10, <1>11, <1>12 DEF Next

(***************************************************************************)
(* A call makes a bounded number of steps, whatever the others do: each    *)
(* step that touches it leaves it fewer.                                   *)
(***************************************************************************)
THEOREM CallsAreBounded == Spec => CallsOnlyShorten
<1>1. TypeOK /\ [Next]_vars =>
          \A c \in Calls : calls[c].at # "idle" /\ calls'[c] # calls[c]
              => StepsLeft(calls'[c]) < StepsLeft(calls[c])
  BY ShorteningStep DEF Shortens
<1> QED
  BY <1>1, TypeCorrect, PTL DEF Spec, CallsOnlyShorten
===============================================================================
