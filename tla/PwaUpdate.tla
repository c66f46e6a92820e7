------------------------------ MODULE PwaUpdate ------------------------------
(***************************************************************************)
(* The update handoff of usePwaUpdate.ts in the tabs of one origin: the    *)
(* waiting worker they share, the banner each shows, the channels on which *)
(* they tell each other of a handoff, the timers that end a handoff nobody *)
(* answers, and the loop breaker kept in the session storage of each tab.  *)
(*                                                                         *)
(* A revalidation of the registration is one step: its two awaits only     *)
(* delay it, and it may start at any time (focus, reconnect, interval).    *)
(* The module flag controllerReloadInFlight is `inFlight'.  The offline    *)
(* notice, the announcements and the e2e hooks are left out.               *)
(***************************************************************************)
EXTENDS Naturals, Sequences

CONSTANTS
    Tabs,            \* the tabs of the origin
    MaxVersion,      \* bound: worker builds that are ever installed
    MaxInbox,        \* bound: coordination messages under way to one tab
    MaxClicks,       \* bound: clicks of operators and tabs closed or opened
    MaxReloads,      \* CONTROLLER_RELOAD_MAX_AUTOMATIC_RELOADS
    SessionStorage   \* the browser lets the page write its session storage

ASSUME MaxVersionAssumption == MaxVersion \in Nat
ASSUME MaxReloadsAssumption == MaxReloads \in Nat \ {0}
ASSUME SessionStorageAssumption == SessionStorage \in BOOLEAN

VARIABLES
    worker,     \* the registration: version waiting (0: none), version active,
                \* and whether SKIP_WAITING was posted to the waiting one
    open,       \* the tab shows a page
    reloading,  \* a reload is due and the page still runs: asked for by the hook,
                \* which closed the database, and perhaps it is open again
                \* ("reopened"), or by the listener of the Workbox prompt
    registered, \* swRegistration is set
    prompted,   \* the last worker Workbox announced to the page (0: none)
    ui,         \* the React state of the hook
    timers,     \* which of the two timers of the hook are running
    inFlight,   \* controllerReloadInFlight
    dismissed,  \* dismissedWaitingWorkerRef (0: none)
    applyTask,  \* the resolution of the waiting worker of an apply is pending
    count,      \* automatic reloads recorded in session storage, 0 when stale
    guard,      \* the schema reload guard of appDb.ts is fresh
    coord,      \* coordination messages under way to each tab, in order
    recover,    \* a recovery-clear message is under way to the tab
    change,     \* controllerchange events not handled yet
    clicks,     \* how often an operator acted, up to MaxClicks
    early,      \* history: the handoff shown began before registration
    handed      \* history: automatic handoffs since the record was cleared

pageVars == <<registered, prompted, dismissed, applyTask>>
vars == <<worker, open, reloading, registered, prompted, ui, timers, inFlight,
          dismissed, applyTask, count, guard, coord, recover, change, clicks,
          early, handed>>

Messages == {"started", "stalled", "cleared"}
Versions == 0..MaxVersion
Reloads == {"none", "hook", "reopened", "prompt"}
Ui == [needRefresh : BOOLEAN, applying : BOOLEAN, stalled : BOOLEAN,
       progress : BOOLEAN, peerStalled : BOOLEAN, recovery : BOOLEAN]

\* The banner after clearBannerState, with the recovery flag cleared as well.
Blank == [needRefresh |-> FALSE, applying |-> FALSE, stalled |-> FALSE,
          progress |-> FALSE, peerStalled |-> FALSE, recovery |-> FALSE]
UpdateReady == [Blank EXCEPT !.needRefresh = TRUE]
PinnedRecovery == [UpdateReady EXCEPT !.recovery = TRUE]
\* Mutant: the banner keeps the state of its own handoff when another tab starts.
PinnedExternalBesideApply(stalled) ==
    [UpdateReady EXCEPT !.progress = ~stalled, !.peerStalled = stalled,
                        !.applying = TRUE]
\* Mutant: the handoff's state replaces the banner's.
PinnedExternalAlone(stalled) == [progress |-> ~stalled, peerStalled |-> stalled]
PinnedExternal(stalled) == [UpdateReady EXCEPT !.progress = ~stalled,
                                               !.peerStalled = stalled]
ClearExternal(u) == [u EXCEPT !.progress = FALSE, !.peerStalled = FALSE]

TypeOK ==
    /\ worker \in [waiting : Versions, active : Versions, skip : BOOLEAN]
    /\ open \in [Tabs -> BOOLEAN]
    /\ reloading \in [Tabs -> Reloads]
    /\ registered \in [Tabs -> BOOLEAN]
    /\ prompted \in [Tabs -> Versions]
    /\ ui \in [Tabs -> Ui]
    /\ timers \in [Tabs -> SUBSET {"update", "deadman"}]
    /\ inFlight \in [Tabs -> BOOLEAN]
    /\ dismissed \in [Tabs -> Versions]
    /\ applyTask \in [Tabs -> BOOLEAN]
    /\ count \in [Tabs -> 0..MaxReloads]
    /\ guard \in [Tabs -> BOOLEAN]
    /\ coord \in [Tabs -> Seq(Messages)]
    /\ recover \in [Tabs -> BOOLEAN]
    /\ change \in [Tabs -> Nat]
    /\ clicks \in Nat
    /\ early \in [Tabs -> BOOLEAN]
    /\ handed \in [Tabs -> Nat]

\* Initially every tab shows a page that has just loaded under worker 0.
Init ==
    /\ worker = [waiting |-> 0, active |-> 0, skip |-> FALSE]
    /\ open = [t \in Tabs |-> TRUE]
    /\ reloading = [t \in Tabs |-> "none"]
    /\ registered = [t \in Tabs |-> FALSE]
    /\ prompted = [t \in Tabs |-> 0]
    /\ ui = [t \in Tabs |-> Blank]
    /\ timers = [t \in Tabs |-> {}]
    /\ inFlight = [t \in Tabs |-> FALSE]
    /\ dismissed = [t \in Tabs |-> 0]
    /\ applyTask = [t \in Tabs |-> FALSE]
    /\ count = [t \in Tabs |-> 0]
    /\ guard = [t \in Tabs |-> FALSE]
    /\ coord = [t \in Tabs |-> <<>>]
    /\ recover = [t \in Tabs |-> FALSE]
    /\ change = [t \in Tabs |-> 0]
    /\ clicks = 0
    /\ early = [t \in Tabs |-> FALSE]
    /\ handed = [t \in Tabs |-> 0]

-----------------------------------------------------------------------------
(* What the banner offers.  The flags the hook returns let recovery and an   *)
(* external handoff mask the local ones.                                     *)

Mode(u) ==
    CASE u.recovery -> "reload-recovery"
      [] ~u.recovery /\ u.peerStalled -> "external-stalled"
      [] ~u.recovery /\ u.progress -> "external-applying"
      [] ~u.recovery /\ ~u.peerStalled /\ ~u.progress ->
           CASE u.needRefresh /\ u.stalled -> "stalled"
             [] u.needRefresh /\ ~u.stalled /\ u.applying -> "applying"
             [] u.needRefresh /\ ~u.stalled /\ ~u.applying -> "update-ready"
             [] ~u.needRefresh -> "hidden"

OffersApply(t) == open[t] /\ Mode(ui[t]) \in {"update-ready", "stalled"}
OffersReload(t) ==
    open[t] /\ Mode(ui[t]) \in {"stalled", "reload-recovery", "external-stalled"}
OffersDismiss(t) == open[t] /\ Mode(ui[t]) = "update-ready"

\* A post reaches the other tabs that are open; every tab filters its own.
Post(t, m) ==
    /\ \A u \in Tabs \ {t} : open[u] => Len(coord[u]) < MaxInbox
    /\ coord' = [u \in Tabs |-> IF u # t /\ open[u]
                                THEN Append(coord[u], m) ELSE coord[u]]

-----------------------------------------------------------------------------
(* The shared registration.                                                  *)

OneClick == clicks < MaxClicks /\ clicks' = clicks + 1

\* A newer build is installed and waits; an older waiting one is discarded.
\* Builds are numbered in the order they are found.
NewestVersion == IF worker.waiting # 0 THEN worker.waiting ELSE worker.active
UpdateInstalled ==
    /\ NewestVersion < MaxVersion
    /\ worker' = [worker EXCEPT !.waiting = NewestVersion + 1, !.skip = FALSE]
    /\ UNCHANGED <<clicks, open, reloading, pageVars, ui, timers, inFlight, count,
                   guard, coord, recover, change, early, handed>>

\* The waiting worker was told to skip waiting: it takes control of every page.
WorkerActivates ==
    /\ worker.waiting # 0 /\ worker.skip
    /\ worker' = [waiting |-> 0, active |-> worker.waiting, skip |-> FALSE]
    /\ change' = [t \in Tabs |-> IF open[t] THEN change[t] + 1 ELSE change[t]]
    /\ UNCHANGED <<clicks, open, reloading, pageVars, ui, timers, inFlight, count,
                   guard, coord, recover, early, handed>>

-----------------------------------------------------------------------------
(* Pages.                                                                    *)

\* A fresh page of tab t; n is the reload record it finds.
FreshPage(t, n) ==
    /\ reloading' = [reloading EXCEPT ![t] = "none"]
    /\ registered' = [registered EXCEPT ![t] = FALSE]
    /\ prompted' = [prompted EXCEPT ![t] = 0]
    /\ ui' = [ui EXCEPT ![t] = [Blank EXCEPT !.recovery = n >= MaxReloads]]
    /\ timers' = [timers EXCEPT ![t] = {}]
    /\ inFlight' = [inFlight EXCEPT ![t] = FALSE]
    /\ dismissed' = [dismissed EXCEPT ![t] = 0]
    /\ applyTask' = [applyTask EXCEPT ![t] = FALSE]
    /\ coord' = [coord EXCEPT ![t] = <<>>]
    /\ recover' = [recover EXCEPT ![t] = FALSE]
    /\ change' = [change EXCEPT ![t] = 0]
    /\ early' = [early EXCEPT ![t] = FALSE]

\* A requested reload happens; session storage survives it.
PageLoads(t) ==
    /\ open[t] /\ reloading[t] # "none"
    /\ FreshPage(t, count[t])
    /\ UNCHANGED <<clicks, worker, open, count, guard, handed>>

\* The tab is closed or dies, and its session storage with it.
TabCloses(t) ==
    /\ open[t]
    /\ OneClick
    /\ open' = [open EXCEPT ![t] = FALSE]
    /\ count' = [count EXCEPT ![t] = 0]
    /\ guard' = [guard EXCEPT ![t] = FALSE]
    /\ handed' = [handed EXCEPT ![t] = 0]
    /\ FreshPage(t, 0)
    /\ UNCHANGED worker

TabOpens(t) ==
    /\ ~open[t]
    /\ OneClick
    /\ open' = [open EXCEPT ![t] = TRUE]
    /\ FreshPage(t, 0)
    /\ UNCHANGED <<worker, count, guard, handed>>

\* onRegisteredSW sets swRegistration.  revalidateRegistration then is a new
\* function, and the cleanup of the coordination effect, which depends on it,
\* clears the dead-man timer without touching what the banner shows.
Registered(t) ==
    /\ open[t] /\ ~registered[t]
    /\ registered' = [registered EXCEPT ![t] = TRUE]
    /\ timers' = [timers EXCEPT ![t] = @ \ {"deadman"}]
    /\ UNCHANGED <<clicks, worker, open, reloading, prompted, ui, inFlight, dismissed,
                   applyTask, count, guard, coord, recover, change, early, handed>>

\* Workbox announces a worker once: the page shows the prompt and listens for
\* the worker to take control.
ShowSkipWaitingPrompt(t) ==
    /\ open[t] /\ registered[t]
    /\ worker.waiting \notin {0, prompted[t]}
    /\ prompted' = [prompted EXCEPT ![t] = worker.waiting]
    /\ ui' = [ui EXCEPT ![t].needRefresh = TRUE]
    /\ UNCHANGED <<clicks, worker, open, reloading, registered, timers, inFlight,
                   dismissed, applyTask, count, guard, coord, recover, change,
                   early, handed>>

\* Mutant: a dismissed worker is passed over for good.
RevalidateOnce(t, force) ==
    /\ open[t] /\ registered[t]
    /\ worker.waiting \notin {0, dismissed[t]}
    /\ ui' = [ui EXCEPT ![t] = UpdateReady]
    /\ timers' = [timers EXCEPT ![t] = @ \ {"deadman"}]
    /\ UNCHANGED <<clicks, worker, open, reloading, pageVars, inFlight, count, guard,
                   coord, recover, change, early, handed>>

\* A forced revalidation (interval, dead-man timer, fresh registration) or one
\* on focus or reconnect finds the waiting worker; only the latter passes over
\* one the operator dismissed.
Revalidate(t, force) ==
    /\ open[t] /\ registered[t]
    /\ worker.waiting # 0
    /\ force \/ dismissed[t] # worker.waiting
    /\ dismissed' = [dismissed EXCEPT ![t] = 0]
    /\ ui' = [ui EXCEPT ![t] = UpdateReady]
    /\ timers' = [timers EXCEPT ![t] = @ \ {"deadman"}]
    /\ UNCHANGED <<clicks, worker, open, reloading, registered, prompted, inFlight,
                   applyTask, count, guard, coord, recover, change, early, handed>>

-----------------------------------------------------------------------------
(* The operator.                                                             *)

HandleApplyUpdate(t) ==
    /\ OffersApply(t)
    /\ OneClick
    /\ Post(t, "started")
    /\ ui' = [ui EXCEPT ![t] = [UpdateReady EXCEPT !.applying = TRUE]]
    /\ timers' = [timers EXCEPT ![t] = {"update"}]
    /\ inFlight' = [inFlight EXCEPT ![t] = FALSE]
    /\ dismissed' = [dismissed EXCEPT ![t] = 0]
    /\ applyTask' = [applyTask EXCEPT ![t] = TRUE]
    /\ UNCHANGED <<worker, open, reloading, registered, prompted, count, guard,
                   recover, change, early, handed>>

HandleDismissBanner(t) ==
    /\ OffersDismiss(t)
    /\ OneClick
    /\ dismissed' = [dismissed EXCEPT
          ![t] = IF registered[t] /\ worker.waiting # 0 THEN worker.waiting ELSE @]
    /\ ui' = [ui EXCEPT ![t] = Blank]
    /\ timers' = [timers EXCEPT ![t] = @ \ {"update"}]
    /\ UNCHANGED <<worker, open, reloading, registered, prompted, inFlight,
                   applyTask, count, guard, coord, recover, change, early, handed>>

\* Mutant: the database is closed without a stamp.
HandsOverUnstamped(t) ==
    /\ inFlight' = [inFlight EXCEPT ![t] = TRUE]
    /\ timers' = [timers EXCEPT ![t] = {}]
    /\ ui' = [ui EXCEPT ![t] = Blank]
    /\ reloading' = [reloading EXCEPT ![t] = "hook"]
    /\ UNCHANGED guard

\* closeDatabaseForServiceWorkerHandoff stamps the guard, if the browser lets it,
\* the banner goes and a reload is scheduled.
HandsOver(t) ==
    /\ inFlight' = [inFlight EXCEPT ![t] = TRUE]
    /\ timers' = [timers EXCEPT ![t] = {}]
    /\ ui' = [ui EXCEPT ![t] = Blank]
    /\ guard' = [guard EXCEPT ![t] = SessionStorage]
    /\ reloading' = [reloading EXCEPT ![t] = "hook"]

\* The recovery-clear message has no sender, so this page hears it as well.
HandleReloadPage(t) ==
    /\ OffersReload(t) /\ ~inFlight[t]
    /\ OneClick
    /\ Post(t, "cleared")
    /\ recover' = [u \in Tabs |-> recover[u] \/ open[u]]
    /\ dismissed' = [dismissed EXCEPT ![t] = 0]
    /\ count' = [count EXCEPT ![t] = 0]
    /\ handed' = [handed EXCEPT ![t] = 0]
    /\ HandsOver(t)
    /\ UNCHANGED <<worker, open, registered, prompted, applyTask, change, early>>

-----------------------------------------------------------------------------
(* The pending apply and the two timers.                                     *)

ApplyTaskEnds(t) ==
    /\ open[t] /\ applyTask[t]
    /\ applyTask' = [applyTask EXCEPT ![t] = FALSE]
    /\ UNCHANGED <<clicks, open, reloading, registered, prompted, inFlight, dismissed,
                   count, guard, recover, change, early, handed>>

SkipWaitingPosted(t) ==
    /\ ApplyTaskEnds(t)
    /\ worker.waiting # 0
    /\ worker' = [worker EXCEPT !.skip = TRUE]
    /\ UNCHANGED <<ui, timers, coord>>

NoWorkerToApply(t) ==
    /\ ApplyTaskEnds(t)
    /\ worker.waiting = 0
    /\ UNCHANGED <<worker, ui, timers, coord>>

Stalled(t) ==
    /\ Post(t, "stalled")
    /\ timers' = [timers EXCEPT ![t] = @ \ {"update"}]
    /\ ui' = [ui EXCEPT ![t].applying = FALSE, ![t].stalled = TRUE]

SkipWaitingThrows(t) ==
    /\ ApplyTaskEnds(t)
    /\ worker.waiting # 0
    /\ Stalled(t)
    /\ UNCHANGED worker

UpdateTimeout(t) ==
    /\ open[t] /\ "update" \in timers[t]
    /\ Stalled(t)
    /\ UNCHANGED <<clicks, worker, open, reloading, pageVars, inFlight, count, guard,
                   recover, change, early, handed>>

\* Mutant: the timer clears the banner only if there is something to offer.
DeadmanTimeoutIfWaiting(t) ==
    /\ open[t] /\ "deadman" \in timers[t]
    /\ timers' = [timers EXCEPT ![t] = @ \ {"deadman"}]
    /\ ui' = [ui EXCEPT ![t] = IF worker.waiting # 0 THEN ClearExternal(@) ELSE @]
    /\ UNCHANGED <<clicks, worker, open, reloading, pageVars, inFlight, count, guard,
                   coord, recover, change, early, handed>>

\* The forced revalidation this starts is Revalidate(t, TRUE).
DeadmanTimeout(t) ==
    /\ open[t] /\ "deadman" \in timers[t]
    /\ timers' = [timers EXCEPT ![t] = @ \ {"deadman"}]
    /\ ui' = [ui EXCEPT ![t] = ClearExternal(@)]
    /\ UNCHANGED <<clicks, worker, open, reloading, pageVars, inFlight, count, guard,
                   coord, recover, change, early, handed>>

-----------------------------------------------------------------------------
(* Messages of the other tabs.                                               *)

HearsCoordination(t) ==
    /\ open[t] /\ coord[t] # <<>>
    /\ coord' = [coord EXCEPT ![t] = Tail(@)]
    /\ inFlight' = [inFlight EXCEPT ![t] = FALSE]
    /\ UNCHANGED <<clicks, worker, open, reloading, pageVars, count, guard, recover,
                   change, handed>>

HearsStarted(t) ==
    /\ HearsCoordination(t)
    /\ Head(coord[t]) = "started"
    /\ ui' = [ui EXCEPT ![t] = PinnedExternal(FALSE)]
    /\ timers' = [timers EXCEPT ![t] = {"deadman"}]
    /\ early' = [early EXCEPT ![t] = ~registered[t]]

HearsStalled(t) ==
    /\ HearsCoordination(t)
    /\ Head(coord[t]) = "stalled"
    /\ ui' = [ui EXCEPT ![t] = PinnedExternal(TRUE)]
    /\ timers' = [timers EXCEPT ![t] = {}]
    /\ UNCHANGED early

HearsCleared(t) ==
    /\ HearsCoordination(t)
    /\ Head(coord[t]) = "cleared"
    /\ ui' = [ui EXCEPT ![t] = ClearExternal(@)]
    /\ timers' = [timers EXCEPT ![t] = {}]
    /\ UNCHANGED early

\* Mutant: a recovery-clear message stops both timers.
HearsRecoveryClearStopsAll(t) ==
    LET pinned == ui[t].recovery \/ ui[t].stalled \/ ui[t].peerStalled IN
    /\ open[t] /\ recover[t]
    /\ recover' = [recover EXCEPT ![t] = FALSE]
    /\ count' = [count EXCEPT ![t] = 0]
    /\ handed' = [handed EXCEPT ![t] = 0]
    /\ inFlight' = [inFlight EXCEPT ![t] = FALSE]
    /\ ui' = [ui EXCEPT ![t] = IF pinned THEN Blank ELSE @]
    /\ timers' = [timers EXCEPT ![t] = {}]
    /\ UNCHANGED <<clicks, worker, open, reloading, pageVars, guard, coord, change, early>>

HearsRecoveryClear(t) ==
    LET pinned == ui[t].recovery \/ ui[t].stalled \/ ui[t].peerStalled IN
    /\ open[t] /\ recover[t]
    /\ recover' = [recover EXCEPT ![t] = FALSE]
    /\ count' = [count EXCEPT ![t] = 0]
    /\ handed' = [handed EXCEPT ![t] = 0]
    /\ inFlight' = [inFlight EXCEPT ![t] = FALSE]
    /\ ui' = [ui EXCEPT ![t] = IF pinned THEN Blank ELSE @]
    /\ timers' = [timers EXCEPT ![t] = IF pinned THEN {} ELSE @ \ {"update"}]
    /\ UNCHANGED <<clicks, worker, open, reloading, pageVars, guard, coord, change, early>>

-----------------------------------------------------------------------------
(* controllerchange.  Once Workbox has announced a worker to the page, its   *)
(* own listener reloads the page at once, whatever the hook decides.         *)

ChangeHandled(t) ==
    /\ open[t] /\ change[t] > 0
    /\ change' = [change EXCEPT ![t] = @ - 1]
    /\ UNCHANGED <<clicks, worker, open, pageVars, recover, early>>

Suppressed(t) == inFlight[t] \/ ui[t].recovery \/ guard[t]

\* event.isUpdate: the page was controlled when it registered.
PromptReloads(t) ==
    reloading' = [reloading EXCEPT
        ![t] = IF prompted[t] # 0 /\ @ = "none" THEN "prompt" ELSE @]

ChangeSuppressed(t) ==
    /\ ChangeHandled(t)
    /\ Suppressed(t)
    /\ PromptReloads(t)
    /\ UNCHANGED <<ui, timers, inFlight, count, guard, coord, handed>>

\* Mutant: off by one.
LoopDetectedLate(t) == count[t] >= MaxReloads
LoopDetected(t) == count[t] + 1 >= MaxReloads

\* The record is full, or this attempt fills it: the tab stays and says so.
ChangePinsRecovery(t) ==
    /\ ChangeHandled(t)
    /\ ~Suppressed(t)
    /\ LoopDetected(t)
    /\ count' = [count EXCEPT ![t] = IF SessionStorage THEN MaxReloads ELSE @]
    /\ Post(t, "stalled")
    /\ inFlight' = [inFlight EXCEPT ![t] = FALSE]
    /\ ui' = [ui EXCEPT ![t] = PinnedRecovery]
    /\ timers' = [timers EXCEPT ![t] = {}]
    /\ PromptReloads(t)
    /\ UNCHANGED <<guard, handed>>

ChangeHandsOver(t) ==
    /\ ChangeHandled(t)
    /\ ~Suppressed(t)
    /\ ~LoopDetected(t)
    /\ count' = [count EXCEPT ![t] = IF SessionStorage THEN @ + 1 ELSE @]
    /\ handed' = [handed EXCEPT ![t] = @ + 1]
    /\ Post(t, "cleared")
    /\ HandsOver(t)

\* handleDatabaseReady takes the stamp back whenever the handle opens: the first
\* time in a page, after a drop, and for a write that finds it closed by a
\* handoff and reopens it before the page unloads.
DatabaseReady(t) ==
    /\ open[t] /\ guard[t]
    /\ guard' = [guard EXCEPT ![t] = FALSE]
    /\ reloading' = [reloading EXCEPT ![t] = IF @ = "hook" THEN "reopened" ELSE @]
    /\ UNCHANGED <<clicks, worker, open, pageVars, ui, timers, inFlight, count,
                   coord, recover, change, early, handed>>

\* Five seconds: a reload that is due after 50 ms happens first.
GuardExpires(t) ==
    /\ open[t] /\ guard[t] /\ reloading[t] = "none"
    /\ guard' = [guard EXCEPT ![t] = FALSE]
    /\ UNCHANGED <<clicks, worker, open, reloading, pageVars, ui, timers, inFlight, count,
                   coord, recover, change, early, handed>>

\* Fifteen seconds after the last recorded reload.
WindowExpires(t) ==
    /\ open[t] /\ count[t] > 0 /\ ~guard[t] /\ reloading[t] = "none"
    /\ count' = [count EXCEPT ![t] = 0]
    /\ handed' = [handed EXCEPT ![t] = 0]
    /\ UNCHANGED <<clicks, worker, open, reloading, pageVars, ui, timers, inFlight, guard,
                   coord, recover, change, early>>

-----------------------------------------------------------------------------
Hears(t) == HearsStarted(t) \/ HearsStalled(t) \/ HearsCleared(t)
            \/ HearsRecoveryClear(t)
ControllerChange(t) ==
    ChangeSuppressed(t) \/ ChangePinsRecovery(t) \/ ChangeHandsOver(t)
Expires(t) == GuardExpires(t) \/ WindowExpires(t)
Timeout(t) == UpdateTimeout(t) \/ DeadmanTimeout(t)
ApplyTask(t) == SkipWaitingPosted(t) \/ NoWorkerToApply(t) \/ SkipWaitingThrows(t)
Operator(t) == HandleApplyUpdate(t) \/ HandleDismissBanner(t) \/ HandleReloadPage(t)
Page(t) == PageLoads(t) \/ TabCloses(t) \/ TabOpens(t) \/ Registered(t)
           \/ ShowSkipWaitingPrompt(t) \/ \E force \in BOOLEAN : Revalidate(t, force)

Next ==
    \/ UpdateInstalled
    \/ WorkerActivates
    \/ \E t \in Tabs : \/ Page(t) \/ Operator(t) \/ ApplyTask(t) \/ Timeout(t)
                       \/ Hears(t) \/ ControllerChange(t)
                       \/ DatabaseReady(t) \/ Expires(t)

Spec == Init /\ [][Next]_vars

\* The browser delivers messages and events, runs timers and loads pages; a
\* page that stays open registers in the end and revalidates every hour.
Fairness ==
    \A t \in Tabs : /\ WF_vars(Hears(t))
                    /\ WF_vars(DeadmanTimeout(t))
                    /\ WF_vars(UpdateTimeout(t))
                    /\ WF_vars(PageLoads(t))
                    /\ WF_vars(Registered(t))
                    /\ WF_vars(Revalidate(t, TRUE))
FairSpec == Spec /\ Fairness

-----------------------------------------------------------------------------
(* Properties.                                                               *)

StartedUnderWay(t) == \E i \in DOMAIN coord[t] : coord[t][i] = "started"

\* "Only one tab owns the apply path": two tabs show "Applying" only while the
\* start of one of them is still under way to the other, although both may have
\* been clicked before either heard of the other, and tabs close and open.
OneOwner ==
    \A t, u \in Tabs : t # u /\ ui[t].applying /\ ui[u].applying
        => StartedUnderWay(t) \/ StartedUnderWay(u)

\* "Update in progress" has no button, so the dead-man timer is its only way
\* out when the tab that drives the handoff disappears.  It is running as long
\* as that banner is shown; the effect cleanup that clears it can only do so to
\* a handoff heard before the page had its registration.
HandoffHasDeadman ==
    \A t \in Tabs : open[t] /\ ui[t].progress /\ ~early[t] => "deadman" \in timers[t]

\* The loop breaker, where session storage takes its record: however messages,
\* timers, reloads and activations interleave, a tab hands over by itself fewer
\* than MaxReloads times before the record expires or an operator clears it.
AutomaticReloadsAreBounded == \A t \in Tabs : handed[t] < MaxReloads

HandedOverTwice(t) ==
    /\ reloading[t] = "hook" /\ reloading'[t] = "hook"
    /\ count'[t] > count[t] \/ (ui'[t].recovery /\ ~ui[t].recovery)

\* A page that waits for its reload with the database closed is not counted
\* again and does not fall into the loop breaker, although the messages of other
\* tabs, and its own recovery-clear, reset controllerReloadInFlight meanwhile: the
\* guard stamped when the database was closed holds the second controllerchange
\* back.  It takes a stamp that could be written and no more: once the database
\* is open again the stamp is gone, and the page may be counted twice.
OneReloadPerPage == [][\A t \in Tabs : ~HandedOverTwice(t)]_vars

\* A tab told of another tab's handoff does not show it for ever: its peers may
\* die at any time, messages and its own clicks interleave.
HandoffGuidanceEnds ==
    \A t \in Tabs : (ui[t].progress /\ ~early[t]) ~> (~ui[t].progress \/ early[t])

\* A waiting worker is offered in every tab that stays: what another tab's
\* recovery hides, or the operator dismissed, comes back.
WaitingWorkerIsOffered ==
    \A t \in Tabs : (open[t] /\ worker.waiting # 0)
        ~> (~open[t] \/ worker.waiting = 0 \/ reloading[t] # "none" \/ ui[t].needRefresh)
=============================================================================
