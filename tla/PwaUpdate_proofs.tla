---------------------------- MODULE PwaUpdate_proofs ----------------------------
(***************************************************************************)
(* Theorems about PwaUpdate, for any number of tabs, worker builds, clicks *)
(* and messages: who owns the apply path, the timers of the banners        *)
(* without a button, the loop breaker and the flag of a reload in flight.  *)
(***************************************************************************)
EXTENDS PwaUpdate, TLAPS

(***************************************************************************)
(* The banners of the hook are banners.                                    *)
(***************************************************************************)
LEMMA BannerType ==
    /\ Blank \in Ui /\ UpdateReady \in Ui /\ PinnedRecovery \in Ui
    /\ [UpdateReady EXCEPT !.applying = TRUE] \in Ui
    /\ \A b \in BOOLEAN : PinnedExternal(b) \in Ui
    /\ \A b \in BOOLEAN : [Blank EXCEPT !.recovery = b] \in Ui
    /\ \A u \in Ui : /\ ClearExternal(u) \in Ui
                     /\ [u EXCEPT !.needRefresh = TRUE] \in Ui
                     /\ [u EXCEPT !.applying = FALSE, !.stalled = TRUE] \in Ui
BY DEF Blank, UpdateReady, PinnedRecovery, PinnedExternal, ClearExternal, Ui

(***************************************************************************)
(* What those banners say of a handoff and of an apply.                    *)
(***************************************************************************)
LEMMA BannerFacts ==
    /\ ~Blank.progress /\ ~UpdateReady.progress /\ ~PinnedRecovery.progress
    /\ ~Blank.applying /\ ~UpdateReady.applying /\ ~PinnedRecovery.applying
    /\ ~[UpdateReady EXCEPT !.applying = TRUE].progress
    /\ ~PinnedExternal(TRUE).progress
    /\ ~PinnedExternal(TRUE).applying /\ ~PinnedExternal(FALSE).applying
    /\ \A b : ~[Blank EXCEPT !.recovery = b].progress
              /\ ~[Blank EXCEPT !.recovery = b].applying
    /\ \A u \in Ui :
          /\ ~ClearExternal(u).progress /\ ClearExternal(u).applying = u.applying
          /\ [u EXCEPT !.needRefresh = TRUE].progress = u.progress
          /\ [u EXCEPT !.needRefresh = TRUE].applying = u.applying
          /\ [u EXCEPT !.applying = FALSE, !.stalled = TRUE].progress = u.progress
          /\ ~[u EXCEPT !.applying = FALSE, !.stalled = TRUE].applying
BY DEF Blank, UpdateReady, PinnedRecovery, PinnedExternal, ClearExternal, Ui

(***************************************************************************)
(* A post keeps what is under way, and a start reaches every other open    *)
(* tab.                                                                    *)
(***************************************************************************)
LEMMA PostFacts ==
    ASSUME NEW t \in Tabs, NEW m \in Messages, Post(t, m),
           coord \in [Tabs -> Seq(Messages)]
    PROVE  /\ coord' \in [Tabs -> Seq(Messages)]
           /\ \A u \in Tabs :
                 /\ StartedUnderWay(u) => StartedUnderWay(u)'
                 /\ (m = "started" /\ u # t /\ open[u]) => StartedUnderWay(u)'
<1>1. ASSUME NEW s \in Seq(Messages)
      PROVE  /\ Append(s, m) \in Seq(Messages)
             /\ \A i \in DOMAIN s : i \in DOMAIN Append(s, m)
                                    /\ Append(s, m)[i] = s[i]
             /\ \E i \in DOMAIN Append(s, m) : Append(s, m)[i] = m
  <2>1. Len(s) + 1 \in DOMAIN Append(s, m) /\ Append(s, m)[Len(s) + 1] = m
    OBVIOUS
  <2> QED
    BY <2>1
<1>2. \A u \in Tabs : coord'[u] = IF u # t /\ open[u] THEN Append(coord[u], m)
                                                     ELSE coord[u]
  BY DEF Post
<1>3. coord' \in [Tabs -> Seq(Messages)]
  BY <1>1 DEF Post
<1>4. ASSUME NEW u \in Tabs, StartedUnderWay(u) PROVE StartedUnderWay(u)'
  <2>1. PICK i \in DOMAIN coord[u] : coord[u][i] = "started"
    BY <1>4 DEF StartedUnderWay
  <2>2. i \in DOMAIN coord'[u] /\ coord'[u][i] = "started"
    BY <1>1, <1>2, <2>1
  <2> QED
    BY <2>2 DEF StartedUnderWay
<1>5. ASSUME NEW u \in Tabs, m = "started", u # t, open[u]
      PROVE  StartedUnderWay(u)'
  <2>1. coord'[u] = Append(coord[u], m)
    BY <1>2, <1>5
  <2> QED
    BY <1>1, <1>5, <2>1 DEF StartedUnderWay
<1> QED
  BY <1>3, <1>4, <1>5

(***************************************************************************)
(* Hearing a message takes nothing but that message off the queue.         *)
(***************************************************************************)
LEMMA HearFacts ==
    ASSUME NEW t \in Tabs, HearsCoordination(t),
           coord \in [Tabs -> Seq(Messages)]
    PROVE  /\ coord' \in [Tabs -> Seq(Messages)]
           /\ Head(coord[t]) \in Messages
           /\ \A u \in Tabs :
                 (u # t \/ Head(coord[t]) # "started")
                     => (StartedUnderWay(u) => StartedUnderWay(u)')
<1>1. coord[t] \in Seq(Messages) /\ coord[t] # <<>>
  BY DEF HearsCoordination
<1>2. /\ coord' = [coord EXCEPT ![t] = Tail(@)]
      /\ Tail(coord[t]) \in Seq(Messages) /\ Head(coord[t]) \in Messages
  BY <1>1 DEF HearsCoordination
<1>3. ASSUME NEW u \in Tabs, u # t, StartedUnderWay(u) PROVE StartedUnderWay(u)'
  BY <1>2, <1>3 DEF StartedUnderWay
<1>4. ASSUME Head(coord[t]) # "started", StartedUnderWay(t)
      PROVE  StartedUnderWay(t)'
  <2>1. PICK i \in DOMAIN coord[t] : coord[t][i] = "started"
    BY <1>4 DEF StartedUnderWay
  <2>2. i \in 2..Len(coord[t])
    BY <1>1, <1>4, <2>1
  <2>3. i - 1 \in DOMAIN Tail(coord[t]) /\ Tail(coord[t])[i - 1] = "started"
    BY <1>1, <2>1, <2>2
  <2>4. coord'[t] = Tail(coord[t])
    BY <1>2
  <2> QED
    BY <2>3, <2>4 DEF StartedUnderWay
<1> QED
  BY <1>2, <1>3, <1>4

(***************************************************************************)
(* Loading a page gives its tab a fresh state of the right types, with     *)
(* nothing shown but, perhaps, the recovery prompt.                        *)
(***************************************************************************)
LEMMA FreshFacts ==
    ASSUME TypeOK, NEW t \in Tabs, NEW n \in Nat, FreshPage(t, n)
    PROVE  /\ reloading' \in [Tabs -> Reloads]
           /\ registered' \in [Tabs -> BOOLEAN] /\ prompted' \in [Tabs -> Versions]
           /\ ui' \in [Tabs -> Ui]
           /\ timers' \in [Tabs -> SUBSET {"update", "deadman"}]
           /\ inFlight' \in [Tabs -> BOOLEAN] /\ dismissed' \in [Tabs -> Versions]
           /\ applyTask' \in [Tabs -> BOOLEAN]
           /\ coord' \in [Tabs -> Seq(Messages)]
           /\ recover' \in [Tabs -> BOOLEAN] /\ change' \in [Tabs -> Nat]
           /\ early' \in [Tabs -> BOOLEAN]
           /\ ~ui'[t].progress /\ ~ui'[t].applying /\ reloading'[t] = "none"
           /\ \A u \in Tabs \ {t} :
                 /\ ui'[u] = ui[u] /\ timers'[u] = timers[u]
                 /\ registered'[u] = registered[u] /\ early'[u] = early[u]
                 /\ coord'[u] = coord[u] /\ reloading'[u] = reloading[u]
<1> DEFINE full == n >= MaxReloads
<1>0. full \in BOOLEAN
  OBVIOUS
<1>1. 0 \in Versions /\ << >> \in Seq(Messages)
  BY MaxVersionAssumption DEF Versions
<1> HIDE DEF full
<1>2. [Blank EXCEPT !.recovery = full] \in Ui
  BY <1>0, BannerType
<1>3. /\ ui' \in [Tabs -> Ui]
      /\ ui'[t] = [Blank EXCEPT !.recovery = full]
  BY <1>2 DEF FreshPage, TypeOK, full
<1>4. ~ui'[t].progress /\ ~ui'[t].applying
  BY <1>3, BannerFacts
<1> QED
  BY <1>1, <1>3, <1>4 DEF FreshPage, TypeOK, Reloads

(***************************************************************************)
(* Every step keeps the types.                                             *)
(***************************************************************************)
LEMMA TypeStep ==
    ASSUME TypeOK, [Next]_vars
    PROVE  TypeOK'
<1>0. /\ ui \in [Tabs -> Ui] /\ coord \in [Tabs -> Seq(Messages)]
      /\ worker \in [waiting : Versions, active : Versions, skip : BOOLEAN]
      /\ MaxReloads \in Nat \ {0} /\ 0 \in 0..MaxReloads /\ 0 \in Versions
      /\ {"started", "stalled", "cleared"} \subseteq Messages
  BY MaxReloadsAssumption, MaxVersionAssumption DEF TypeOK, Versions, Messages
<1>1. CASE UpdateInstalled
  <2>1. NewestVersion + 1 \in Versions
    BY <1>0, <1>1, MaxVersionAssumption DEF UpdateInstalled, NewestVersion, Versions
  <2>2. worker' \in [waiting : Versions, active : Versions, skip : BOOLEAN]
    BY <1>0, <1>1, <2>1 DEF UpdateInstalled
  <2> QED
    BY <1>1, <2>2 DEF UpdateInstalled, pageVars, TypeOK
<1>2. CASE WorkerActivates
  BY <1>0, <1>2 DEF WorkerActivates, TypeOK, pageVars
<1>3. ASSUME NEW t \in Tabs, PageLoads(t) PROVE TypeOK'
  <2>1. count[t] \in Nat
    BY <1>0 DEF TypeOK
  <2> QED
    BY <1>3, <2>1, FreshFacts DEF PageLoads, TypeOK
<1>4. ASSUME NEW t \in Tabs, TabCloses(t) PROVE TypeOK'
  <2>1. /\ open' \in [Tabs -> BOOLEAN] /\ count' \in [Tabs -> 0..MaxReloads]
        /\ guard' \in [Tabs -> BOOLEAN] /\ handed' \in [Tabs -> Nat]
        /\ clicks' \in Nat
    BY <1>0, <1>4 DEF TabCloses, OneClick, TypeOK
  <2> QED
    BY <1>4, <2>1, FreshFacts DEF TabCloses, TypeOK
<1>5. ASSUME NEW t \in Tabs, TabOpens(t) PROVE TypeOK'
  <2>1. open' \in [Tabs -> BOOLEAN] /\ clicks' \in Nat
    BY <1>5 DEF TabOpens, OneClick, TypeOK
  <2> QED
    BY <1>5, <2>1, FreshFacts DEF TabOpens, TypeOK
<1>6. ASSUME NEW t \in Tabs, Registered(t) PROVE TypeOK'
  BY <1>6 DEF Registered, TypeOK
<1>7. ASSUME NEW t \in Tabs, ShowSkipWaitingPrompt(t) PROVE TypeOK'
  <2>1. ui' \in [Tabs -> Ui]
    BY <1>0, <1>7, BannerType DEF ShowSkipWaitingPrompt
  <2> QED
    BY <1>0, <1>7, <2>1 DEF ShowSkipWaitingPrompt, TypeOK
<1>8. ASSUME NEW t \in Tabs, NEW force \in BOOLEAN, Revalidate(t, force)
      PROVE  TypeOK'
  BY <1>0, <1>8, BannerType DEF Revalidate, TypeOK
<1>9. ASSUME NEW t \in Tabs, HandleApplyUpdate(t) PROVE TypeOK'
  <2>1. coord' \in [Tabs -> Seq(Messages)]
    BY <1>0, <1>9, PostFacts DEF HandleApplyUpdate, Messages
  <2>2. ui' \in [Tabs -> Ui]
    BY <1>0, <1>9, BannerType DEF HandleApplyUpdate
  <2>3. /\ timers' \in [Tabs -> SUBSET {"update", "deadman"}]
        /\ inFlight' \in [Tabs -> BOOLEAN] /\ applyTask' \in [Tabs -> BOOLEAN]
        /\ dismissed' \in [Tabs -> Versions] /\ clicks' \in Nat
    BY <1>0, <1>9 DEF HandleApplyUpdate, OneClick, TypeOK
  <2> QED
    BY <1>9, <2>1, <2>2, <2>3 DEF HandleApplyUpdate, TypeOK
<1>10. ASSUME NEW t \in Tabs, HandleDismissBanner(t) PROVE TypeOK'
  <2>1. ui' \in [Tabs -> Ui]
    BY <1>0, <1>10, BannerType DEF HandleDismissBanner
  <2>2. dismissed' \in [Tabs -> Versions]
    BY <1>0, <1>10 DEF HandleDismissBanner, TypeOK
  <2> QED
    BY <1>10, <2>1, <2>2 DEF HandleDismissBanner, OneClick, TypeOK
<1>11. ASSUME NEW t \in Tabs, HandsOver(t)
       PROVE  /\ inFlight' \in [Tabs -> BOOLEAN] /\ guard' \in [Tabs -> BOOLEAN]
              /\ timers' \in [Tabs -> SUBSET {"update", "deadman"}]
              /\ ui' \in [Tabs -> Ui]
              /\ reloading' \in [Tabs -> Reloads]
  BY <1>0, <1>11, BannerType, SessionStorageAssumption DEF HandsOver, TypeOK, Reloads
<1>12. ASSUME NEW t \in Tabs, HandleReloadPage(t) PROVE TypeOK'
  <2>1. coord' \in [Tabs -> Seq(Messages)]
    BY <1>0, <1>12, PostFacts DEF HandleReloadPage, Messages
  <2>2. recover' \in [Tabs -> BOOLEAN]
    BY <1>12 DEF HandleReloadPage, TypeOK
  <2>3. /\ dismissed' \in [Tabs -> Versions] /\ count' \in [Tabs -> 0..MaxReloads]
        /\ handed' \in [Tabs -> Nat] /\ clicks' \in Nat
    BY <1>0, <1>12 DEF HandleReloadPage, OneClick, TypeOK
  <2>4. HandsOver(t)
    BY <1>12 DEF HandleReloadPage
  <2> QED
    BY <1>11, <1>12, <2>1, <2>2, <2>3, <2>4 DEF HandleReloadPage, TypeOK
<1>13. ASSUME NEW t \in Tabs, SkipWaitingPosted(t) \/ NoWorkerToApply(t)
       PROVE  TypeOK'
  BY <1>0, <1>13
  DEF SkipWaitingPosted, NoWorkerToApply, ApplyTaskEnds, TypeOK
<1>14. ASSUME NEW t \in Tabs, Stalled(t)
       PROVE  /\ coord' \in [Tabs -> Seq(Messages)] /\ ui' \in [Tabs -> Ui]
              /\ timers' \in [Tabs -> SUBSET {"update", "deadman"}]
  <2>1. coord' \in [Tabs -> Seq(Messages)]
    BY <1>0, <1>14, PostFacts DEF Stalled, Messages
  <2>2. ui' = [ui EXCEPT ![t] = [ui[t] EXCEPT !.applying = FALSE, !.stalled = TRUE]]
    BY <1>0, <1>14 DEF Stalled
  <2>3. ui' \in [Tabs -> Ui]
    BY <1>0, <2>2, BannerType
  <2> QED
    BY <1>14, <2>1, <2>3 DEF Stalled, TypeOK
<1>15. ASSUME NEW t \in Tabs, SkipWaitingThrows(t) PROVE TypeOK'
  BY <1>14, <1>15 DEF SkipWaitingThrows, ApplyTaskEnds, TypeOK
<1>16. ASSUME NEW t \in Tabs, UpdateTimeout(t) PROVE TypeOK'
  BY <1>14, <1>16 DEF UpdateTimeout, pageVars, TypeOK
<1>17. ASSUME NEW t \in Tabs, DeadmanTimeout(t) PROVE TypeOK'
  BY <1>0, <1>17, BannerType DEF DeadmanTimeout, pageVars, TypeOK
<1>18. ASSUME NEW t \in Tabs, HearsStarted(t) PROVE TypeOK'
  <2>1. coord' \in [Tabs -> Seq(Messages)]
    BY <1>0, <1>18, HearFacts DEF HearsStarted
  <2> QED
    BY <1>0, <1>18, <2>1, BannerType
    DEF HearsStarted, HearsCoordination, pageVars, TypeOK
<1>19. ASSUME NEW t \in Tabs, HearsStalled(t) \/ HearsCleared(t) PROVE TypeOK'
  <2>1. coord' \in [Tabs -> Seq(Messages)]
    BY <1>0, <1>19, HearFacts DEF HearsStalled, HearsCleared
  <2>2. PinnedExternal(TRUE) \in Ui /\ ClearExternal(ui[t]) \in Ui
    BY <1>0, BannerType
  <2>3. ui' \in [Tabs -> Ui]
    BY <1>0, <1>19, <2>2 DEF HearsStalled, HearsCleared
  <2> QED
    BY <1>19, <2>1, <2>3
    DEF HearsStalled, HearsCleared, HearsCoordination, pageVars, TypeOK
<1>20. ASSUME NEW t \in Tabs, HearsRecoveryClear(t) PROVE TypeOK'
  BY <1>0, <1>20, BannerType DEF HearsRecoveryClear, pageVars, TypeOK
<1>21. ASSUME NEW t \in Tabs, ChangeHandled(t), PromptReloads(t)
       PROVE  /\ change' \in [Tabs -> Nat]
              /\ reloading' \in [Tabs -> Reloads]
  BY <1>21 DEF ChangeHandled, PromptReloads, TypeOK, Reloads
<1>22. ASSUME NEW t \in Tabs, ChangeSuppressed(t) PROVE TypeOK'
  BY <1>21, <1>22 DEF ChangeSuppressed, ChangeHandled, pageVars, TypeOK
<1>23. ASSUME NEW t \in Tabs, ChangePinsRecovery(t) PROVE TypeOK'
  <2>1. coord' \in [Tabs -> Seq(Messages)]
    BY <1>0, <1>23, PostFacts DEF ChangePinsRecovery, Messages
  <2>2. count' \in [Tabs -> 0..MaxReloads]
    BY <1>0, <1>23 DEF ChangePinsRecovery, TypeOK
  <2> QED
    BY <1>0, <1>21, <1>23, <2>1, <2>2, BannerType
    DEF ChangePinsRecovery, ChangeHandled, pageVars, TypeOK
<1>24. ASSUME NEW t \in Tabs, ChangeHandsOver(t) PROVE TypeOK'
  <2>1. coord' \in [Tabs -> Seq(Messages)]
    BY <1>0, <1>24, PostFacts DEF ChangeHandsOver, Messages
  <2>2. count[t] + 1 \in 0..MaxReloads
    BY <1>0, <1>24 DEF ChangeHandsOver, LoopDetected, TypeOK
  <2>3. change' \in [Tabs -> Nat]
    BY <1>24 DEF ChangeHandsOver, ChangeHandled, TypeOK
  <2>4. count' \in [Tabs -> 0..MaxReloads] /\ handed' \in [Tabs -> Nat]
    BY <1>24, <2>2 DEF ChangeHandsOver, TypeOK
  <2>5. HandsOver(t)
    BY <1>24 DEF ChangeHandsOver
  <2> QED
    BY <1>11, <1>24, <2>1, <2>3, <2>4, <2>5
    DEF ChangeHandsOver, ChangeHandled, pageVars, TypeOK
<1>25. ASSUME NEW t \in Tabs, DatabaseReady(t) \/ GuardExpires(t) PROVE TypeOK'
  BY <1>25 DEF DatabaseReady, GuardExpires, Reloads, pageVars, TypeOK
<1>27. ASSUME NEW t \in Tabs, WindowExpires(t) PROVE TypeOK'
  <2>1. count' \in [Tabs -> 0..MaxReloads]
    BY <1>0, <1>27 DEF WindowExpires, TypeOK
  <2>2. handed' \in [Tabs -> Nat]
    BY <1>27 DEF WindowExpires, TypeOK
  <2> QED
    BY <1>27, <2>1, <2>2 DEF WindowExpires, pageVars, TypeOK
<1>26. CASE UNCHANGED vars
  BY <1>26 DEF vars, pageVars, TypeOK
<1> QED
  BY <1>1, <1>2, <1>3, <1>4, <1>5, <1>6, <1>7, <1>8, <1>9, <1>10, <1>12,
     <1>13, <1>15, <1>16, <1>17, <1>18, <1>19, <1>20, <1>22, <1>23, <1>24,
     <1>25, <1>26, <1>27
  DEF Next, Page, Operator, ApplyTask, Timeout, Expires, Hears, ControllerChange

(***************************************************************************)
(* The tabs of the origin keep their types, however many they are.         *)
(***************************************************************************)
THEOREM TypeCorrect == Spec => []TypeOK
<1>1. Init => TypeOK
  <2> SUFFICES ASSUME Init PROVE TypeOK
    OBVIOUS
  <2>0. 0 \in Versions /\ 0 \in 0..MaxReloads
    BY MaxVersionAssumption, MaxReloadsAssumption DEF Versions
  <2>1. Blank \in Ui
    BY BannerType
  <2>2. worker \in [waiting : Versions, active : Versions, skip : BOOLEAN]
    BY <2>0 DEF Init
  <2>3. coord \in [Tabs -> Seq(Messages)] /\ ui \in [Tabs -> Ui]
    BY <2>1 DEF Init
  <2>4. prompted \in [Tabs -> Versions] /\ dismissed \in [Tabs -> Versions]
    BY <2>0 DEF Init
  <2> QED
    BY <2>0, <2>2, <2>3, <2>4 DEF Init, TypeOK, Reloads
<1>2. TypeOK /\ [Next]_vars => TypeOK'
  BY TypeStep
<1> QED
  BY <1>1, <1>2, PTL DEF Spec

-------------------------------------------------------------------------------
(***************************************************************************)
(* A closed tab shows no apply of its own: a click would not reach it, so  *)
(* without this the claim on two owners is not kept by a click.            *)
(***************************************************************************)
ClosedTabsApplyNothing == \A t \in Tabs : ui[t].applying => open[t]

(***************************************************************************)
(* A step in which no tab begins an apply, and no tab that goes on with    *)
(* one loses the start it was sent, keeps the claim on owners.             *)
(***************************************************************************)
LEMMA CalmKeepsOwner ==
    ASSUME OneOwner, ClosedTabsApplyNothing,
           \A u \in Tabs : ui'[u].applying =>
               /\ ui[u].applying /\ open'[u] = open[u]
               /\ StartedUnderWay(u) => StartedUnderWay(u)'
    PROVE  OneOwner' /\ ClosedTabsApplyNothing'
BY DEF OneOwner, ClosedTabsApplyNothing

(***************************************************************************)
(* Every step keeps the claim: a click sends its start to every open tab,  *)
(* and a tab that hears one gives its own apply up.                        *)
(***************************************************************************)
LEMMA OwnerStep ==
    ASSUME TypeOK, OneOwner, ClosedTabsApplyNothing, [Next]_vars
    PROVE  OneOwner' /\ ClosedTabsApplyNothing'
<1> DEFINE Calm == \A u \in Tabs : ui'[u].applying =>
               /\ ui[u].applying /\ open'[u] = open[u]
               /\ StartedUnderWay(u) => StartedUnderWay(u)'
<1>0. ui \in [Tabs -> Ui] /\ coord \in [Tabs -> Seq(Messages)]
      /\ {"started", "stalled", "cleared"} \subseteq Messages
  BY DEF TypeOK, Messages
<1>1. CASE UNCHANGED <<ui, open, coord>>
  <2>1. Calm
    BY <1>1 DEF StartedUnderWay
  <2> QED
    BY <2>1, CalmKeepsOwner
<1>2. ASSUME NEW t \in Tabs, NEW n \in Nat, FreshPage(t, n),
             \A u \in Tabs \ {t} : open'[u] = open[u]
      PROVE  Calm
  BY <1>2, FreshFacts DEF StartedUnderWay
<1>3. ASSUME NEW t \in Tabs, PageLoads(t) \/ TabCloses(t) \/ TabOpens(t)
      PROVE  Calm
  <2>1. PICK n \in Nat : FreshPage(t, n)
    BY <1>3 DEF PageLoads, TabCloses, TabOpens, TypeOK
  <2>2. \A u \in Tabs \ {t} : open'[u] = open[u]
    BY <1>3 DEF PageLoads, TabCloses, TabOpens, TypeOK
  <2> QED
    BY <1>2, <2>1, <2>2
<1>4. ASSUME NEW t \in Tabs, NEW b \in Ui, ui' = [ui EXCEPT ![t] = b],
             ~b.applying \/ (b.applying = ui[t].applying), UNCHANGED open,
             \A u \in Tabs : ui'[u].applying =>
                 (StartedUnderWay(u) => StartedUnderWay(u)')
      PROVE  Calm
  BY <1>0, <1>4
<1>5. ASSUME NEW t \in Tabs, NEW b \in Ui, ui' = [ui EXCEPT ![t] = b],
             ~b.applying \/ (b.applying = ui[t].applying),
             UNCHANGED <<open, coord>>
      PROVE  Calm
  <2>1. \A u \in Tabs : StartedUnderWay(u) => StartedUnderWay(u)'
    BY <1>5 DEF StartedUnderWay
  <2> QED
    BY <1>4, <1>5, <2>1
<1>6. ASSUME NEW t \in Tabs, ShowSkipWaitingPrompt(t) PROVE Calm
  <2> DEFINE b == [ui[t] EXCEPT !.needRefresh = TRUE]
  <2>1. ui' = [ui EXCEPT ![t] = b] /\ UNCHANGED <<open, coord>>
    BY <1>6 DEF ShowSkipWaitingPrompt
  <2>2. ui[t] \in Ui
    BY <1>0
  <2>3. b \in Ui /\ b.applying = ui[t].applying
    BY <2>2, BannerType, BannerFacts
  <2> HIDE DEF b
  <2> QED
    BY <1>5, <2>1, <2>3
<1>7. ASSUME NEW t \in Tabs, NEW force \in BOOLEAN, Revalidate(t, force)
      PROVE  Calm
  BY <1>5, <1>7, BannerType, BannerFacts DEF Revalidate
<1>8. ASSUME NEW t \in Tabs, HandleDismissBanner(t) PROVE Calm
  BY <1>5, <1>8, BannerType, BannerFacts DEF HandleDismissBanner
<1>9. ASSUME NEW t \in Tabs, NEW m \in Messages, Post(t, m), NEW b \in Ui,
             ui' = [ui EXCEPT ![t] = b], ~b.applying, UNCHANGED open
      PROVE  Calm
  BY <1>0, <1>4, <1>9, PostFacts
<1>10. ASSUME NEW t \in Tabs, HandleReloadPage(t) \/ ChangeHandsOver(t) PROVE Calm
  BY <1>0, <1>9, <1>10, BannerType, BannerFacts
  DEF HandleReloadPage, ChangeHandsOver, ChangeHandled, HandsOver
<1>11. ASSUME NEW t \in Tabs, Stalled(t), UNCHANGED open PROVE Calm
  <2>1. ui' = [ui EXCEPT ![t] = [ui[t] EXCEPT !.applying = FALSE, !.stalled = TRUE]]
    BY <1>0, <1>11 DEF Stalled
  <2>2. ui[t] \in Ui
    BY <1>0
  <2> QED
    BY <1>0, <1>9, <1>11, <2>1, <2>2, BannerType, BannerFacts DEF Stalled
<1>12. ASSUME NEW t \in Tabs, SkipWaitingThrows(t) \/ UpdateTimeout(t) PROVE Calm
  BY <1>11, <1>12 DEF SkipWaitingThrows, ApplyTaskEnds, UpdateTimeout
<1>13. ASSUME NEW t \in Tabs, ChangePinsRecovery(t) PROVE Calm
  BY <1>0, <1>9, <1>13, BannerType, BannerFacts
  DEF ChangePinsRecovery, ChangeHandled
<1>14. ASSUME NEW t \in Tabs, DeadmanTimeout(t) PROVE Calm
  <2>1. ui[t] \in Ui
    BY <1>0
  <2> QED
    BY <1>5, <1>14, <2>1, BannerType, BannerFacts DEF DeadmanTimeout
<1>15. ASSUME NEW t \in Tabs, HearsStarted(t) \/ HearsStalled(t) PROVE Calm
  <2>1. PICK b \in BOOLEAN : ui' = [ui EXCEPT ![t] = PinnedExternal(b)]
    BY <1>15 DEF HearsStarted, HearsStalled
  <2>2. PinnedExternal(b) \in Ui /\ ~PinnedExternal(b).applying
    BY BannerType, BannerFacts
  <2>3. HearsCoordination(t)
    BY <1>15 DEF HearsStarted, HearsStalled
  <2>4. \A u \in Tabs : ui'[u].applying =>
            (StartedUnderWay(u) => StartedUnderWay(u)')
    BY <1>0, <2>1, <2>2, <2>3, HearFacts
  <2>5. UNCHANGED open
    BY <2>3 DEF HearsCoordination
  <2> QED
    BY <1>4, <2>1, <2>2, <2>4, <2>5
<1>16. ASSUME NEW t \in Tabs, HearsCleared(t) PROVE Calm
  <2>1. HearsCoordination(t) /\ Head(coord[t]) # "started"
    BY <1>16 DEF HearsCleared
  <2>2. \A u \in Tabs : StartedUnderWay(u) => StartedUnderWay(u)'
    BY <1>0, <2>1, HearFacts
  <2>3. ui[t] \in Ui /\ UNCHANGED open
    BY <1>0, <2>1 DEF HearsCoordination
  <2> QED
    BY <1>4, <1>16, <2>2, <2>3, BannerType, BannerFacts DEF HearsCleared
<1>17. ASSUME NEW t \in Tabs, HearsRecoveryClear(t) PROVE Calm
  <2>1. PICK b \in {Blank, ui[t]} : ui' = [ui EXCEPT ![t] = b]
    BY <1>17 DEF HearsRecoveryClear
  <2>2. b \in Ui /\ (~b.applying \/ b.applying = ui[t].applying)
    <3>1. Blank \in Ui /\ ~Blank.applying /\ ui[t] \in Ui
      BY <1>0, BannerType, BannerFacts
    <3> QED
      BY <3>1
  <2> QED
    BY <1>5, <1>17, <2>1, <2>2 DEF HearsRecoveryClear
<1>18. ASSUME NEW t \in Tabs, HandleApplyUpdate(t)
       PROVE  OneOwner' /\ ClosedTabsApplyNothing'
  <2>1. open[t] /\ UNCHANGED open
    BY <1>18 DEF HandleApplyUpdate, OffersApply
  <2>2. \A u \in Tabs \ {t} : ui'[u] = ui[u]
    BY <1>0, <1>18 DEF HandleApplyUpdate
  <2>3. \A u \in Tabs : /\ StartedUnderWay(u) => StartedUnderWay(u)'
                        /\ u # t /\ open[u] => StartedUnderWay(u)'
    BY <1>0, <1>18, PostFacts DEF HandleApplyUpdate
  <2>4. ClosedTabsApplyNothing'
    BY <2>1, <2>2 DEF ClosedTabsApplyNothing
  <2>5. ASSUME NEW u \in Tabs, NEW v \in Tabs, u # v,
               ui'[u].applying, ui'[v].applying
        PROVE  StartedUnderWay(u)' \/ StartedUnderWay(v)'
    <3>1. CASE u = t
      BY <2>2, <2>3, <2>5, <3>1 DEF ClosedTabsApplyNothing
    <3>2. CASE v = t
      BY <2>2, <2>3, <2>5, <3>2 DEF ClosedTabsApplyNothing
    <3>3. CASE u # t /\ v # t
      BY <2>2, <2>3, <2>5, <3>3 DEF OneOwner
    <3> QED
      BY <3>1, <3>2, <3>3
  <2> QED
    BY <2>4, <2>5 DEF OneOwner
<1> HIDE DEF Calm
<1>19. Calm => OneOwner' /\ ClosedTabsApplyNothing'
  BY CalmKeepsOwner DEF Calm
<1>20. CASE \E t \in Tabs : Page(t)
  <2>1. ASSUME NEW t \in Tabs, Registered(t)
        PROVE  UNCHANGED <<ui, open, coord>>
    BY <2>1 DEF Registered
  <2> QED
    BY <1>1, <1>3, <1>6, <1>7, <1>19, <1>20, <2>1 DEF Page
<1>21. CASE \E t \in Tabs : Operator(t)
  BY <1>8, <1>10, <1>18, <1>19, <1>21 DEF Operator
<1>22. CASE \E t \in Tabs : ApplyTask(t) \/ Timeout(t)
  <2>1. ASSUME NEW t \in Tabs, SkipWaitingPosted(t) \/ NoWorkerToApply(t)
        PROVE  UNCHANGED <<ui, open, coord>>
    BY <2>1 DEF SkipWaitingPosted, NoWorkerToApply, ApplyTaskEnds
  <2> QED
    BY <1>1, <1>12, <1>14, <1>19, <1>22, <2>1 DEF ApplyTask, Timeout
<1>23. CASE \E t \in Tabs : Hears(t)
  BY <1>15, <1>16, <1>17, <1>19, <1>23 DEF Hears
<1>24. CASE \E t \in Tabs : ControllerChange(t)
  <2>1. ASSUME NEW t \in Tabs, ChangeSuppressed(t)
        PROVE  UNCHANGED <<ui, open, coord>>
    BY <2>1 DEF ChangeSuppressed, ChangeHandled
  <2> QED
    BY <1>1, <1>10, <1>13, <1>19, <1>24, <2>1 DEF ControllerChange
<1>25. CASE UNCHANGED vars \/ UpdateInstalled \/ WorkerActivates
            \/ \E t \in Tabs : DatabaseReady(t) \/ Expires(t)
  <2>1. UNCHANGED <<ui, open, coord>>
    BY <1>25
    DEF vars, UpdateInstalled, WorkerActivates, DatabaseReady, Expires,
        GuardExpires, WindowExpires
  <2> QED
    BY <1>1, <2>1
<1> QED
  BY <1>20, <1>21, <1>22, <1>23, <1>24, <1>25 DEF Next

(***************************************************************************)
(* Two tabs never both own the apply path, unless one of them is about to  *)
(* hear of the other, for any number of tabs that come and go.             *)
(***************************************************************************)
THEOREM OwnerIsUnique == Spec => []OneOwner
<1>1. Init => OneOwner /\ ClosedTabsApplyNothing
  BY BannerFacts DEF Init, OneOwner, ClosedTabsApplyNothing
<1>2. TypeOK /\ OneOwner /\ ClosedTabsApplyNothing /\ [Next]_vars
          => OneOwner' /\ ClosedTabsApplyNothing'
  BY OwnerStep
<1> QED
  BY <1>1, <1>2, TypeCorrect, PTL DEF Spec

-------------------------------------------------------------------------------
(***************************************************************************)
(* A handoff that is shown before the page has its registration is marked  *)
(* as early; so the one cleanup that stops the timer meets no other.       *)
(***************************************************************************)
UnregisteredHandoffIsEarly ==
    \A t \in Tabs : ui[t].progress /\ ~registered[t] => early[t]

(***************************************************************************)
(* A step in which no tab begins to show a handoff, and no tab that goes   *)
(* on with one loses its timer, keeps the claim on the timer.              *)
(***************************************************************************)
LEMMA CalmKeepsDeadman ==
    ASSUME HandoffHasDeadman, UnregisteredHandoffIsEarly,
           \A u \in Tabs : ui'[u].progress =>
               /\ ui[u].progress /\ open'[u] = open[u]
               /\ early'[u] = early[u] /\ registered'[u] = registered[u]
               /\ "deadman" \in timers[u] => "deadman" \in timers'[u]
    PROVE  HandoffHasDeadman' /\ UnregisteredHandoffIsEarly'
BY DEF HandoffHasDeadman, UnregisteredHandoffIsEarly

(***************************************************************************)
(* Every step keeps the claim.                                             *)
(***************************************************************************)
LEMMA DeadmanStep ==
    ASSUME TypeOK, HandoffHasDeadman, UnregisteredHandoffIsEarly, [Next]_vars
    PROVE  HandoffHasDeadman' /\ UnregisteredHandoffIsEarly'
<1> DEFINE Calm == \A u \in Tabs : ui'[u].progress =>
               /\ ui[u].progress /\ open'[u] = open[u]
               /\ early'[u] = early[u] /\ registered'[u] = registered[u]
               /\ "deadman" \in timers[u] => "deadman" \in timers'[u]
<1>0. ui \in [Tabs -> Ui] /\ timers \in [Tabs -> SUBSET {"update", "deadman"}]
  BY DEF TypeOK
<1>1. CASE UNCHANGED <<ui, open, early, registered, timers>>
  <2>1. Calm
    BY <1>1
  <2> QED
    BY <2>1, CalmKeepsDeadman
<1>2. ASSUME NEW t \in Tabs, NEW n \in Nat, FreshPage(t, n),
             \A u \in Tabs \ {t} : open'[u] = open[u]
      PROVE  Calm
  BY <1>2, FreshFacts
<1>3. ASSUME NEW t \in Tabs, PageLoads(t) \/ TabCloses(t) \/ TabOpens(t)
      PROVE  Calm
  <2>1. PICK n \in Nat : FreshPage(t, n)
    BY <1>3 DEF PageLoads, TabCloses, TabOpens, TypeOK
  <2>2. \A u \in Tabs \ {t} : open'[u] = open[u]
    BY <1>3 DEF PageLoads, TabCloses, TabOpens, TypeOK
  <2> QED
    BY <1>2, <2>1, <2>2
\* The banner no longer shows a handoff.
<1>4. ASSUME NEW t \in Tabs, NEW b \in Ui, ui' = [ui EXCEPT ![t] = b],
             ~b.progress, UNCHANGED <<open, early, registered>>,
             \A u \in Tabs \ {t} : timers'[u] = timers[u]
      PROVE  Calm
  BY <1>0, <1>4
\* It shows what it did, and its timer goes on.
<1>5. ASSUME NEW t \in Tabs, NEW b \in Ui, ui' = [ui EXCEPT ![t] = b],
             b.progress = ui[t].progress, UNCHANGED <<open, early, registered>>,
             timers' = timers \/ timers' = [timers EXCEPT ![t] = @ \ {"update"}]
      PROVE  Calm
  BY <1>0, <1>5
<1>6. ASSUME NEW t \in Tabs, ShowSkipWaitingPrompt(t) PROVE Calm
  <2> DEFINE b == [ui[t] EXCEPT !.needRefresh = TRUE]
  <2>1. /\ ui' = [ui EXCEPT ![t] = b]
        /\ UNCHANGED <<open, early, registered, timers>>
    BY <1>6 DEF ShowSkipWaitingPrompt
  <2>2. ui[t] \in Ui
    BY <1>0
  <2>3. b \in Ui /\ b.progress = ui[t].progress
    BY <2>2, BannerType, BannerFacts
  <2> HIDE DEF b
  <2> QED
    BY <1>5, <2>1, <2>3
<1>7. /\ Blank \in Ui /\ UpdateReady \in Ui /\ PinnedRecovery \in Ui
      /\ PinnedExternal(TRUE) \in Ui
      /\ ~Blank.progress /\ ~UpdateReady.progress /\ ~PinnedRecovery.progress
      /\ ~PinnedExternal(TRUE).progress
  BY BannerType, BannerFacts
<1>8. ASSUME NEW t \in Tabs
      PROVE  ClearExternal(ui[t]) \in Ui /\ ~ClearExternal(ui[t]).progress
  <2>1. ui[t] \in Ui
    BY <1>0
  <2> QED
    BY <2>1, BannerType, BannerFacts
<1>9. ASSUME NEW t \in Tabs, NEW force \in BOOLEAN, Revalidate(t, force)
      PROVE  Calm
  BY <1>0, <1>4, <1>7, <1>9 DEF Revalidate
<1>10. ASSUME NEW t \in Tabs, HandleApplyUpdate(t) PROVE Calm
  <2> DEFINE b == [UpdateReady EXCEPT !.applying = TRUE]
  <2>1. b \in Ui /\ ~b.progress
    BY BannerType, BannerFacts
  <2>2. /\ ui' = [ui EXCEPT ![t] = b]
        /\ UNCHANGED <<open, early, registered>>
        /\ \A u \in Tabs \ {t} : timers'[u] = timers[u]
    BY <1>0, <1>10 DEF HandleApplyUpdate
  <2> HIDE DEF b
  <2> QED
    BY <1>4, <2>1, <2>2
<1>11. ASSUME NEW t \in Tabs, HandleDismissBanner(t) PROVE Calm
  BY <1>0, <1>4, <1>7, <1>11 DEF HandleDismissBanner
<1>12. ASSUME NEW t \in Tabs, HandleReloadPage(t) \/ ChangeHandsOver(t) PROVE Calm
  BY <1>0, <1>4, <1>7, <1>12
  DEF HandleReloadPage, ChangeHandsOver, ChangeHandled, HandsOver, pageVars
<1>13. ASSUME NEW t \in Tabs, Stalled(t), UNCHANGED <<open, early, registered>>
       PROVE  Calm
  <2> DEFINE b == [ui[t] EXCEPT !.applying = FALSE, !.stalled = TRUE]
  <2>1. ui' = [ui EXCEPT ![t] = b]
    BY <1>0, <1>13 DEF Stalled
  <2>2. ui[t] \in Ui
    BY <1>0
  <2>3. b \in Ui /\ b.progress = ui[t].progress
    BY <2>2, BannerType, BannerFacts
  <2> HIDE DEF b
  <2> QED
    BY <1>5, <1>13, <2>1, <2>3 DEF Stalled
<1>14. ASSUME NEW t \in Tabs, SkipWaitingThrows(t) \/ UpdateTimeout(t) PROVE Calm
  BY <1>13, <1>14 DEF SkipWaitingThrows, ApplyTaskEnds, UpdateTimeout, pageVars
<1>15. ASSUME NEW t \in Tabs, ChangePinsRecovery(t) PROVE Calm
  BY <1>0, <1>4, <1>7, <1>15 DEF ChangePinsRecovery, ChangeHandled, pageVars
<1>16. ASSUME NEW t \in Tabs, DeadmanTimeout(t) PROVE Calm
  BY <1>0, <1>4, <1>8, <1>16 DEF DeadmanTimeout, pageVars
<1>17. ASSUME NEW t \in Tabs, HearsStalled(t) \/ HearsCleared(t) PROVE Calm
  BY <1>0, <1>4, <1>7, <1>8, <1>17
  DEF HearsStalled, HearsCleared, HearsCoordination, pageVars
<1>18. ASSUME NEW t \in Tabs, HearsRecoveryClear(t) PROVE Calm
  <2>1. UNCHANGED <<open, early, registered>>
    BY <1>18 DEF HearsRecoveryClear, pageVars
  <2>2. CASE ui' = [ui EXCEPT ![t] = Blank] /\ timers' = [timers EXCEPT ![t] = {}]
    BY <1>0, <1>4, <1>7, <2>1, <2>2
  <2>3. CASE ui' = [ui EXCEPT ![t] = ui[t]]
             /\ timers' = [timers EXCEPT ![t] = @ \ {"update"}]
    <3>1. ui[t] \in Ui
      BY <1>0
    <3> QED
      BY <1>5, <2>1, <2>3, <3>1
  <2> QED
    BY <1>18, <2>2, <2>3 DEF HearsRecoveryClear
<1>19. ASSUME NEW t \in Tabs, HearsStarted(t)
       PROVE  HandoffHasDeadman' /\ UnregisteredHandoffIsEarly'
  <2>1. /\ timers'[t] = {"deadman"} /\ early'[t] = ~registered[t]
        /\ UNCHANGED <<open, registered>>
        /\ \A u \in Tabs \ {t} : /\ ui'[u] = ui[u] /\ timers'[u] = timers[u]
                                  /\ early'[u] = early[u]
    BY <1>0, <1>19 DEF HearsStarted, HearsCoordination, pageVars, TypeOK
  <2> QED
    BY <2>1 DEF HandoffHasDeadman, UnregisteredHandoffIsEarly
<1>20. ASSUME NEW t \in Tabs, Registered(t)
       PROVE  HandoffHasDeadman' /\ UnregisteredHandoffIsEarly'
  <2>1. /\ ~registered[t] /\ UNCHANGED <<ui, open, early>>
        /\ \A u \in Tabs \ {t} : registered'[u] = registered[u]
                                  /\ timers'[u] = timers[u]
        /\ registered'[t]
    BY <1>0, <1>20 DEF Registered, TypeOK
  <2> QED
    BY <2>1 DEF HandoffHasDeadman, UnregisteredHandoffIsEarly
<1> HIDE DEF Calm
<1>21. Calm => HandoffHasDeadman' /\ UnregisteredHandoffIsEarly'
  BY CalmKeepsDeadman DEF Calm
<1>22. CASE \E t \in Tabs : Page(t)
  BY <1>3, <1>6, <1>9, <1>20, <1>21, <1>22 DEF Page
<1>23. CASE \E t \in Tabs : Operator(t)
  BY <1>10, <1>11, <1>12, <1>21, <1>23 DEF Operator
<1>24. CASE \E t \in Tabs : ApplyTask(t) \/ Timeout(t)
  <2>1. ASSUME NEW t \in Tabs, SkipWaitingPosted(t) \/ NoWorkerToApply(t)
        PROVE  UNCHANGED <<ui, open, early, registered, timers>>
    BY <2>1 DEF SkipWaitingPosted, NoWorkerToApply, ApplyTaskEnds
  <2> QED
    BY <1>1, <1>14, <1>16, <1>21, <1>24, <2>1 DEF ApplyTask, Timeout
<1>25. CASE \E t \in Tabs : Hears(t)
  BY <1>17, <1>18, <1>19, <1>21, <1>25 DEF Hears
<1>26. CASE \E t \in Tabs : ControllerChange(t)
  <2>1. ASSUME NEW t \in Tabs, ChangeSuppressed(t)
        PROVE  UNCHANGED <<ui, open, early, registered, timers>>
    BY <2>1 DEF ChangeSuppressed, ChangeHandled, pageVars
  <2> QED
    BY <1>1, <1>12, <1>15, <1>21, <1>26, <2>1 DEF ControllerChange
<1>27. CASE UNCHANGED vars \/ UpdateInstalled \/ WorkerActivates
            \/ \E t \in Tabs : DatabaseReady(t) \/ Expires(t)
  <2>1. UNCHANGED <<ui, open, early, registered, timers>>
    BY <1>27 DEF vars, pageVars, UpdateInstalled, WorkerActivates, DatabaseReady,
        Expires, GuardExpires, WindowExpires
  <2> QED
    BY <1>1, <2>1
<1> QED
  BY <1>22, <1>23, <1>24, <1>25, <1>26, <1>27 DEF Next

(***************************************************************************)
(* A tab that shows a handoff it cannot leave by a button has the timer    *)
(* that ends it.                                                           *)
(***************************************************************************)
THEOREM GuidanceHasTimer == Spec => []HandoffHasDeadman
<1>1. Init => HandoffHasDeadman /\ UnregisteredHandoffIsEarly
  BY BannerFacts DEF Init, HandoffHasDeadman, UnregisteredHandoffIsEarly
<1>2. TypeOK /\ HandoffHasDeadman /\ UnregisteredHandoffIsEarly /\ [Next]_vars
          => HandoffHasDeadman' /\ UnregisteredHandoffIsEarly'
  BY DeadmanStep
<1> QED
  BY <1>1, <1>2, TypeCorrect, PTL DEF Spec

-------------------------------------------------------------------------------
(***************************************************************************)
(* The record is never below what the tab did by itself, although it       *)
(* expires, is cleared by other tabs and is filled up at once; and a page  *)
(* that waits for the hook's reload, its database still closed, is         *)
(* guarded.  Both take a session storage that can be written.              *)
(***************************************************************************)
RecordCoversReloads == \A t \in Tabs : handed[t] <= count[t]
WaitingPageIsGuarded == \A t \in Tabs : reloading[t] = "hook" => guard[t]

(***************************************************************************)
(* Every step keeps the bound: a handoff is only made below it, and both   *)
(* counters go up or back together.                                        *)
(***************************************************************************)
LEMMA RecordStep ==
    ASSUME SessionStorage, TypeOK, RecordCoversReloads,
           AutomaticReloadsAreBounded, [Next]_vars
    PROVE  RecordCoversReloads' /\ AutomaticReloadsAreBounded'
<1> USE DEF RecordCoversReloads, AutomaticReloadsAreBounded
<1>0. /\ count \in [Tabs -> 0..MaxReloads] /\ handed \in [Tabs -> Nat]
      /\ MaxReloads \in Nat \ {0}
  BY MaxReloadsAssumption DEF TypeOK
<1>1. CASE UNCHANGED <<count, handed>>
  BY <1>1
<1>2. ASSUME NEW t \in Tabs, count' = [count EXCEPT ![t] = 0],
             handed' = [handed EXCEPT ![t] = 0]
      PROVE  RecordCoversReloads' /\ AutomaticReloadsAreBounded'
  BY <1>0, <1>2
<1>3. ASSUME NEW t \in Tabs, ChangePinsRecovery(t)
      PROVE  RecordCoversReloads' /\ AutomaticReloadsAreBounded'
  <2>1. count' = [count EXCEPT ![t] = MaxReloads] /\ handed' = handed
    BY SessionStorageAssumption, <1>3 DEF ChangePinsRecovery
  <2> QED
    BY <1>0, <2>1
<1>4. ASSUME NEW t \in Tabs, ChangeHandsOver(t)
      PROVE  RecordCoversReloads' /\ AutomaticReloadsAreBounded'
  <2>1. /\ count' = [count EXCEPT ![t] = count[t] + 1]
        /\ handed' = [handed EXCEPT ![t] = handed[t] + 1]
        /\ count[t] + 1 < MaxReloads
    BY <1>0, <1>4 DEF ChangeHandsOver, LoopDetected
  <2> QED
    BY <1>0, <2>1
<1>5. ASSUME NEW t \in Tabs, Page(t) \/ Operator(t)
      PROVE  RecordCoversReloads' /\ AutomaticReloadsAreBounded'
  <2>1. CASE TabCloses(t) \/ HandleReloadPage(t)
    BY <1>2, <2>1 DEF TabCloses, HandleReloadPage
  <2>2. CASE PageLoads(t) \/ TabOpens(t) \/ Registered(t)
             \/ ShowSkipWaitingPrompt(t) \/ \E force \in BOOLEAN : Revalidate(t, force)
    BY <1>1, <2>2
    DEF PageLoads, TabOpens, Registered, ShowSkipWaitingPrompt, Revalidate
  <2>3. CASE HandleApplyUpdate(t) \/ HandleDismissBanner(t)
    BY <1>1, <2>3 DEF HandleApplyUpdate, HandleDismissBanner
  <2> QED
    BY <1>5, <2>1, <2>2, <2>3 DEF Page, Operator
<1>6. ASSUME NEW t \in Tabs, ApplyTask(t) \/ Timeout(t)
      PROVE  UNCHANGED <<count, handed>>
  BY <1>6 DEF ApplyTask, Timeout, SkipWaitingPosted, NoWorkerToApply,
     SkipWaitingThrows, ApplyTaskEnds, UpdateTimeout, DeadmanTimeout
<1>7. ASSUME NEW t \in Tabs, Hears(t)
      PROVE  RecordCoversReloads' /\ AutomaticReloadsAreBounded'
  <2>1. CASE HearsRecoveryClear(t)
    BY <1>2, <2>1 DEF HearsRecoveryClear
  <2>2. CASE HearsCoordination(t)
    BY <1>1, <2>2 DEF HearsCoordination
  <2> QED
    BY <1>7, <2>1, <2>2 DEF Hears, HearsStarted, HearsStalled, HearsCleared
<1>8. ASSUME NEW t \in Tabs, ControllerChange(t) \/ DatabaseReady(t) \/ Expires(t)
      PROVE  RecordCoversReloads' /\ AutomaticReloadsAreBounded'
  BY <1>1, <1>2, <1>3, <1>4, <1>8
  DEF ControllerChange, ChangeSuppressed, DatabaseReady, Expires, GuardExpires,
      WindowExpires
<1>9. CASE UNCHANGED vars \/ UpdateInstalled \/ WorkerActivates
  BY <1>1, <1>9 DEF vars, UpdateInstalled, WorkerActivates
<1> QED
  BY <1>1, <1>5, <1>6, <1>7, <1>8, <1>9 DEF Next

(***************************************************************************)
(* The loop breaker holds for every limit and any number of tabs, where    *)
(* the browser stores its record.                                          *)
(***************************************************************************)
THEOREM ReloadsAreBounded ==
    ASSUME SessionStorage
    PROVE  Spec => []AutomaticReloadsAreBounded
<1>1. Init => RecordCoversReloads /\ AutomaticReloadsAreBounded
  BY MaxReloadsAssumption
  DEF Init, RecordCoversReloads, AutomaticReloadsAreBounded
<1>2. TypeOK /\ RecordCoversReloads /\ AutomaticReloadsAreBounded /\ [Next]_vars
          => RecordCoversReloads' /\ AutomaticReloadsAreBounded'
  BY RecordStep
<1> QED
  BY <1>1, <1>2, TypeCorrect, PTL DEF Spec

(***************************************************************************)
(* A reload of the hook is asked for together with the stamp, and nothing  *)
(* takes the stamp back while the page waits but the ready event of a      *)
(* database that is open again.                                            *)
(***************************************************************************)
LEMMA GuardStep ==
    ASSUME SessionStorage, TypeOK, WaitingPageIsGuarded, [Next]_vars
    PROVE  WaitingPageIsGuarded'
<1> USE DEF WaitingPageIsGuarded
<1>0. /\ reloading \in [Tabs -> Reloads]
      /\ guard \in [Tabs -> BOOLEAN]
  BY DEF TypeOK
<1>1. CASE UNCHANGED <<reloading, guard>>
  BY <1>1
<1>2. ASSUME NEW t \in Tabs, PageLoads(t) \/ TabCloses(t) \/ TabOpens(t)
      PROVE  WaitingPageIsGuarded'
  BY <1>0, <1>2 DEF PageLoads, TabCloses, TabOpens, FreshPage
<1>3. ASSUME NEW t \in Tabs, Page(t) PROVE WaitingPageIsGuarded'
  <2>1. CASE Registered(t) \/ ShowSkipWaitingPrompt(t)
             \/ \E force \in BOOLEAN : Revalidate(t, force)
    BY <1>1, <2>1 DEF Registered, ShowSkipWaitingPrompt, Revalidate
  <2> QED
    BY <1>2, <1>3, <2>1 DEF Page
<1>4. ASSUME NEW t \in Tabs, HandsOver(t) PROVE WaitingPageIsGuarded'
  BY <1>0, <1>4 DEF HandsOver
<1>5. ASSUME NEW t \in Tabs, Operator(t) PROVE WaitingPageIsGuarded'
  BY <1>1, <1>4, <1>5
  DEF Operator, HandleReloadPage, HandleApplyUpdate, HandleDismissBanner
<1>6. ASSUME NEW t \in Tabs, ApplyTask(t) \/ Timeout(t)
      PROVE  UNCHANGED <<reloading, guard>>
  BY <1>6 DEF ApplyTask, Timeout, SkipWaitingPosted, NoWorkerToApply,
     SkipWaitingThrows, ApplyTaskEnds, UpdateTimeout, DeadmanTimeout
<1>7. ASSUME NEW t \in Tabs, Hears(t) PROVE UNCHANGED <<reloading, guard>>
  BY <1>7 DEF Hears, HearsStarted, HearsStalled, HearsCleared,
     HearsCoordination, HearsRecoveryClear
<1>8. ASSUME NEW t \in Tabs, PromptReloads(t), UNCHANGED guard
      PROVE  WaitingPageIsGuarded'
  BY <1>0, <1>8 DEF PromptReloads
<1>9. ASSUME NEW t \in Tabs, ControllerChange(t) PROVE WaitingPageIsGuarded'
  BY <1>4, <1>8, <1>9
  DEF ControllerChange, ChangeSuppressed, ChangePinsRecovery, ChangeHandsOver
<1>10. ASSUME NEW t \in Tabs, DatabaseReady(t) \/ Expires(t)
       PROVE  WaitingPageIsGuarded'
  BY <1>0, <1>10 DEF DatabaseReady, Expires, GuardExpires, WindowExpires
<1>11. CASE UNCHANGED vars \/ UpdateInstalled \/ WorkerActivates
  BY <1>1, <1>11 DEF vars, UpdateInstalled, WorkerActivates
<1> QED
  BY <1>1, <1>3, <1>5, <1>6, <1>7, <1>9, <1>10, <1>11 DEF Next

(***************************************************************************)
(* A step that records a reload, or begins to show the recovery prompt, in *)
(* a tab whose page goes on is a controllerchange that nothing suppressed. *)
(***************************************************************************)
LEMMA OnlyChangesRecord ==
    ASSUME TypeOK, [Next]_vars, NEW u \in Tabs, reloading'[u] # "none",
           count'[u] > count[u] \/ (ui'[u].recovery /\ ~ui[u].recovery)
    PROVE  ~guard[u]
<1>0. /\ count \in [Tabs -> 0..MaxReloads] /\ ui \in [Tabs -> Ui]
      /\ reloading \in [Tabs -> Reloads]
      /\ MaxReloads \in Nat
  BY MaxReloadsAssumption DEF TypeOK
<1> DEFINE Quiet == /\ ~(count'[u] > count[u])
                    /\ ui'[u].recovery => ui[u].recovery
<1>1. ~Quiet
  OBVIOUS
<1>2. \A v \in Tabs : count[v] \in Nat
  BY <1>0
<1>3. ASSUME NEW t \in Tabs, UNCHANGED count \/ count' = [count EXCEPT ![t] = 0],
             \/ UNCHANGED ui
             \/ \E b \in Ui : /\ ui' = [ui EXCEPT ![t] = b]
                              /\ ~b.recovery \/ b.recovery = ui[t].recovery
      PROVE  Quiet
  <2>1. count'[u] \in {count[u], 0}
    BY <1>0, <1>3
  <2>2. ui'[u].recovery => ui[u].recovery
    BY <1>0, <1>3
  <2> QED
    BY <1>2, <2>1, <2>2
<1> HIDE DEF Quiet
<1>4. /\ ~Blank.recovery /\ ~UpdateReady.recovery
      /\ \A b \in BOOLEAN : ~PinnedExternal(b).recovery
      /\ \A x \in Ui : ClearExternal(x).recovery = x.recovery
  BY DEF Blank, UpdateReady, PinnedExternal, ClearExternal, Ui
<1>5. /\ Blank \in Ui /\ UpdateReady \in Ui
      /\ \A b \in BOOLEAN : PinnedExternal(b) \in Ui
      /\ \A x \in Ui : ClearExternal(x) \in Ui
  BY BannerType
<1>6. ASSUME NEW t \in Tabs, PageLoads(t) \/ TabCloses(t) \/ TabOpens(t)
      PROVE  Quiet
  <2>1. /\ reloading'[t] = "none"
        /\ \A v \in Tabs \ {t} : ui'[v] = ui[v] /\ count'[v] = count[v]
    BY <1>0, <1>6 DEF PageLoads, TabCloses, TabOpens, FreshPage
  <2> QED
    BY <1>2, <2>1 DEF Quiet
<1>7. ASSUME NEW t \in Tabs, ShowSkipWaitingPrompt(t) PROVE Quiet
  <2> DEFINE b == [ui[t] EXCEPT !.needRefresh = TRUE]
  <2>1. ui' = [ui EXCEPT ![t] = b] /\ UNCHANGED count
    BY <1>7 DEF ShowSkipWaitingPrompt
  <2>2. b \in Ui /\ b.recovery = ui[t].recovery
    BY <1>0 DEF Ui
  <2> HIDE DEF b
  <2> QED
    BY <1>3, <2>1, <2>2
<1>8. ASSUME NEW t \in Tabs, Registered(t) PROVE Quiet
  BY <1>3, <1>8 DEF Registered
<1>9. ASSUME NEW t \in Tabs, NEW force \in BOOLEAN, Revalidate(t, force) PROVE Quiet
  BY <1>3, <1>4, <1>5, <1>9 DEF Revalidate
<1>10. ASSUME NEW t \in Tabs, HandleApplyUpdate(t) PROVE Quiet
  <2> DEFINE b == [UpdateReady EXCEPT !.applying = TRUE]
  <2>1. ui' = [ui EXCEPT ![t] = b] /\ UNCHANGED count
    BY <1>10 DEF HandleApplyUpdate
  <2>2. b \in Ui /\ ~b.recovery
    BY DEF UpdateReady, Blank, Ui
  <2> HIDE DEF b
  <2> QED
    BY <1>3, <2>1, <2>2
<1>11. ASSUME NEW t \in Tabs, HandleDismissBanner(t) \/ HandleReloadPage(t)
       PROVE  Quiet
  BY <1>3, <1>4, <1>5, <1>11 DEF HandleDismissBanner, HandleReloadPage, HandsOver
<1>12. ASSUME NEW t \in Tabs, Stalled(t), UNCHANGED count PROVE Quiet
  <2> DEFINE b == [ui[t] EXCEPT !.applying = FALSE, !.stalled = TRUE]
  <2>1. ui' = [ui EXCEPT ![t] = b]
    BY <1>0, <1>12 DEF Stalled
  <2>2. b \in Ui /\ b.recovery = ui[t].recovery
    BY <1>0 DEF Ui
  <2> HIDE DEF b
  <2> QED
    BY <1>3, <1>12, <2>1, <2>2
<1>13. ASSUME NEW t \in Tabs, ApplyTask(t) \/ UpdateTimeout(t) PROVE Quiet
  BY <1>3, <1>12, <1>13
  DEF ApplyTask, SkipWaitingPosted, NoWorkerToApply, SkipWaitingThrows,
      ApplyTaskEnds, UpdateTimeout
<1>14. ASSUME NEW t \in Tabs, DeadmanTimeout(t) PROVE Quiet
  <2>1. /\ ClearExternal(ui[t]) \in Ui
        /\ ClearExternal(ui[t]).recovery = ui[t].recovery
    BY <1>0, <1>4, <1>5
  <2> QED
    BY <1>3, <1>14, <2>1 DEF DeadmanTimeout
<1>15. ASSUME NEW t \in Tabs, HearsStarted(t) \/ HearsStalled(t) \/ HearsCleared(t)
       PROVE  Quiet
  <2>1. UNCHANGED count
    BY <1>15 DEF HearsStarted, HearsStalled, HearsCleared, HearsCoordination
  <2>2. PICK b \in {PinnedExternal(FALSE), PinnedExternal(TRUE),
                    ClearExternal(ui[t])} : ui' = [ui EXCEPT ![t] = b]
    BY <1>15 DEF HearsStarted, HearsStalled, HearsCleared
  <2>3. b \in Ui /\ (~b.recovery \/ b.recovery = ui[t].recovery)
    BY <1>0, <1>4, <1>5
  <2> QED
    BY <1>3, <2>1, <2>2, <2>3
<1>16. ASSUME NEW t \in Tabs, HearsRecoveryClear(t) PROVE Quiet
  <2>1. PICK b \in {Blank, ui[t]} : ui' = [ui EXCEPT ![t] = b]
    BY <1>16 DEF HearsRecoveryClear
  <2>2. b \in Ui /\ (~b.recovery \/ b.recovery = ui[t].recovery)
    BY <1>0, <1>4, <1>5
  <2> QED
    BY <1>3, <1>16, <2>1, <2>2 DEF HearsRecoveryClear
<1>17. ASSUME NEW t \in Tabs, ControllerChange(t) PROVE ~guard[u]
  <2>1. CASE ChangeSuppressed(t)
    BY <1>1, <1>3, <2>1 DEF ChangeSuppressed
  <2>2. CASE ~Suppressed(t) /\ t = u
    BY <2>2 DEF Suppressed
  <2>3. CASE (ChangePinsRecovery(t) \/ ChangeHandsOver(t)) /\ t # u
    <3>1. count'[u] = count[u] /\ ui'[u] = ui[u]
      BY <1>0, <2>3 DEF ChangePinsRecovery, ChangeHandsOver, HandsOver
    <3> QED
      BY <1>1, <1>2, <3>1 DEF Quiet
  <2> QED
    BY <1>17, <2>1, <2>2, <2>3
    DEF ControllerChange, ChangePinsRecovery, ChangeHandsOver
<1>18. ASSUME NEW t \in Tabs, DatabaseReady(t) \/ Expires(t) PROVE Quiet
  BY <1>3, <1>18 DEF DatabaseReady, Expires, GuardExpires,
      WindowExpires
<1>19. CASE UNCHANGED <<count, ui>>
  BY <1>1, <1>2, <1>19 DEF Quiet
<1>20. ASSUME NEW t \in Tabs, Page(t) \/ Operator(t) \/ Timeout(t) \/ Hears(t)
       PROVE  Quiet
  BY <1>6, <1>7, <1>8, <1>9, <1>10, <1>11, <1>13, <1>14, <1>15, <1>16, <1>20
  DEF Page, Operator, Timeout, Hears
<1> QED
  BY <1>1, <1>13, <1>17, <1>18, <1>19, <1>20
  DEF Next, vars, UpdateInstalled, WorkerActivates

(***************************************************************************)
(* A page that waits for the reload of its handoff with its database       *)
(* closed records no second one, although any number of other tabs reset   *)
(* its flag meanwhile.  It takes a stamp that the browser stores.          *)
(***************************************************************************)
THEOREM PageIsReloadedOnce ==
    ASSUME SessionStorage
    PROVE  Spec => OneReloadPerPage
<1>1. Init => WaitingPageIsGuarded
  BY DEF Init, WaitingPageIsGuarded
<1>2. TypeOK /\ WaitingPageIsGuarded /\ [Next]_vars => WaitingPageIsGuarded'
  BY GuardStep
<1>3. TypeOK /\ WaitingPageIsGuarded /\ [Next]_vars
          => [\A t \in Tabs : ~HandedOverTwice(t)]_vars
  BY OnlyChangesRecord DEF HandedOverTwice, WaitingPageIsGuarded
<1> QED
  BY <1>1, <1>2, <1>3, TypeCorrect, PTL DEF Spec, OneReloadPerPage
-------------------------------------------------------------------------------
(***************************************************************************)
(* controllerReloadInFlight is a flag of the module, not of the React      *)
(* state: handleReloadPage returns early and controllerchange is ignored   *)
(* while it is set, and the messages of other tabs reset it without        *)
(* looking.  It is only ever set in a page whose reload is due, so the     *)
(* recovery button of a page that stays is never dead because of it.       *)
(***************************************************************************)
FlagMeansReload ==
    \A t \in Tabs : inFlight[t] => reloading[t] \in {"hook", "reopened"}

(***************************************************************************)
(* The flag is set together with the request to reload, both go with the   *)
(* page, and the prompt's own listener leaves the hook's request alone.    *)
(***************************************************************************)
LEMMA FlagStep ==
    ASSUME TypeOK, FlagMeansReload, [Next]_vars
    PROVE  FlagMeansReload'
<1> USE DEF FlagMeansReload
<1>0. /\ reloading \in [Tabs -> Reloads]
      /\ inFlight \in [Tabs -> BOOLEAN]
  BY DEF TypeOK
<1>1. CASE UNCHANGED <<reloading, inFlight>>
  BY <1>1
<1>2. ASSUME NEW t \in Tabs, inFlight' = [inFlight EXCEPT ![t] = FALSE],
             UNCHANGED reloading
      PROVE  FlagMeansReload'
  BY <1>0, <1>2
<1>3. ASSUME NEW t \in Tabs, Page(t) PROVE FlagMeansReload'
  <2>1. CASE PageLoads(t) \/ TabCloses(t) \/ TabOpens(t)
    BY <1>0, <2>1 DEF PageLoads, TabCloses, TabOpens, FreshPage
  <2>2. CASE Registered(t) \/ ShowSkipWaitingPrompt(t)
             \/ \E force \in BOOLEAN : Revalidate(t, force)
    BY <1>1, <2>2 DEF Registered, ShowSkipWaitingPrompt, Revalidate
  <2> QED
    BY <1>3, <2>1, <2>2 DEF Page
<1>4. ASSUME NEW t \in Tabs, HandsOver(t) PROVE FlagMeansReload'
  BY <1>0, <1>4 DEF HandsOver
<1>5. ASSUME NEW t \in Tabs, Operator(t) PROVE FlagMeansReload'
  BY <1>1, <1>2, <1>4, <1>5
  DEF Operator, HandleReloadPage, HandleApplyUpdate, HandleDismissBanner
<1>6. ASSUME NEW t \in Tabs, ApplyTask(t) \/ Timeout(t)
      PROVE  UNCHANGED <<reloading, inFlight>>
  BY <1>6 DEF ApplyTask, Timeout, SkipWaitingPosted, NoWorkerToApply,
     SkipWaitingThrows, ApplyTaskEnds, UpdateTimeout, DeadmanTimeout
<1>7. ASSUME NEW t \in Tabs, Hears(t) PROVE FlagMeansReload'
  BY <1>2, <1>7 DEF Hears, HearsStarted, HearsStalled, HearsCleared,
     HearsCoordination, HearsRecoveryClear
<1>8. ASSUME NEW t \in Tabs, PromptReloads(t),
             UNCHANGED inFlight \/ inFlight' = [inFlight EXCEPT ![t] = FALSE]
      PROVE  FlagMeansReload'
  BY <1>0, <1>8 DEF PromptReloads
<1>9. ASSUME NEW t \in Tabs, ControllerChange(t) PROVE FlagMeansReload'
  BY <1>4, <1>8, <1>9
  DEF ControllerChange, ChangeSuppressed, ChangePinsRecovery, ChangeHandsOver
<1>10. CASE UNCHANGED vars \/ UpdateInstalled \/ WorkerActivates
            \/ \E t \in Tabs : Expires(t)
  BY <1>1, <1>10
  DEF vars, UpdateInstalled, WorkerActivates, Expires, GuardExpires, WindowExpires
<1>11. ASSUME NEW t \in Tabs, DatabaseReady(t) PROVE FlagMeansReload'
  BY <1>0, <1>11 DEF DatabaseReady
<1> QED
  BY <1>1, <1>3, <1>5, <1>6, <1>7, <1>9, <1>10, <1>11 DEF Next

(***************************************************************************)
(* The flag of controllerReloadInFlight never outlives the reload it       *)
(* stands for, for any number of tabs and messages.                        *)
(***************************************************************************)
THEOREM FlagIsNeverStuck == Spec => []FlagMeansReload
<1>1. Init => FlagMeansReload
  BY DEF Init, FlagMeansReload
<1>2. TypeOK /\ FlagMeansReload /\ [Next]_vars => FlagMeansReload'
  BY FlagStep
<1> QED
  BY <1>1, <1>2, TypeCorrect, PTL DEF Spec

(***************************************************************************)
(* "Applying" has no button either: its way out is the timeout of its own  *)
(* apply.  A tab begins to show it with that timer running, and the timer  *)
(* is lost under it in one way only: another tab says that a handoff is    *)
(* over, on either channel, which stops the timer and leaves the banner.   *)
(***************************************************************************)
ApplyLosesTimeout(t) == /\ ui'[t].applying /\ "update" \notin timers'[t]
                        /\ ~ui[t].applying \/ "update" \in timers[t]
HearsHandoffEnd(t) ==
    \/ recover[t] /\ ~recover'[t]
    \/ coord[t] # <<>> /\ Head(coord[t]) = "cleared" /\ coord'[t] = Tail(coord[t])
TimeoutIsLostToPeersOnly ==
    [][\A t \in Tabs : ApplyLosesTimeout(t) => HearsHandoffEnd(t)]_vars

(***************************************************************************)
(* Every step but the two of those messages leaves an applying banner its  *)
(* timer, begins one with it, or takes the banner away.                    *)
(***************************************************************************)
LEMMA TimeoutStep ==
    ASSUME TypeOK, [Next]_vars, NEW u \in Tabs, ApplyLosesTimeout(u)
    PROVE  HearsHandoffEnd(u)
<1>0. /\ ui \in [Tabs -> Ui]
      /\ timers \in [Tabs -> SUBSET {"update", "deadman"}]
      /\ coord \in [Tabs -> Seq(Messages)] /\ recover \in [Tabs -> BOOLEAN]
  BY DEF TypeOK
<1> DEFINE Keeps == \/ ~ui'[u].applying
                    \/ "update" \in timers'[u]
                    \/ ui[u].applying /\ "update" \notin timers[u]
<1>1. ~Keeps
  BY DEF ApplyLosesTimeout
<1>2. ASSUME NEW t \in Tabs, \E b : ui' = [ui EXCEPT ![t] = b] /\ ~b.applying,
             \E S : timers' = [timers EXCEPT ![t] = S]
      PROVE  Keeps
  <2>1. CASE u = t
    BY <1>0, <1>2, <2>1
  <2>2. CASE u # t
    <3>1. ui'[u] = ui[u] /\ timers'[u] = timers[u]
      BY <1>0, <1>2, <2>2
    <3> QED
      BY <3>1
  <2> QED
    BY <2>1, <2>2
<1>3. ASSUME NEW t \in Tabs,
             ui'[u].applying = ui[u].applying,
             UNCHANGED timers \/ timers' = [timers EXCEPT ![t] = @ \ {"deadman"}]
      PROVE  Keeps
  BY <1>0, <1>3
<1> HIDE DEF Keeps
<1>4. ASSUME NEW t \in Tabs, PageLoads(t) \/ TabCloses(t) \/ TabOpens(t)
      PROVE  Keeps
  <2>1. ~ui'[t].applying
    BY <1>4, FreshFacts, MaxReloadsAssumption
    DEF PageLoads, TabCloses, TabOpens, TypeOK
  <2>2. \A v \in Tabs \ {t} : ui'[v] = ui[v] /\ timers'[v] = timers[v]
    BY <1>0, <1>4 DEF PageLoads, TabCloses, TabOpens, FreshPage
  <2> QED
    BY <2>1, <2>2 DEF Keeps
<1>5. ASSUME NEW t \in Tabs, Registered(t) PROVE Keeps
  BY <1>3, <1>5 DEF Registered
<1>6. ASSUME NEW t \in Tabs, ShowSkipWaitingPrompt(t) PROVE Keeps
  <2>1. ui'[u].applying = ui[u].applying
    BY <1>0, <1>6 DEF ShowSkipWaitingPrompt, Ui
  <2> QED
    BY <1>3, <1>6, <2>1 DEF ShowSkipWaitingPrompt
<1>7. ASSUME NEW t \in Tabs, NEW force \in BOOLEAN, Revalidate(t, force) PROVE Keeps
  BY <1>2, <1>7, BannerFacts DEF Revalidate
<1>8. ASSUME NEW t \in Tabs, HandleApplyUpdate(t) PROVE Keeps
  <2>1. CASE u = t
    BY <1>0, <1>8, <2>1 DEF HandleApplyUpdate, Keeps
  <2>2. CASE u # t
    <3>1. ui'[u] = ui[u] /\ timers'[u] = timers[u]
      BY <1>0, <1>8, <2>2 DEF HandleApplyUpdate
    <3> QED
      BY <3>1 DEF Keeps
  <2> QED
    BY <2>1, <2>2
<1>9. ASSUME NEW t \in Tabs, HandsOver(t) PROVE Keeps
  BY <1>2, <1>9, BannerFacts DEF HandsOver
<1>10. ASSUME NEW t \in Tabs, HandleDismissBanner(t) \/ HandleReloadPage(t)
       PROVE  Keeps
  BY <1>2, <1>9, <1>10, BannerFacts DEF HandleDismissBanner, HandleReloadPage
<1>11. ASSUME NEW t \in Tabs, Stalled(t) PROVE Keeps
  <2>1. ui' = [ui EXCEPT ![t] = [ui[t] EXCEPT !.applying = FALSE, !.stalled = TRUE]]
    BY <1>0, <1>11 DEF Stalled
  <2>2. ~[ui[t] EXCEPT !.applying = FALSE, !.stalled = TRUE].applying
    BY <1>0, BannerFacts
  <2> QED
    BY <1>2, <1>11, <2>1, <2>2 DEF Stalled
<1>12. ASSUME NEW t \in Tabs, ApplyTask(t) \/ UpdateTimeout(t) PROVE Keeps
  <2>1. CASE SkipWaitingPosted(t) \/ NoWorkerToApply(t)
    BY <1>3, <2>1 DEF SkipWaitingPosted, NoWorkerToApply
  <2> QED
    BY <1>11, <1>12, <2>1 DEF ApplyTask, SkipWaitingThrows, UpdateTimeout
<1>13. ASSUME NEW t \in Tabs, DeadmanTimeout(t) PROVE Keeps
  <2>1. ui'[u].applying = ui[u].applying
    BY <1>0, <1>13, BannerFacts DEF DeadmanTimeout
  <2> QED
    BY <1>3, <1>13, <2>1 DEF DeadmanTimeout
<1>14. ASSUME NEW t \in Tabs, HearsStarted(t) \/ HearsStalled(t) PROVE Keeps
  BY <1>2, <1>14, BannerFacts DEF HearsStarted, HearsStalled
<1>15. ASSUME NEW t \in Tabs, HearsCleared(t) \/ HearsRecoveryClear(t)
       PROVE  HearsHandoffEnd(u)
  <2>1. CASE u = t
    BY <1>0, <1>15, <2>1
    DEF HearsCleared, HearsCoordination, HearsRecoveryClear, HearsHandoffEnd
  <2>2. CASE u # t
    <3>1. ui'[u] = ui[u] /\ timers'[u] = timers[u]
      BY <1>0, <1>15, <2>2 DEF HearsCleared, HearsRecoveryClear
    <3> QED
      BY <1>1, <3>1 DEF Keeps
  <2> QED
    BY <2>1, <2>2
<1>16. ASSUME NEW t \in Tabs, ControllerChange(t) PROVE Keeps
  <2>1. CASE ChangeSuppressed(t)
    BY <1>3, <2>1 DEF ChangeSuppressed
  <2>2. CASE ChangePinsRecovery(t)
    BY <1>2, <2>2, BannerFacts DEF ChangePinsRecovery
  <2> QED
    BY <1>9, <1>16, <2>1, <2>2 DEF ControllerChange, ChangeHandsOver
<1>17. CASE UNCHANGED vars \/ UpdateInstalled \/ WorkerActivates
            \/ \E t \in Tabs : DatabaseReady(t) \/ Expires(t)
  <2>1. UNCHANGED <<ui, timers>>
    BY <1>17
    DEF vars, UpdateInstalled, WorkerActivates, DatabaseReady, Expires, GuardExpires,
      WindowExpires
  <2> QED
    BY <1>1, <2>1 DEF Keeps
<1>18. ASSUME NEW t \in Tabs, Page(t) \/ Operator(t) PROVE Keeps
  BY <1>4, <1>5, <1>6, <1>7, <1>8, <1>10, <1>18 DEF Page, Operator
<1>19. ASSUME NEW t \in Tabs, Hears(t) PROVE Keeps \/ HearsHandoffEnd(u)
  BY <1>14, <1>15, <1>19 DEF Hears
<1> QED
  BY <1>1, <1>12, <1>13, <1>16, <1>17, <1>18, <1>19 DEF Next, Timeout

(***************************************************************************)
(* The messages HANDOFF_CLEARED and of a cleared recovery stop the timeout *)
(* of an apply that is not theirs (usePwaUpdate.ts); nothing else does.    *)
(***************************************************************************)
THEOREM ApplyKeepsItsTimeout == Spec => TimeoutIsLostToPeersOnly
<1>1. TypeOK /\ [Next]_vars
          => [\A t \in Tabs : ApplyLosesTimeout(t) => HearsHandoffEnd(t)]_vars
  BY TimeoutStep
<1> QED
  BY <1>1, TypeCorrect, PTL DEF Spec, TimeoutIsLostToPeersOnly
===============================================================================
