------------------------------ MODULE StorageHealth ------------------------------
(***************************************************************************)
(* Storage diagnostics, the requests for persistent storage, the health    *)
(* the page shows and the backup prompt derived from it: lib/storage.ts,   *)
(* useStorageHealth.ts, StorageHealthIndicator.tsx and                     *)
(* backupActionPrompt.ts in one page.                                      *)
(*                                                                         *)
(* Every change of the diagnostics, the foreground, an interval, the first *)
(* check-in, an import and the operator start refreshes that overlap; each *)
(* awaits the browser up to three times and then overwrites what is shown. *)
(* The diagnostics come from the database layer (DbConnection) and from    *)
(* the read-back of check-ins (UndoImport), which are the environment here.*)
(***************************************************************************)
EXTENDS Naturals

CONSTANTS
    Platforms,       \* browsers the page may run in
    Slots,           \* refreshes that may be in progress at once
    LocalStorage,    \* localStorage takes what is written to it
    PersistedFails   \* navigator.storage.persisted() may reject

\* "bare": without navigator.storage.
ASSUME PlatformAssumption == Platforms \subseteq {"ios", "macSafari", "other", "bare"}
ASSUME BrowserAssumption == {LocalStorage, PersistedFails} \subseteq BOOLEAN

VARIABLES
    platform,      \* where the page runs
    standalone,    \* display mode
    granted,       \* the browser made the storage persistent
    attempt,       \* mode of the attempt recorded in localStorage
    cooling,       \* that attempt is less than a minute old
    diagnostics,   \* storageDiagnosticsState
    refresh,       \* refresh[s]: the getStorageHealth call in slot s
    requesting,    \* requestInFlightRef
    buttonCooling, \* cooldown of the indicator's button
    shown,         \* storageHealth of the hook
    backup,        \* lastBackupAt: none, or its age
    prompt,        \* the memoised backupActionPrompt
    asked          \* history: persist() calls that no operator asked for since
                   \* the display mode last changed

vars == <<platform, standalone, granted, attempt, cooling, diagnostics, refresh,
          requesting, buttonCooling, shown, backup, prompt, asked>>

-------------------------------------------------------------------------------
\* "failed" stands for mismatch and failed, "verified" also for unknown.
Diagnostics == [reconnect : {"steady", "recovering", "failed"},
                verification : {"verified", "failed"}]

\* A refresh awaits persisted(), then persist() if it asks, then estimate().
Refresh == [kind : {"plain", "automatic", "manual"},
            awaits : {"persisted", "persist", "estimate"}, found : BOOLEAN]
Idle == [kind |-> "none"]
Begun(kind) == [kind |-> kind, awaits |-> "persisted", found |-> FALSE]

Modes == {"browser", "standalone"}
Mode == IF standalone THEN "standalone" ELSE "browser"

NoHealth == [status |-> "none"]
Health == [persisted : BOOLEAN, diagnostics : Diagnostics, mode : Modes,
           status : {"protected", "monitor", "warning", "unavailable"}]
Prompts == {"none", "confirm", "safari", "no-backup"}

TypeOK ==
    /\ platform \in Platforms
    /\ standalone \in BOOLEAN /\ granted \in BOOLEAN
    /\ attempt \in {"none"} \cup Modes /\ cooling \in BOOLEAN
    /\ diagnostics \in Diagnostics
    /\ refresh \in [Slots -> {Idle} \cup Refresh]
    /\ requesting \in BOOLEAN /\ buttonCooling \in BOOLEAN
    /\ shown \in {NoHealth} \cup Health
    /\ backup \in {"none", "recent", "old"}
    /\ prompt \in Prompts
    /\ asked \in Nat

-------------------------------------------------------------------------------
(* Classification.                                                           *)

WebKitRisk(mode) == platform = "macSafari" \/ (platform = "ios" /\ mode = "browser")

NeedsAttention(d) == d.reconnect = "failed" \/ d.verification = "failed"

\* createStorageHealth: the order of its tests, with the override of an ongoing
\* recovery.  full: four fifths of the quota are used, as far as it is known.
Status(persisted, d, mode, full) ==
    IF NeedsAttention(d) THEN "warning"
    ELSE IF ~persisted /\ (WebKitRisk(mode) \/ (platform = "other" /\ full))
    THEN "warning"
    ELSE IF d.reconnect = "recovering" THEN "monitor"
    ELSE IF persisted THEN "protected"
    ELSE IF platform = "bare" THEN "unavailable"
    ELSE "monitor"

HealthNow(persisted, full) ==
    [persisted |-> persisted, diagnostics |-> diagnostics, mode |-> Mode,
     status |-> Status(persisted, diagnostics, Mode, full)]

\* createBackupActionPrompt, for the health h and the backup b.
BackupPrompt(h, b) ==
    CASE h = NoHealth -> "none"
      [] h # NoHealth /\ (h.diagnostics.reconnect # "steady"
                          \/ h.diagnostics.verification = "failed") -> "confirm"
      [] OTHER ->
           IF WebKitRisk(h.mode) /\ h.mode = "browser" /\ b # "recent" THEN "safari"
           ELSE IF h.status \in {"warning", "unavailable"} /\ b = "none"
           THEN "no-backup" ELSE "none"

-------------------------------------------------------------------------------
\* The hook refreshes once when the page has rendered.
Init ==
    /\ platform \in Platforms /\ standalone \in BOOLEAN
    /\ granted \in BOOLEAN /\ attempt \in {"none"} \cup Modes /\ cooling = FALSE
    /\ platform = "bare" => ~granted /\ attempt = "none"
    /\ ~LocalStorage => attempt = "none"
    /\ diagnostics = [reconnect |-> "steady", verification |-> "verified"]
    /\ \E s \in Slots : refresh = [z \in Slots |-> IF z = s THEN Begun("plain") ELSE Idle]
    /\ requesting = FALSE /\ buttonCooling = FALSE
    /\ shown = NoHealth /\ backup \in {"none", "recent", "old"} /\ prompt = "none"
    /\ asked = 0

StartRefresh(kind) ==
    \E s \in Slots : /\ refresh[s] = Idle
                     /\ refresh' = [refresh EXCEPT ![s] = Begun(kind)]

\* Mutant: nobody listens to the diagnostics.
EmitUnheard(d) == diagnostics' = d /\ UNCHANGED refresh

\* updateStorageDiagnosticsState: the hook hears of every change and refreshes.
Emit(d) == diagnostics' = d /\ StartRefresh("plain")

DiagnosticsChange ==
    /\ \/ \E r \in {"steady", "recovering", "failed"} : Emit([diagnostics EXCEPT !.reconnect = r])
       \/ \E v \in {"verified", "failed"} : Emit([diagnostics EXCEPT !.verification = v])
    /\ UNCHANGED <<platform, standalone, granted, attempt, cooling, requesting,
                   buttonCooling, shown, backup, prompt, asked>>

\* Focus, visibility or the interval of five minutes.
Foreground ==
    /\ StartRefresh("plain")
    /\ UNCHANGED <<platform, standalone, granted, attempt, cooling, diagnostics,
                   requesting, buttonCooling, shown, backup, prompt, asked>>

\* The first check-in of the page, and every committed import.
ReinforceDurability ==
    /\ StartRefresh("automatic")
    /\ UNCHANGED <<platform, standalone, granted, attempt, cooling, diagnostics,
                   requesting, buttonCooling, shown, backup, prompt, asked>>

\* Installing moves the page into a window of its own, or back.
DisplayModeChanges ==
    /\ standalone' = ~standalone
    /\ StartRefresh("plain")
    /\ asked' = 0
    /\ UNCHANGED <<platform, granted, attempt, cooling, diagnostics, requesting,
                   buttonCooling, shown, backup, prompt>>

\* The button of the indicator.
RequestStorageProtection ==
    /\ shown # NoHealth /\ ~shown.persisted /\ platform # "bare"
    /\ ~requesting /\ ~buttonCooling
    /\ requesting' = TRUE
    /\ StartRefresh("manual")
    /\ UNCHANGED <<platform, standalone, granted, attempt, cooling, diagnostics,
                   buttonCooling, shown, backup, prompt, asked>>

-------------------------------------------------------------------------------
(* The awaits of getStorageHealth.                                           *)

MayAsk(kind) ==
    \/ kind = "automatic" /\ attempt # Mode
    \/ kind = "manual" /\ (attempt # Mode \/ ~cooling)

\* Mutant: the attempt is recorded when the browser has answered.
PersistedAnswersUnrecorded(s) ==
    LET asks == ~granted /\ MayAsk(refresh[s].kind) IN
    /\ refresh[s] # Idle /\ refresh[s].awaits = "persisted"
    /\ refresh' = [refresh EXCEPT ![s].awaits = IF asks THEN "persist" ELSE "estimate",
                                  ![s].found = granted]
    /\ asked' = IF asks /\ refresh[s].kind = "automatic" THEN asked + 1 ELSE asked
    /\ UNCHANGED <<platform, standalone, granted, attempt, cooling, diagnostics,
                   requesting, buttonCooling, shown, backup, prompt>>

\* isPersistentStorageGranted: a rejection counts as no.
Persisted == {granted} \cup {f \in {FALSE} : PersistedFails}

PersistedAnswers(s) ==
    /\ refresh[s] # Idle /\ refresh[s].awaits = "persisted"
    /\ \E found \in Persisted :
           /\ found \/ ~MayAsk(refresh[s].kind)
           /\ refresh' = [refresh EXCEPT ![s].awaits = "estimate", ![s].found = found]
    /\ UNCHANGED <<platform, standalone, granted, attempt, cooling, diagnostics,
                   requesting, buttonCooling, shown, backup, prompt, asked>>

\* Without a storage manager nothing is recorded, but the hook is told.
NobodyToAsk(s) ==
    /\ refresh[s] # Idle /\ refresh[s].awaits = "persisted"
    /\ platform = "bare" /\ MayAsk(refresh[s].kind)
    /\ \E z \in Slots \ {s} :
           /\ refresh[z] = Idle
           /\ refresh' = [refresh EXCEPT ![s].awaits = "estimate", ![z] = Begun("plain")]
    /\ UNCHANGED <<platform, standalone, granted, attempt, cooling, diagnostics,
                   requesting, buttonCooling, shown, backup, prompt, asked>>

\* requestPersistentStorage records the attempt, if localStorage lets it, and tells
\* the hook, which starts a refresh of its own, before it awaits the browser.
AskForPersistence(s) ==
    /\ refresh[s] # Idle /\ refresh[s].awaits = "persisted"
    /\ FALSE \in Persisted /\ MayAsk(refresh[s].kind) /\ platform # "bare"
    /\ attempt' = IF LocalStorage THEN Mode ELSE attempt
    /\ cooling' = (cooling \/ LocalStorage)
    /\ \E z \in Slots \ {s} :
           /\ refresh[z] = Idle
           /\ refresh' = [refresh EXCEPT ![s].awaits = "persist", ![z] = Begun("plain")]
    /\ asked' = IF refresh[s].kind = "automatic" THEN asked + 1 ELSE asked
    /\ UNCHANGED <<platform, standalone, granted, diagnostics, requesting,
                   buttonCooling, shown, backup, prompt>>

\* A refusal is followed by another persisted(), folded into this step.
PersistAnswers(s) ==
    /\ refresh[s] # Idle /\ refresh[s].awaits = "persist"
    /\ \E yes \in BOOLEAN : \E found \in IF yes THEN {TRUE} ELSE Persisted :
           /\ granted' = (granted \/ yes)
           /\ refresh' = [refresh EXCEPT ![s].awaits = "estimate", ![s].found = found]
    /\ UNCHANGED <<platform, standalone, attempt, cooling, diagnostics, requesting,
                   buttonCooling, shown, backup, prompt, asked>>

\* Mutant: the protection is looked up for the first health only.
EstimateAnswersOnce(s) ==
    /\ refresh[s] # Idle /\ refresh[s].awaits = "estimate"
    /\ \E full \in BOOLEAN :
           shown' = HealthNow(IF shown = NoHealth THEN refresh[s].found
                              ELSE shown.persisted, full)
    /\ prompt' = BackupPrompt(shown', backup)
    /\ refresh' = [refresh EXCEPT ![s] = Idle]
    /\ requesting' = (requesting /\ refresh[s].kind # "manual")
    /\ UNCHANGED <<platform, standalone, granted, attempt, cooling, diagnostics,
                   buttonCooling, backup, asked>>

\* The diagnostics are read now, the protection was read earlier.  Then the hook
\* shows the health and the button learns whether its request was denied.
EstimateAnswers(s) ==
    /\ refresh[s] # Idle /\ refresh[s].awaits = "estimate"
    /\ \E full \in BOOLEAN :
           shown' = HealthNow(refresh[s].found, full)
    /\ prompt' = BackupPrompt(shown', backup)
    /\ refresh' = [refresh EXCEPT ![s] = Idle]
    /\ requesting' = (requesting /\ refresh[s].kind # "manual")
    /\ buttonCooling' = (buttonCooling \/ (refresh[s].kind = "manual" /\ ~refresh[s].found))
    /\ UNCHANGED <<platform, standalone, granted, attempt, cooling, diagnostics,
                   backup, asked>>

-------------------------------------------------------------------------------
\* The two cooldowns of a minute have clocks of their own.
CooldownEnds ==
    /\ \/ cooling /\ cooling' = FALSE /\ UNCHANGED buttonCooling
       \/ buttonCooling /\ buttonCooling' = FALSE /\ UNCHANGED cooling
    /\ UNCHANGED <<platform, standalone, granted, attempt, diagnostics, refresh,
                   requesting, shown, backup, prompt, asked>>

\* markBackupCompleted; the prompt is computed anew.
BackupCompleted ==
    /\ backup' = "recent"
    /\ prompt' = BackupPrompt(shown, "recent")
    /\ UNCHANGED <<platform, standalone, granted, attempt, cooling, diagnostics,
                   refresh, requesting, buttonCooling, shown, asked>>

\* Six days; the memo of the prompt does not notice.
BackupAges ==
    /\ backup = "recent" /\ backup' = "old"
    /\ UNCHANGED <<platform, standalone, granted, attempt, cooling, diagnostics,
                   refresh, requesting, buttonCooling, shown, prompt, asked>>

RefreshStep(s) ==
    \/ PersistedAnswers(s) \/ NobodyToAsk(s) \/ AskForPersistence(s)
    \/ PersistAnswers(s) \/ EstimateAnswers(s)

Next ==
    \/ DiagnosticsChange \/ Foreground \/ ReinforceDurability \/ DisplayModeChanges
    \/ RequestStorageProtection \/ CooldownEnds \/ BackupCompleted \/ BackupAges
    \/ \E s \in Slots : RefreshStep(s)

Spec == Init /\ [][Next]_vars

\* The browser answers, and the interval goes on.
Fairness == WF_vars(Foreground) /\ \A s \in Slots : WF_vars(RefreshStep(s))
FairSpec == Spec /\ Fairness

-------------------------------------------------------------------------------
(* Properties.                                                               *)

Quiet == \A s \in Slots : refresh[s] = Idle

(***************************************************************************)
(* However refreshes overtake each other, when none is left the page shows *)
(* the diagnostics as they are, and a failed reconnection or read-back is  *)
(* a warning with a prompt to back up, never "protected".                  *)
(***************************************************************************)
TroubleIsShown ==
    Quiet => /\ shown # NoHealth /\ shown.diagnostics = diagnostics
             /\ NeedsAttention(diagnostics) =>
                    shown.status = "warning" /\ prompt = "confirm"

(***************************************************************************)
(* Without the operator the browser is asked for persistence at most once  *)
(* per display mode, although a first check-in and imports start requests  *)
(* that overlap.                                                           *)
(***************************************************************************)
AutomaticRequestOnce == asked <= 1

(***************************************************************************)
(* A protection the browser granted is in the end shown for good, although *)
(* a refresh that began before may overwrite it for a while.               *)
(***************************************************************************)
ProtectionIsShown ==
    <>[]granted => <>[](shown # NoHealth /\ shown.persisted)
===============================================================================
