-------------------------- MODULE StorageHealth_proofs --------------------------
(***************************************************************************)
(* Theorems about StorageHealth, on every platform and for any number of   *)
(* overlapping refreshes: what is shown when none is left, that no         *)
(* protection is claimed that was not given nor a given one hidden for     *)
(* long, and how often the browser is asked for persistence.               *)
(***************************************************************************)
EXTENDS StorageHealth, TLAPS

(***************************************************************************)
(* The health that a refresh shows is one, and a prompt is one.            *)
(***************************************************************************)
LEMMA HealthType ==
    ASSUME TypeOK, NEW persisted \in BOOLEAN, NEW full \in BOOLEAN
    PROVE  /\ HealthNow(persisted, full) \in Health
           /\ HealthNow(persisted, full) # NoHealth
           /\ HealthNow(persisted, full).diagnostics = diagnostics
           /\ NeedsAttention(diagnostics) =>
                  HealthNow(persisted, full).status = "warning"
<1>1. Status(persisted, diagnostics, Mode, full)
          \in {"protected", "monitor", "warning", "unavailable"}
  BY DEF Status
<1>2. Mode \in Modes /\ diagnostics \in Diagnostics
  BY DEF Mode, Modes, TypeOK
<1>3. NeedsAttention(diagnostics) =>
          Status(persisted, diagnostics, Mode, full) = "warning"
  BY DEF Status
<1> DEFINE st == Status(persisted, diagnostics, Mode, full)
           h == [persisted |-> persisted, diagnostics |-> diagnostics,
                 mode |-> Mode, status |-> st]
<1>4. HealthNow(persisted, full) = h
  BY DEF HealthNow
<1> HIDE DEF st
<1>5. h \in Health
  BY <1>1, <1>2 DEF Health, st
<1>6. h.status \in {"protected", "monitor", "warning", "unavailable"}
  BY <1>5 DEF Health
<1>7. h # NoHealth
  BY <1>6 DEF NoHealth
<1>8. NeedsAttention(diagnostics) => h.status = "warning"
  BY <1>3 DEF st
<1> HIDE DEF h
<1> QED
  BY <1>4, <1>5, <1>7, <1>8 DEF h

(***************************************************************************)
(* Whatever the health and the age of the backup, the prompt is one of the *)
(* four the panel knows.                                                   *)
(***************************************************************************)
LEMMA PromptType == ASSUME NEW h, NEW b PROVE BackupPrompt(h, b) \in Prompts
<1>1. CASE h = NoHealth
  BY <1>1 DEF BackupPrompt, Prompts
<1>2. CASE h # NoHealth /\ (h.diagnostics.reconnect # "steady"
                            \/ h.diagnostics.verification = "failed")
  BY <1>2 DEF BackupPrompt, Prompts
<1>3. CASE ~(h = NoHealth) /\ ~(h # NoHealth /\ (h.diagnostics.reconnect # "steady"
                            \/ h.diagnostics.verification = "failed"))
  BY <1>3 DEF BackupPrompt, Prompts
<1> QED
  BY <1>1, <1>2, <1>3

(***************************************************************************)
(* Trouble asks for a backup, whatever backups there are.                  *)
(***************************************************************************)
LEMMA TroublePrompts ==
    ASSUME NEW h, NEW b, h # NoHealth, h.diagnostics \in Diagnostics,
           NeedsAttention(h.diagnostics)
    PROVE  BackupPrompt(h, b) = "confirm"
<1>1. h.diagnostics.reconnect # "steady" \/ h.diagnostics.verification = "failed"
  BY DEF NeedsAttention
<1> QED
  BY <1>1 DEF BackupPrompt

(***************************************************************************)
(* A refresh that begins takes an idle slot and no other.                  *)
(***************************************************************************)
LEMMA StartFacts ==
    ASSUME refresh \in [Slots -> {Idle} \cup Refresh],
           NEW kind \in {"plain", "automatic", "manual"}, StartRefresh(kind)
    PROVE  refresh' \in [Slots -> {Idle} \cup Refresh] /\ ~Quiet'
<1>1. PICK s \in Slots : refresh' = [refresh EXCEPT ![s] = Begun(kind)]
  BY DEF StartRefresh
<1>2. Begun(kind) \in Refresh /\ Begun(kind) # Idle
  BY DEF Begun, Refresh, Idle
<1> QED
  BY <1>1, <1>2 DEF Quiet

(***************************************************************************)
(* The steps of a refresh keep the slots' types; all but the last leave    *)
(* the refresh in progress.                                                *)
(***************************************************************************)
LEMMA RefreshFacts ==
    ASSUME TypeOK, NEW s \in Slots, RefreshStep(s)
    PROVE  /\ refresh' \in [Slots -> {Idle} \cup Refresh]
           /\ refresh[s] \in Refresh /\ refresh[s].found \in BOOLEAN
           /\ ~EstimateAnswers(s) => ~Quiet'
<1>0. refresh \in [Slots -> {Idle} \cup Refresh] /\ granted \in BOOLEAN
  BY DEF TypeOK
<1>1. refresh[s] \in Refresh
  BY <1>0 DEF RefreshStep, PersistedAnswers, NobodyToAsk, AskForPersistence,
     PersistAnswers, EstimateAnswers
<1>2. refresh[s].found \in BOOLEAN
  BY <1>1 DEF Refresh
<1>3. ASSUME NEW a \in {"persist", "estimate"}, NEW f \in BOOLEAN
      PROVE  /\ [refresh[s] EXCEPT !.awaits = a, !.found = f] \in Refresh
             /\ [refresh[s] EXCEPT !.awaits = a, !.found = f] # Idle
             /\ [refresh[s] EXCEPT !.awaits = a] \in Refresh
             /\ [refresh[s] EXCEPT !.awaits = a] # Idle
  <2>1. Refresh = [kind : {"plain", "automatic", "manual"},
                   awaits : {"persisted", "persist", "estimate"}, found : BOOLEAN]
    BY DEF Refresh
  <2>2. \A r \in Refresh : r # Idle
    BY DEF Refresh, Idle
  <2> QED
    BY <1>1, <2>1, <2>2
<1>4. ASSUME NEW r \in Refresh, refresh' = [refresh EXCEPT ![s] = r]
      PROVE  refresh' \in [Slots -> {Idle} \cup Refresh] /\ ~Quiet'
  BY <1>0, <1>4 DEF Quiet, Refresh, Idle
<1>5. CASE PersistedAnswers(s)
  <2>1. PICK found \in BOOLEAN : refresh' = [refresh EXCEPT ![s] =
            [refresh[s] EXCEPT !.awaits = "estimate", !.found = found]]
    BY <1>0, <1>5 DEF PersistedAnswers, Persisted
  <2> QED
    BY <1>0, <1>1, <1>2, <1>3, <1>4, <2>1
<1>6. CASE NobodyToAsk(s) \/ AskForPersistence(s)
  <2>1. PICK a \in {"persist", "estimate"}, z \in Slots \ {s} :
            refresh' = [refresh EXCEPT ![s].awaits = a, ![z] = Begun("plain")]
    BY <1>6 DEF NobodyToAsk, AskForPersistence
  <2>2. Begun("plain") \in Refresh
    BY DEF Begun, Refresh
  <2>3. refresh' = [[refresh EXCEPT ![s] = [refresh[s] EXCEPT !.awaits = a]]
                        EXCEPT ![z] = Begun("plain")]
    BY <1>0, <2>1
  <2>4. /\ refresh' \in [Slots -> {Idle} \cup Refresh]
        /\ refresh'[s] = [refresh[s] EXCEPT !.awaits = a]
    BY <1>0, <1>2, <1>3, <2>2, <2>3
  <2> QED
    BY <1>1, <1>2, <1>3, <1>6, <2>4 DEF Quiet
<1>7. CASE PersistAnswers(s)
  <2>1. PICK found \in BOOLEAN : refresh' = [refresh EXCEPT ![s] =
            [refresh[s] EXCEPT !.awaits = "estimate", !.found = found]]
    BY <1>0, <1>7 DEF PersistAnswers, Persisted
  <2> QED
    BY <1>0, <1>1, <1>2, <1>3, <1>4, <2>1
<1>8. CASE EstimateAnswers(s)
  BY <1>0, <1>1, <1>2, <1>8 DEF EstimateAnswers
<1> QED
  BY <1>1, <1>2, <1>5, <1>6, <1>7, <1>8 DEF RefreshStep

(***************************************************************************)
(* Every step keeps the types.                                             *)
(***************************************************************************)
LEMMA TypeStep ==
    ASSUME TypeOK, [Next]_vars
    PROVE  TypeOK'
<1>1. CASE DiagnosticsChange
  <2>1. diagnostics' \in Diagnostics
    BY <1>1 DEF DiagnosticsChange, Emit, Diagnostics, TypeOK
  <2>2. StartRefresh("plain")
    BY <1>1 DEF DiagnosticsChange, Emit
  <2> QED
    BY <1>1, <2>1, <2>2, StartFacts DEF DiagnosticsChange, TypeOK
<1>2. CASE Foreground
  BY <1>2, StartFacts DEF Foreground, TypeOK
<1>3. CASE ReinforceDurability
  BY <1>3, StartFacts DEF ReinforceDurability, TypeOK
<1>4. CASE DisplayModeChanges
  BY <1>4, StartFacts DEF DisplayModeChanges, TypeOK
<1>5. CASE RequestStorageProtection
  BY <1>5, StartFacts DEF RequestStorageProtection, TypeOK
<1>6. CASE CooldownEnds \/ BackupAges
  BY <1>6 DEF CooldownEnds, BackupAges, TypeOK
<1>7. CASE BackupCompleted
  BY <1>7, PromptType DEF BackupCompleted, TypeOK
<1>8. ASSUME NEW s \in Slots, RefreshStep(s) PROVE TypeOK'
  <2>1. refresh' \in [Slots -> {Idle} \cup Refresh] /\ refresh[s].found \in BOOLEAN
    BY <1>8, RefreshFacts
  <2>2. CASE PersistedAnswers(s) \/ NobodyToAsk(s)
    BY <2>1, <2>2 DEF PersistedAnswers, NobodyToAsk, TypeOK
  <2>3. CASE AskForPersistence(s)
    <3>1. asked' \in Nat /\ attempt' \in {"none"} \cup Modes
          /\ cooling' \in BOOLEAN
      BY <2>3 DEF AskForPersistence, Mode, Modes, TypeOK
    <3> QED
      BY <2>1, <2>3, <3>1 DEF AskForPersistence, TypeOK
  <2>4. CASE PersistAnswers(s)
    BY <2>1, <2>4 DEF PersistAnswers, TypeOK
  <2>5. CASE EstimateAnswers(s)
    <3>1. shown' \in Health
      BY <2>1, <2>5, HealthType DEF EstimateAnswers
    <3>2. prompt' \in Prompts
      BY <2>5, PromptType DEF EstimateAnswers
    <3>3. requesting' \in BOOLEAN /\ buttonCooling' \in BOOLEAN
      BY <2>5 DEF EstimateAnswers, TypeOK
    <3> QED
      BY <2>1, <2>5, <3>1, <3>2, <3>3 DEF EstimateAnswers, TypeOK
  <2> QED
    BY <1>8, <2>2, <2>3, <2>4, <2>5 DEF RefreshStep
<1>9. CASE UNCHANGED vars
  BY <1>9 DEF vars, TypeOK
<1> QED
  BY <1>1, <1>2, <1>3, <1>4, <1>5, <1>6, <1>7, <1>8, <1>9 DEF Next

(***************************************************************************)
(* The page keeps its types, on every platform.                            *)
(***************************************************************************)
THEOREM TypeCorrect == Spec => []TypeOK
<1>1. Init => TypeOK
  <2> SUFFICES ASSUME Init PROVE TypeOK
    OBVIOUS
  <2>1. refresh \in [Slots -> {Idle} \cup Refresh]
    <3>1. Begun("plain") \in Refresh
      BY DEF Begun, Refresh
    <3>2. PICK s \in Slots :
              refresh = [z \in Slots |-> IF z = s THEN Begun("plain") ELSE Idle]
      BY DEF Init
    <3> HIDE DEF Refresh
    <3> QED
      BY <3>1, <3>2
  <2>2. diagnostics \in Diagnostics
    BY DEF Init, Diagnostics
  <2>3. /\ platform \in Platforms
        /\ standalone \in BOOLEAN /\ granted \in BOOLEAN
        /\ attempt \in {"none"} \cup Modes /\ cooling \in BOOLEAN
        /\ requesting \in BOOLEAN /\ buttonCooling \in BOOLEAN
    BY DEF Init, Modes
  <2>4. /\ shown \in {NoHealth} \cup Health
        /\ backup \in {"none", "recent", "old"}
        /\ prompt \in Prompts /\ asked \in Nat
    BY DEF Init, Prompts
  <2> QED
    BY <2>1, <2>2, <2>3, <2>4 DEF TypeOK
<1>2. TypeOK /\ [Next]_vars => TypeOK'
  BY TypeStep
<1> QED
  BY <1>1, <1>2, PTL DEF Spec

-------------------------------------------------------------------------------
(***************************************************************************)
(* Every step keeps what a quiet page shows: whatever changes the          *)
(* diagnostics begins a refresh, and the last one to end shows them as     *)
(* they are then.                                                          *)
(***************************************************************************)
LEMMA TroubleStep ==
    ASSUME TypeOK, TroubleIsShown, [Next]_vars
    PROVE  TroubleIsShown'
<1>0. refresh \in [Slots -> {Idle} \cup Refresh] /\ diagnostics \in Diagnostics
  BY DEF TypeOK
<1>1. ASSUME ~Quiet' PROVE TroubleIsShown'
  BY <1>1 DEF TroubleIsShown
<1>2. CASE DiagnosticsChange \/ Foreground \/ ReinforceDurability
           \/ DisplayModeChanges \/ RequestStorageProtection
  <2>1. PICK kind \in {"plain", "automatic", "manual"} : StartRefresh(kind)
    BY <1>2 DEF DiagnosticsChange, Emit, Foreground, ReinforceDurability,
       DisplayModeChanges, RequestStorageProtection
  <2> QED
    BY <1>0, <1>1, <2>1, StartFacts
<1>3. ASSUME NEW s \in Slots, RefreshStep(s) PROVE TroubleIsShown'
  <2>1. CASE EstimateAnswers(s)
    <3>1. PICK full \in BOOLEAN : shown' = HealthNow(refresh[s].found, full)
      BY <2>1 DEF EstimateAnswers
    <3>2. refresh[s].found \in BOOLEAN
      BY <1>3, RefreshFacts
    <3>3. /\ shown' # NoHealth /\ shown'.diagnostics = diagnostics
          /\ NeedsAttention(diagnostics) => shown'.status = "warning"
      BY <3>1, <3>2, HealthType
    <3>4. diagnostics' = diagnostics /\ prompt' = BackupPrompt(shown', backup)
      BY <2>1 DEF EstimateAnswers
    <3>5. NeedsAttention(diagnostics) => prompt' = "confirm"
      BY <1>0, <3>3, <3>4, TroublePrompts
    <3> QED
      BY <3>3, <3>4, <3>5 DEF TroubleIsShown
  <2> QED
    BY <1>1, <1>3, <2>1, RefreshFacts
<1>4. CASE BackupCompleted
  <2>1. /\ UNCHANGED <<refresh, shown, diagnostics>>
        /\ prompt' = BackupPrompt(shown, "recent")
    BY <1>4 DEF BackupCompleted
  <2>2. Quiet' => Quiet
    BY <2>1 DEF Quiet
  <2>3. Quiet /\ NeedsAttention(diagnostics) => prompt' = "confirm"
    BY <1>0, <2>1, TroublePrompts DEF TroubleIsShown
  <2> QED
    BY <2>1, <2>2, <2>3 DEF TroubleIsShown
<1>5. CASE CooldownEnds \/ BackupAges \/ UNCHANGED vars
  <2>1. UNCHANGED <<refresh, shown, diagnostics, prompt>>
    BY <1>5 DEF CooldownEnds, BackupAges, vars
  <2> QED
    BY <2>1 DEF TroubleIsShown, Quiet
<1> QED
  BY <1>2, <1>3, <1>4, <1>5 DEF Next

(***************************************************************************)
(* When no refresh is left the page shows the diagnostics as they are, and *)
(* trouble as a warning that asks for a backup, however many refreshes     *)
(* overtook each other.                                                    *)
(***************************************************************************)
THEOREM TroubleIsSeen == Spec => []TroubleIsShown
<1>1. Init => TroubleIsShown
  <2>1. Init => ~Quiet
    BY DEF Init, Quiet, Begun, Idle
  <2> QED
    BY <2>1 DEF TroubleIsShown
<1>2. TypeOK /\ TroubleIsShown /\ [Next]_vars => TroubleIsShown'
  BY TroubleStep
<1> QED
  BY <1>1, <1>2, TypeCorrect, PTL DEF Spec

-------------------------------------------------------------------------------
(***************************************************************************)
(* Once the browser was asked, the attempt is recorded for this display    *)
(* mode, which is what holds the next automatic request back.              *)
(***************************************************************************)
RequestIsRecorded == asked # 0 => attempt = Mode

(***************************************************************************)
(* Every step keeps it.                                                    *)
(***************************************************************************)
LEMMA RequestStep ==
    ASSUME LocalStorage, TypeOK, RequestIsRecorded, AutomaticRequestOnce,
           [Next]_vars
    PROVE  RequestIsRecorded' /\ AutomaticRequestOnce'
<1> USE DEF RequestIsRecorded, AutomaticRequestOnce, Mode
<1>0. asked \in Nat
  BY DEF TypeOK
<1>1. CASE UNCHANGED <<asked, attempt, standalone>>
  BY <1>1
<1>2. CASE DisplayModeChanges
  BY <1>2 DEF DisplayModeChanges
<1>3. ASSUME NEW s \in Slots, AskForPersistence(s)
      PROVE  RequestIsRecorded' /\ AutomaticRequestOnce'
  BY <1>0, <1>3 DEF AskForPersistence, MayAsk
<1>4. ASSUME NEW s \in Slots, RefreshStep(s), ~AskForPersistence(s)
      PROVE  UNCHANGED <<asked, attempt, standalone>>
  BY <1>4 DEF RefreshStep, PersistedAnswers, NobodyToAsk, PersistAnswers,
     EstimateAnswers
<1> QED
  BY <1>1, <1>2, <1>3, <1>4
  DEF Next, DiagnosticsChange, Foreground, ReinforceDurability,
      RequestStorageProtection, CooldownEnds, BackupCompleted, BackupAges, vars

(***************************************************************************)
(* Without the operator the browser is asked at most once per display      *)
(* mode, for any number of overlapping requests and whether or not the     *)
(* page can find out what was granted, where localStorage keeps the record *)
(* of the attempt.                                                         *)
(***************************************************************************)
THEOREM BrowserIsAskedOnce ==
    ASSUME LocalStorage
    PROVE  Spec => []AutomaticRequestOnce
<1>1. Init => RequestIsRecorded /\ AutomaticRequestOnce
  BY DEF Init, RequestIsRecorded, AutomaticRequestOnce
<1>2. TypeOK /\ RequestIsRecorded /\ AutomaticRequestOnce /\ [Next]_vars
          => RequestIsRecorded' /\ AutomaticRequestOnce'
  BY RequestStep
<1> QED
  BY <1>1, <1>2, TypeCorrect, PTL DEF Spec
-------------------------------------------------------------------------------
(***************************************************************************)
(* What a step of a refresh does to the slots: its own refresh keeps its   *)
(* kind and moves on, and the only other slot it touches is an idle one,   *)
(* for the refresh that asking the browser starts.                         *)
(***************************************************************************)
LEMMA RefreshShape ==
    ASSUME TypeOK, NEW s \in Slots, RefreshStep(s)
    PROVE  /\ refresh[s] \in Refresh
           /\ \A z \in Slots \ {s} :
                 \/ refresh'[z] = refresh[z]
                 \/ refresh[z] = Idle /\ refresh'[z] = Begun("plain")
           /\ EstimateAnswers(s) => refresh' = [refresh EXCEPT ![s] = Idle]
           /\ ~EstimateAnswers(s) =>
                 refresh'[s] \in Refresh /\ refresh'[s].kind = refresh[s].kind
           /\ PersistedAnswers(s) => refresh'[s].found \in Persisted
           /\ NobodyToAsk(s) => refresh'[s].found = refresh[s].found
           /\ AskForPersistence(s) => /\ refresh'[s].found = refresh[s].found
                                      /\ refresh'[s].awaits = "persist"
           /\ PersistAnswers(s) =>
                 \/ refresh'[s].found /\ granted'
                 \/ granted' = granted /\ refresh'[s].found \in Persisted
<1>0. /\ refresh \in [Slots -> {Idle} \cup Refresh]
      /\ refresh' \in [Slots -> {Idle} \cup Refresh] /\ refresh[s] \in Refresh
  BY RefreshFacts DEF TypeOK
<1>1. refresh[s] = [kind |-> refresh[s].kind, awaits |-> refresh[s].awaits,
                    found |-> refresh[s].found]
  BY <1>0 DEF Refresh
<1>2. ASSUME NEW a, NEW f, refresh'[s] = [refresh[s] EXCEPT !.awaits = a, !.found = f]
      PROVE  /\ refresh'[s].kind = refresh[s].kind
             /\ refresh'[s].awaits = a /\ refresh'[s].found = f
  BY <1>1, <1>2
<1>3. ASSUME refresh'[s].kind = refresh[s].kind PROVE refresh'[s] \in Refresh
  BY <1>0, <1>3 DEF Refresh, Idle
<1> DEFINE Others == \A z \in Slots \ {s} :
                         \/ refresh'[z] = refresh[z]
                         \/ refresh[z] = Idle /\ refresh'[z] = Begun("plain")
           Same == refresh'[s] \in Refresh /\ refresh'[s].kind = refresh[s].kind
<1>4. ASSUME PersistedAnswers(s)
      PROVE  Others /\ Same /\ refresh'[s].found \in Persisted
  <2>1. PICK found \in Persisted : refresh' = [refresh EXCEPT ![s] =
            [refresh[s] EXCEPT !.awaits = "estimate", !.found = found]]
    BY <1>0, <1>4 DEF PersistedAnswers
  <2>2. refresh'[s].kind = refresh[s].kind /\ refresh'[s].found = found
    BY <1>0, <1>2, <2>1
  <2>3. \A z \in Slots \ {s} : refresh'[z] = refresh[z]
    BY <1>0, <2>1
  <2> QED
    BY <1>3, <2>2, <2>3
<1>5. ASSUME NobodyToAsk(s) \/ AskForPersistence(s)
      PROVE  /\ Others /\ Same /\ refresh'[s].found = refresh[s].found
             /\ AskForPersistence(s) => refresh'[s].awaits = "persist"
  <2>1. PICK a \in {"persist", "estimate"}, z \in Slots \ {s} :
            /\ refresh[z] = Idle
            /\ refresh' = [refresh EXCEPT ![s].awaits = a, ![z] = Begun("plain")]
    BY <1>5 DEF NobodyToAsk, AskForPersistence
  <2>2. refresh' = [[refresh EXCEPT ![s] = [refresh[s] EXCEPT !.awaits = a]]
                        EXCEPT ![z] = Begun("plain")]
    BY <1>0, <2>1
  <2>3. /\ refresh'[s] = [refresh[s] EXCEPT !.awaits = a]
        /\ refresh'[z] = Begun("plain")
        /\ \A y \in Slots \ {s, z} : refresh'[y] = refresh[y]
    BY <1>0, <2>2
  <2>4. /\ refresh'[s].kind = refresh[s].kind
        /\ refresh'[s].found = refresh[s].found
    BY <1>1, <2>3
  <2>5. ASSUME AskForPersistence(s) PROVE refresh'[s].awaits = "persist"
    <3>1. PICK y \in Slots \ {s} :
              refresh' = [refresh EXCEPT ![s].awaits = "persist", ![y] = Begun("plain")]
      BY <2>5 DEF AskForPersistence
    <3>2. refresh'[s] = [refresh[s] EXCEPT !.awaits = "persist"]
      BY <1>0, <3>1
    <3> QED
      BY <1>1, <3>2
  <2> QED
    BY <1>3, <2>1, <2>3, <2>4, <2>5
<1>6. ASSUME PersistAnswers(s)
      PROVE  /\ Others /\ Same
             /\ \/ refresh'[s].found /\ granted'
                \/ granted' = granted /\ refresh'[s].found \in Persisted
  <2>1. PICK yes \in BOOLEAN : \E found \in IF yes THEN {TRUE} ELSE Persisted :
            /\ granted' = (granted \/ yes)
            /\ refresh' = [refresh EXCEPT ![s] =
                   [refresh[s] EXCEPT !.awaits = "estimate", !.found = found]]
    BY <1>0, <1>6 DEF PersistAnswers
  <2>2. PICK found \in IF yes THEN {TRUE} ELSE Persisted :
            /\ granted' = (granted \/ yes)
            /\ refresh' = [refresh EXCEPT ![s] =
                   [refresh[s] EXCEPT !.awaits = "estimate", !.found = found]]
    BY <2>1
  <2>3. refresh'[s].kind = refresh[s].kind /\ refresh'[s].found = found
    BY <1>0, <1>2, <2>2
  <2>4. \/ found /\ granted'
        \/ granted' = granted /\ found \in Persisted
    <3>1. CASE yes
      BY <2>2, <3>1
    <3>2. CASE ~yes
      <4>1. granted' = (granted \/ FALSE) /\ found \in Persisted
        BY <2>2, <3>2
      <4>2. granted \in BOOLEAN
        BY DEF TypeOK
      <4> QED
        BY <4>1, <4>2
    <3> QED
      BY <3>1, <3>2
  <2>5. \/ refresh'[s].found /\ granted'
        \/ granted' = granted /\ refresh'[s].found \in Persisted
    BY <2>3, <2>4, Zenon
  <2>6. \A z \in Slots \ {s} : refresh'[z] = refresh[z]
    BY <1>0, <2>2
  <2>7. Others /\ Same
    BY <1>3, <2>3, <2>6
  <2> QED
    BY <2>5, <2>7, Zenon
<1>7. ASSUME EstimateAnswers(s) PROVE Others /\ refresh' = [refresh EXCEPT ![s] = Idle]
  BY <1>0, <1>7 DEF EstimateAnswers
<1>8. Others /\ (~EstimateAnswers(s) => Same)
  BY <1>4, <1>5, <1>6, <1>7 DEF RefreshStep
<1> HIDE DEF Others, Same
<1> QED
  BY <1>0, <1>4, <1>5, <1>6, <1>7, <1>8 DEF Others, Same

(***************************************************************************)
(* The page never claims a protection the browser has not given: what it   *)
(* shows as persisted, or calls "protected", is so, whichever of the       *)
(* overlapping refreshes wrote it last; and it is never called so beside   *)
(* trouble with the database.                                              *)
(***************************************************************************)
ShowsProtection == shown # NoHealth /\ shown.persisted
FoundIsGranted == \A s \in Slots : refresh[s] \in Refresh /\ refresh[s].found => granted
ProtectionIsReal ==
    /\ ShowsProtection => granted
    /\ shown \in Health /\ shown.status = "protected" =>
          granted /\ shown.persisted /\ ~NeedsAttention(shown.diagnostics)

(***************************************************************************)
(* Health repeats what the browser said, and is called protected only with *)
(* protection and without trouble.                                         *)
(***************************************************************************)
LEMMA ProtectedFacts ==
    ASSUME NEW persisted \in BOOLEAN, NEW full \in BOOLEAN
    PROVE  /\ HealthNow(persisted, full).persisted = persisted
           /\ HealthNow(persisted, full).status = "protected" =>
                 persisted /\ ~NeedsAttention(HealthNow(persisted, full).diagnostics)
<1>1. Status(persisted, diagnostics, Mode, full) = "protected" =>
          persisted /\ ~NeedsAttention(diagnostics)
  BY DEF Status
<1> DEFINE st == Status(persisted, diagnostics, Mode, full)
<1>2. HealthNow(persisted, full) = [persisted |-> persisted,
          diagnostics |-> diagnostics, mode |-> Mode, status |-> st]
  BY DEF HealthNow
<1> HIDE DEF st
<1>3. st = "protected" => persisted /\ ~NeedsAttention(diagnostics)
  BY <1>1 DEF st
<1>4. /\ HealthNow(persisted, full).persisted = persisted
      /\ HealthNow(persisted, full).diagnostics = diagnostics
      /\ HealthNow(persisted, full).status = st
  BY <1>2
<1> QED
  BY <1>3, <1>4

(***************************************************************************)
(* Every step keeps it: a refresh learns only what the browser answers,    *)
(* and what was granted stays granted.                                     *)
(***************************************************************************)
LEMMA ProtectionStep ==
    ASSUME TypeOK, ProtectionIsReal, FoundIsGranted, [Next]_vars
    PROVE  ProtectionIsReal' /\ FoundIsGranted'
<1>0. /\ refresh \in [Slots -> {Idle} \cup Refresh]
      /\ shown \in {NoHealth} \cup Health /\ granted \in BOOLEAN
  BY DEF TypeOK
<1>1. ~Begun("plain").found /\ ~Begun("automatic").found /\ ~Begun("manual").found
  BY DEF Begun
<1>2. ASSUME UNCHANGED shown, granted => granted' PROVE ProtectionIsReal'
  BY <1>2 DEF ProtectionIsReal, ShowsProtection
<1>3. CASE DiagnosticsChange \/ Foreground \/ ReinforceDurability
           \/ DisplayModeChanges \/ RequestStorageProtection
  <2>1. UNCHANGED <<shown, granted>>
    BY <1>3 DEF DiagnosticsChange, Foreground, ReinforceDurability,
       DisplayModeChanges, RequestStorageProtection
  <2>2. PICK kind \in {"plain", "automatic", "manual"} : StartRefresh(kind)
    BY <1>3 DEF DiagnosticsChange, Emit, Foreground, ReinforceDurability,
       DisplayModeChanges, RequestStorageProtection
  <2>3. PICK s \in Slots : refresh' = [refresh EXCEPT ![s] = Begun(kind)]
    BY <2>2 DEF StartRefresh
  <2>4. FoundIsGranted'
    BY <1>0, <1>1, <2>1, <2>3 DEF FoundIsGranted
  <2> QED
    BY <1>2, <2>1, <2>4
<1>4. ASSUME NEW s \in Slots, RefreshStep(s)
      PROVE  ProtectionIsReal' /\ FoundIsGranted'
  <2>0. granted => granted'
    BY <1>4 DEF RefreshStep, PersistedAnswers, NobodyToAsk, AskForPersistence,
       PersistAnswers, EstimateAnswers
  <2>1. ASSUME NEW z \in Slots \ {s} PROVE refresh'[z] \in Refresh
                                           /\ refresh'[z].found => granted'
    BY <1>1, <1>4, <2>0, <2>1, RefreshShape DEF FoundIsGranted
  <2>2. CASE EstimateAnswers(s)
    <3>1. refresh' = [refresh EXCEPT ![s] = Idle] /\ granted' = granted
      BY <1>4, <2>2, RefreshShape DEF EstimateAnswers
    <3>2. FoundIsGranted'
      <4>1. Idle \notin Refresh
        BY DEF Idle, Refresh
      <4> QED
        BY <1>0, <2>1, <3>1, <4>1 DEF FoundIsGranted
    <3>3. PICK full \in BOOLEAN : shown' = HealthNow(refresh[s].found, full)
      BY <2>2 DEF EstimateAnswers
    <3>4. refresh[s] \in Refresh /\ refresh[s].found \in BOOLEAN
      BY <1>4, RefreshFacts
    <3>5. refresh[s].found => granted
      BY <3>4 DEF FoundIsGranted
    <3>6. /\ shown'.persisted = refresh[s].found
          /\ shown'.status = "protected" =>
                refresh[s].found /\ ~NeedsAttention(shown'.diagnostics)
      BY <3>3, <3>4, ProtectedFacts
    <3>7. ProtectionIsReal'
      BY <3>1, <3>5, <3>6 DEF ProtectionIsReal, ShowsProtection, NeedsAttention
    <3> QED
      BY <3>2, <3>7
  <2>3. CASE PersistedAnswers(s) \/ NobodyToAsk(s) \/ AskForPersistence(s)
             \/ PersistAnswers(s)
    <3>1. UNCHANGED shown
      BY <2>3 DEF PersistedAnswers, NobodyToAsk, AskForPersistence, PersistAnswers
    <3>2. refresh'[s].found => granted'
      BY <1>4, <2>0, <2>3, RefreshShape DEF FoundIsGranted, Persisted
    <3>3. FoundIsGranted'
      BY <2>1, <3>2 DEF FoundIsGranted
    <3> QED
      BY <1>2, <2>0, <3>1, <3>3
  <2> QED
    BY <1>4, <2>2, <2>3 DEF RefreshStep
<1>5. CASE CooldownEnds \/ BackupCompleted \/ BackupAges \/ UNCHANGED vars
  <2>1. UNCHANGED <<refresh, shown, granted>>
    BY <1>5 DEF CooldownEnds, BackupCompleted, BackupAges, vars
  <2> QED
    BY <1>2, <2>1 DEF FoundIsGranted
<1> QED
  BY <1>3, <1>4, <1>5 DEF Next

(***************************************************************************)
(* However refreshes overlap, protection is shown only where the browser   *)
(* granted it.                                                             *)
(***************************************************************************)
THEOREM ProtectionIsNotOverclaimed == Spec => []ProtectionIsReal
<1>1. Init => ProtectionIsReal /\ FoundIsGranted
  <2> SUFFICES ASSUME Init PROVE ProtectionIsReal /\ FoundIsGranted
    OBVIOUS
  <2>1. NoHealth \notin Health
    <3>1. \A h \in Health : h.status # NoHealth.status
      BY DEF Health, NoHealth
    <3> QED
      BY <3>1
  <2>2. Idle \notin Refresh /\ ~Begun("plain").found
    BY DEF Idle, Refresh, Begun
  <2> QED
    BY <2>1, <2>2 DEF Init, ProtectionIsReal, ShowsProtection, FoundIsGranted
<1>2. TypeOK /\ ProtectionIsReal /\ FoundIsGranted /\ [Next]_vars
          => ProtectionIsReal' /\ FoundIsGranted'
  BY ProtectionStep
<1> QED
  BY <1>1, <1>2, TypeCorrect, PTL DEF Spec
(***************************************************************************)
(* The answer of the browser may be a refresh away from the operator: a    *)
(* refresh that read persisted() before the grant overwrites it when it    *)
(* ends.  After the grant no refresh joins those that hold the old answer, *)
(* and each time the page forgets the protection one of them is used up,   *)
(* so it is forgotten no more often than refreshes were stale at the       *)
(* grant: the safety half of ProtectionIsShown.                            *)
(***************************************************************************)
Stale == {s \in Slots : /\ refresh[s] \in Refresh /\ refresh[s].awaits = "estimate"
                        /\ ~refresh[s].found}
GrantIsForgottenByStaleOnly ==
    [][granted => /\ Stale' \subseteq Stale
                  /\ ShowsProtection /\ ~ShowsProtection' => Stale' # Stale]_vars

(***************************************************************************)
(* Without a storage manager nothing is granted and nobody is awaited.     *)
(***************************************************************************)
BareAsksNobody ==
    platform = "bare" => ~granted /\ \A s \in Slots : refresh[s] \in Refresh =>
                                                      refresh[s].awaits # "persist"

(***************************************************************************)
(* Every step keeps it: the platform is fixed, and asking is guarded.      *)
(***************************************************************************)
LEMMA BareStep ==
    ASSUME TypeOK, BareAsksNobody, [Next]_vars
    PROVE  BareAsksNobody'
<1>0. refresh \in [Slots -> {Idle} \cup Refresh]
  BY DEF TypeOK
<1>1. \A kind \in {"plain", "automatic", "manual"} : Begun(kind).awaits = "persisted"
  BY DEF Begun
<1>2. CASE DiagnosticsChange \/ Foreground \/ ReinforceDurability
           \/ DisplayModeChanges \/ RequestStorageProtection
  <2>1. UNCHANGED <<platform, granted>>
    BY <1>2 DEF DiagnosticsChange, Foreground, ReinforceDurability,
       DisplayModeChanges, RequestStorageProtection
  <2>2. PICK kind \in {"plain", "automatic", "manual"} : StartRefresh(kind)
    BY <1>2 DEF DiagnosticsChange, Emit, Foreground, ReinforceDurability,
       DisplayModeChanges, RequestStorageProtection
  <2>3. PICK s \in Slots : refresh' = [refresh EXCEPT ![s] = Begun(kind)]
    BY <2>2 DEF StartRefresh
  <2> QED
    BY <1>0, <1>1, <2>1, <2>3 DEF BareAsksNobody
<1>3. ASSUME NEW s \in Slots, RefreshStep(s), platform = "bare"
      PROVE  BareAsksNobody'
  <2>1. /\ ~AskForPersistence(s) /\ ~PersistAnswers(s)
        /\ \A z \in Slots : refresh[z] \in Refresh => refresh[z].awaits # "persist"
    BY <1>3, RefreshShape DEF AskForPersistence, PersistAnswers, BareAsksNobody
  <2>2. platform' = platform /\ granted' = granted
    BY <1>3, <2>1 DEF RefreshStep, PersistedAnswers, NobodyToAsk, EstimateAnswers
  <2>3. refresh'[s] \in Refresh => refresh'[s].awaits # "persist"
    <3>1. refresh[s] \in Refresh
      BY <1>3, RefreshShape
    <3>2. CASE EstimateAnswers(s)
      BY <1>0, <3>2 DEF EstimateAnswers, Idle, Refresh
    <3>3. CASE PersistedAnswers(s)
      <4>1. PICK found : refresh'[s] =
                [refresh[s] EXCEPT !.awaits = "estimate", !.found = found]
        BY <1>0, <3>3 DEF PersistedAnswers
      <4> QED
        BY <3>1, <4>1 DEF Refresh
    <3>4. CASE NobodyToAsk(s)
      <4>1. refresh'[s] = [refresh[s] EXCEPT !.awaits = "estimate"]
        BY <1>0, <3>4 DEF NobodyToAsk
      <4> QED
        BY <3>1, <4>1 DEF Refresh
    <3> QED
      BY <1>3, <2>1, <3>2, <3>3, <3>4 DEF RefreshStep
  <2>4. ASSUME NEW z \in Slots \ {s}, refresh'[z] \in Refresh
        PROVE  refresh'[z].awaits # "persist"
    BY <1>1, <1>3, <2>1, <2>4, RefreshShape
  <2> QED
    BY <1>3, <2>2, <2>3, <2>4 DEF BareAsksNobody
<1>4. ASSUME NEW s \in Slots, RefreshStep(s), platform # "bare"
      PROVE  BareAsksNobody'
  BY <1>4 DEF RefreshStep, PersistedAnswers, NobodyToAsk, AskForPersistence,
     PersistAnswers, EstimateAnswers, BareAsksNobody
<1>5. CASE CooldownEnds \/ BackupCompleted \/ BackupAges \/ UNCHANGED vars
  BY <1>5 DEF CooldownEnds, BackupCompleted, BackupAges, vars, BareAsksNobody
<1> QED
  BY <1>2, <1>3, <1>4, <1>5 DEF Next

(***************************************************************************)
(* After a grant a read finds it, so a step adds no stale refresh; what is *)
(* shown changes when a refresh ends, and only a stale one shows less.     *)
(***************************************************************************)
LEMMA FadeStep ==
    ASSUME ~PersistedFails, TypeOK, BareAsksNobody, granted, [Next]_vars
    PROVE  /\ Stale' \subseteq Stale
           /\ ShowsProtection /\ ~ShowsProtection' => Stale' # Stale
<1>0. refresh \in [Slots -> {Idle} \cup Refresh]
  BY DEF TypeOK
<1>1. \A kind \in {"plain", "automatic", "manual"} : Begun(kind).awaits = "persisted"
  BY DEF Begun
<1>2. CASE DiagnosticsChange \/ Foreground \/ ReinforceDurability
           \/ DisplayModeChanges \/ RequestStorageProtection
  <2>1. UNCHANGED shown
    BY <1>2 DEF DiagnosticsChange, Foreground, ReinforceDurability,
       DisplayModeChanges, RequestStorageProtection
  <2>2. PICK kind \in {"plain", "automatic", "manual"} : StartRefresh(kind)
    BY <1>2 DEF DiagnosticsChange, Emit, Foreground, ReinforceDurability,
       DisplayModeChanges, RequestStorageProtection
  <2>3. PICK s \in Slots : refresh' = [refresh EXCEPT ![s] = Begun(kind)]
    BY <2>2 DEF StartRefresh
  <2>4. Stale' \subseteq Stale
    BY <1>0, <1>1, <2>3 DEF Stale
  <2> QED
    BY <2>1, <2>4 DEF ShowsProtection
<1>3. ASSUME NEW s \in Slots, RefreshStep(s)
      PROVE  /\ Stale' \subseteq Stale
             /\ ShowsProtection /\ ~ShowsProtection' => Stale' # Stale
  <2>1. \A z \in Slots \ {s} : z \in Stale' => z \in Stale
    BY <1>1, <1>3, RefreshShape DEF Stale
  <2>2. CASE EstimateAnswers(s)
    <3>1. Idle \notin Refresh
      BY DEF Idle, Refresh
    <3>2. s \notin Stale'
      BY <1>0, <2>2, <3>1 DEF EstimateAnswers, Stale
    <3>3. PICK full \in BOOLEAN : shown' = HealthNow(refresh[s].found, full)
      BY <2>2 DEF EstimateAnswers
    <3>4. refresh[s] \in Refresh /\ refresh[s].found \in BOOLEAN
      BY <1>3, RefreshFacts
    <3>5. shown' # NoHealth /\ shown'.persisted = refresh[s].found
      BY <3>3, <3>4, HealthType, ProtectedFacts
    <3>6. refresh[s].awaits = "estimate"
      BY <2>2 DEF EstimateAnswers
    <3>7. ~ShowsProtection' => s \in Stale
      BY <3>4, <3>5, <3>6 DEF ShowsProtection, Stale
    <3>8. Stale' \subseteq Stale
      BY <2>1, <3>2 DEF Stale
    <3> QED
      BY <3>2, <3>7, <3>8
  <2>3. CASE ~EstimateAnswers(s)
    <3>1. UNCHANGED shown
      BY <1>3, <2>3 DEF RefreshStep, PersistedAnswers, NobodyToAsk,
         AskForPersistence, PersistAnswers
    <3>2. granted = TRUE /\ Persisted = {TRUE}
      BY DEF Persisted, TypeOK
    <3>3. ~NobodyToAsk(s) /\ ~AskForPersistence(s)
      BY <3>2 DEF NobodyToAsk, AskForPersistence, BareAsksNobody
    <3>4. refresh'[s].found
      BY <1>3, <2>3, <3>2, <3>3, RefreshShape DEF RefreshStep
    <3>5. Stale' \subseteq Stale
      BY <2>1, <3>4 DEF Stale
    <3> QED
      BY <3>1, <3>5 DEF ShowsProtection
  <2> QED
    BY <2>2, <2>3
<1>4. CASE CooldownEnds \/ BackupCompleted \/ BackupAges \/ UNCHANGED vars
  <2>1. UNCHANGED <<refresh, shown>>
    BY <1>4 DEF CooldownEnds, BackupCompleted, BackupAges, vars
  <2> QED
    BY <2>1 DEF Stale, ShowsProtection
<1> QED
  BY <1>2, <1>3, <1>4 DEF Next

(***************************************************************************)
(* Where persisted() does not reject, a grant is hidden from the operator  *)
(* only by refreshes that read it before.                                  *)
(***************************************************************************)
THEOREM GrantFadesNoFurther ==
    ASSUME ~PersistedFails
    PROVE  Spec => GrantIsForgottenByStaleOnly
<1>1. Init => BareAsksNobody
  <2>1. Begun("plain").awaits # "persist" /\ Idle \notin Refresh
    BY DEF Begun, Idle, Refresh
  <2> QED
    BY <2>1 DEF Init, BareAsksNobody
<1>2. TypeOK /\ BareAsksNobody /\ [Next]_vars => BareAsksNobody'
  BY BareStep
<1>3. TypeOK /\ BareAsksNobody /\ [Next]_vars
          => [granted => /\ Stale' \subseteq Stale
                         /\ ShowsProtection /\ ~ShowsProtection' => Stale' # Stale]_vars
  BY FadeStep
<1> QED
  BY <1>1, <1>2, <1>3, TypeCorrect, PTL DEF Spec, GrantIsForgottenByStaleOnly

-------------------------------------------------------------------------------
(***************************************************************************)
(* requestInFlightRef is set by the indicator's button and reset by the    *)
(* refresh that click began, among any others: while it is set there is    *)
(* exactly one such refresh, so the button neither starts a second request *)
(* nor stays dead after the first.                                         *)
(***************************************************************************)
Manual == {s \in Slots : refresh[s].kind = "manual"}
MarkerIsItsRequest == /\ requesting => \E s \in Slots : Manual = {s}
                      /\ ~requesting => Manual = {}

(***************************************************************************)
(* Every step keeps it: kinds do not change, refreshes that begin take an  *)
(* idle slot, and only the button begins a manual one.                     *)
(***************************************************************************)
LEMMA MarkerStep ==
    ASSUME TypeOK, MarkerIsItsRequest, [Next]_vars
    PROVE  MarkerIsItsRequest'
<1>0. refresh \in [Slots -> {Idle} \cup Refresh] /\ requesting \in BOOLEAN
  BY DEF TypeOK
<1>1. /\ Idle.kind = "none"
      /\ \A kind \in {"plain", "automatic", "manual"} : Begun(kind).kind = kind
  BY DEF Idle, Begun
<1>2. ASSUME UNCHANGED requesting, Manual' = Manual PROVE MarkerIsItsRequest'
  BY <1>2 DEF MarkerIsItsRequest
<1>3. ASSUME StartRefresh("plain") \/ StartRefresh("automatic")
      PROVE  Manual' = Manual
  <2>1. PICK kind \in {"plain", "automatic"}, s \in Slots :
            refresh[s] = Idle /\ refresh' = [refresh EXCEPT ![s] = Begun(kind)]
    BY <1>3 DEF StartRefresh
  <2> QED
    BY <1>0, <1>1, <2>1 DEF Manual
<1>4. CASE DiagnosticsChange \/ Foreground \/ ReinforceDurability
           \/ DisplayModeChanges
  BY <1>2, <1>3, <1>4 DEF DiagnosticsChange, Emit, Foreground,
     ReinforceDurability, DisplayModeChanges
<1>5. CASE RequestStorageProtection
  <2>1. ~requesting /\ requesting' = TRUE /\ Manual = {}
    BY <1>5 DEF RequestStorageProtection, MarkerIsItsRequest
  <2>2. PICK s \in Slots : refresh' = [refresh EXCEPT ![s] = Begun("manual")]
    BY <1>5 DEF RequestStorageProtection, StartRefresh
  <2>3. Manual' = {s}
    BY <1>0, <1>1, <2>1, <2>2 DEF Manual
  <2> QED
    BY <2>1, <2>3 DEF MarkerIsItsRequest
<1>6. ASSUME NEW s \in Slots, RefreshStep(s) PROVE MarkerIsItsRequest'
  <2>1. \A z \in Slots \ {s} : z \in Manual' <=> z \in Manual
    BY <1>1, <1>6, RefreshShape DEF Manual
  <2>2. CASE EstimateAnswers(s)
    <3>1. s \notin Manual'
      BY <1>0, <1>1, <2>2 DEF EstimateAnswers, Manual
    <3>2. Manual' = Manual \ {s}
      BY <2>1, <3>1 DEF Manual
    <3>3. requesting' <=> requesting /\ s \notin Manual
      BY <2>2 DEF EstimateAnswers, Manual
    <3> QED
      BY <3>2, <3>3 DEF MarkerIsItsRequest
  <2>3. CASE ~EstimateAnswers(s)
    <3>1. s \in Manual' <=> s \in Manual
      BY <1>6, <2>3, RefreshShape DEF Manual
    <3>2. Manual' = Manual
      BY <2>1, <3>1 DEF Manual
    <3>3. UNCHANGED requesting
      BY <1>6, <2>3 DEF RefreshStep, PersistedAnswers, NobodyToAsk,
         AskForPersistence, PersistAnswers
    <3> QED
      BY <1>2, <3>2, <3>3
  <2> QED
    BY <2>2, <2>3
<1>7. CASE CooldownEnds \/ BackupCompleted \/ BackupAges \/ UNCHANGED vars
  <2>1. UNCHANGED <<refresh, requesting>>
    BY <1>7 DEF CooldownEnds, BackupCompleted, BackupAges, vars
  <2> QED
    BY <1>2, <2>1 DEF Manual
<1> QED
  BY <1>4, <1>5, <1>6, <1>7 DEF Next

(***************************************************************************)
(* The marker of a manual request is set while that request is under way   *)
(* and at no other time.                                                   *)
(***************************************************************************)
THEOREM RequestMarkerIsReleased == Spec => []MarkerIsItsRequest
<1>1. Init => MarkerIsItsRequest
  BY DEF Init, MarkerIsItsRequest, Manual, Begun, Idle
<1>2. TypeOK /\ MarkerIsItsRequest /\ [Next]_vars => MarkerIsItsRequest'
  BY MarkerStep
<1> QED
  BY <1>1, <1>2, TypeCorrect, PTL DEF Spec
===============================================================================
