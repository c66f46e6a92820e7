-------------------------- MODULE ImportPreview_proofs --------------------------
(***************************************************************************)
(* Theorems about the import preview, for every set of files: its types;   *)
(* that nothing reaches the table that was not parsed without objection,   *)
(* verified and, where the preview demands it, acknowledged; that page and *)
(* worker agree; what the second verification turns down; and what an      *)
(* abort leaves behind.                                                    *)
(***************************************************************************)
EXTENDS ImportPreview, TLAPS

(***************************************************************************)
(* A file with a defect meets an objection, the first of them in the order *)
(* of the parser, which is itself a defect.                                *)
(***************************************************************************)
LEMMA ObjectionIsADefect ==
    ASSUME NEW f \in File, f.defects # {}
    PROVE  FirstObjection(f) \in Defects
<1> DEFINE met(i) == Objections[i] \in f.defects
           first(i) == met(i) /\ \A j \in 1..(i - 1) : ~met(j)
<1>1. f.defects \subseteq Defects
  BY DEF File
<1>2. PICK i \in 1..4 : met(i)
  BY <1>1 DEF Defects
<1>3. \E k \in 1..4 : first(k)
  <2>1. CASE met(1)
    BY <2>1
  <2>2. CASE ~met(1) /\ met(2)
    BY <2>2
  <2>3. CASE ~met(1) /\ ~met(2) /\ met(3)
    BY <2>3
  <2>4. CASE ~met(1) /\ ~met(2) /\ ~met(3)
    <3>1. met(4)
      BY <1>2, <2>4
    <3> QED
      BY <2>4, <3>1
  <2> QED
    BY <2>1, <2>2, <2>3, <2>4
<1>4. (CHOOSE k \in 1..4 : first(k)) \in 1..4
  BY <1>3
<1> QED
  BY <1>4 DEF FirstObjection, Defects

(***************************************************************************)
(* The verdicts of the parser, and what "accepted" says of a file: nothing *)
(* to object to, and a digest, if there is one, that verifies.             *)
(***************************************************************************)
LEMMA VerdictFacts ==
    ASSUME NEW f \in File, NEW subtle \in BOOLEAN
    PROVE  LET verdict == ParseImportPayload(f, subtle)
           IN  /\ verdict \in {"accepted", "error"} \cup RejectedKinds
               /\ verdict = "accepted" => f.defects = {}
<1>1. CASE f.defects # {}
  <2>1. ParseImportPayload(f, subtle) \in Defects
    BY <1>1, ObjectionIsADefect DEF ParseImportPayload
  <2>2. "accepted" \notin Defects
    BY DEF Defects, Objections
  <2> QED
    BY <2>1, <2>2 DEF RejectedKinds
<1>2. CASE f.defects = {}
  BY <1>2 DEF ParseImportPayload, RejectedKinds
<1> QED
  BY <1>1, <1>2

(***************************************************************************)
(* No successful kind of preview is a rejection.                           *)
(***************************************************************************)
LEMMA KindsAreApart ==
    /\ SuccessfulKinds \cap RejectedKinds = {}
    /\ {"none", "aborted", "error"} \cap SuccessfulKinds = {}
    /\ "accepted" \notin RejectedKinds
<1>1. Defects = {"unreadable", "blocked-key", "incompatible", "invalid"}
  BY DEF Defects, Objections
<1> QED
  BY <1>1 DEF RejectedKinds, SuccessfulKinds

-------------------------------------------------------------------------------
(***************************************************************************)
(* Every step of the preview keeps its types; a verdict is one of the      *)
(* kinds of rejection, an error, or an acceptance.                         *)
(***************************************************************************)
LEMMA TypeStep ==
    ASSUME TypeOK, [Next]_vars
    PROVE  TypeOK'
<1>0. file \in File
  BY FilesAssumption DEF TypeOK
<1>1. CASE PreviewImportFile \/ FileRead \/ FileUnavailable
  BY <1>1 DEF PreviewImportFile, FileRead, FileUnavailable, Settle, TypeOK
<1>2. CASE ParseEnds
  <2>1. ParseImportPayload(file, crypto) \in {"accepted", "error"} \cup RejectedKinds
    BY <1>0, VerdictFacts DEF TypeOK
  <2> QED
    BY <1>2, <2>1 DEF ParseEnds, Parsed, Settle, TypeOK
<1>3. CASE WorkerAnswers
  <2>1. ParseImportPayload(file, crypto) \in {"accepted", "error"} \cup RejectedKinds
    BY <1>0, VerdictFacts DEF TypeOK
  <2>2. "invalid" \in RejectedKinds
    BY DEF RejectedKinds, Defects, Objections
  <2> QED
    BY <1>3, <2>1, <2>2 DEF WorkerAnswers, TypeOK
<1>4. CASE WorkerMessage
  BY <1>4 DEF WorkerMessage, Parsed, Settle, TypeOK
<1>5. CASE WorkerError \/ Abort
  BY <1>5 DEF WorkerError, Abort, Settle, TypeOK
<1>6. CASE EntriesRead
  BY <1>6 DEF EntriesRead, Settle, SuccessfulPreviewKind, SuccessfulKinds, TypeOK
<1>7. CASE EntriesUnavailable \/ Acknowledge \/ ApplyImport
  BY <1>7 DEF EntriesUnavailable, Acknowledge, ApplyImport, Settle, TypeOK
<1>8. CASE UNCHANGED vars
  BY <1>8 DEF vars, TypeOK
<1> QED
  BY <1>1, <1>2, <1>3, <1>4, <1>5, <1>6, <1>7, <1>8 DEF Next

(***************************************************************************)
(* The types of the preview: also that FirstObjection is one of the kinds  *)
(* the panel knows.                                                        *)
(***************************************************************************)
THEOREM TypeCorrect == Spec => []TypeOK
<1>1. Init => TypeOK
  BY DEF Init, TypeOK
<1>2. TypeOK /\ [Next]_vars => TypeOK'
  BY TypeStep
<1> QED
  BY <1>1, <1>2, PTL DEF Spec

-------------------------------------------------------------------------------
(***************************************************************************)
(* What the stages know of the file: beyond the parser there is nothing to *)
(* object to, the kind of a successful preview is the file's, and a write  *)
(* came after the second verification and the acknowledgement.             *)
(***************************************************************************)
ParserWasPassed ==
    /\ answer = "accepted" => file.defects = {}
    /\ stage = "querying" => file.defects = {}
    /\ stage # "settled" => outcome = "none"
    /\ outcome \in SuccessfulKinds =>
           file.defects = {} /\ outcome = SuccessfulPreviewKind(file)
    /\ commit = "written" =>
           /\ outcome \in SuccessfulKinds
           /\ outcome # "good" => ack
           /\ file.seal = Unsealed \/ ParsedVerified(file)

(***************************************************************************)
(* A preview that has not settled and settles as no success, or not at     *)
(* all, leaves nothing to stage and nothing written.                       *)
(***************************************************************************)
LEMMA UnsettledFacts ==
    ASSUME ParserWasPassed, stage # "settled"
    PROVE  outcome = "none" /\ outcome \notin SuccessfulKinds /\ commit # "written"
BY KindsAreApart DEF ParserWasPassed

(***************************************************************************)
(* Every step keeps what the stages know of the file.                      *)
(***************************************************************************)
LEMMA PassedStep ==
    ASSUME TypeOK, ParserWasPassed, [Next]_vars
    PROVE  ParserWasPassed'
<1>0. file \in File /\ crypto \in BOOLEAN
  BY FilesAssumption DEF TypeOK
<1> DEFINE verdict == ParseImportPayload(file, crypto)
<1>a. /\ verdict = "accepted" => file.defects = {}
      /\ verdict \in {"accepted", "error"} \cup RejectedKinds
      /\ verdict # "accepted" => verdict \notin SuccessfulKinds
  BY <1>0, VerdictFacts, KindsAreApart
<1> HIDE DEF verdict
<1>1. CASE PreviewImportFile \/ FileRead \/ FileUnavailable
  <2>1. /\ UNCHANGED <<file, answer, commit>> /\ stage' # "querying"
        /\ stage # "settled" /\ outcome' \in {"none", "error", "aborted"}
        /\ stage' # "settled" => outcome' = outcome
    BY <1>1, UnsettledFacts
       DEF PreviewImportFile, FileRead, FileUnavailable, Settle
  <2> QED
    BY <2>1, UnsettledFacts, KindsAreApart DEF ParserWasPassed
<1>2. CASE ParseEnds
  <2>1. /\ UNCHANGED <<file, answer, commit>> /\ stage = "parsing"
        /\ Parsed(verdict)
    BY <1>2 DEF ParseEnds, verdict
  <2> QED
    BY <1>a, <2>1, UnsettledFacts DEF ParserWasPassed, Parsed, Settle
<1>3. CASE WorkerAnswers
  <2>1. /\ answer' = IF verdict = "error" THEN "invalid" ELSE verdict
        /\ UNCHANGED <<file, stage, outcome, ack, commit>>
    BY <1>3 DEF WorkerAnswers, verdict
  <2>2. answer' = "accepted" => file.defects = {}
    BY <1>a, <2>1
  <2> QED
    BY <2>1, <2>2 DEF ParserWasPassed, SuccessfulPreviewKind, ParsedVerified
<1>4. CASE WorkerMessage
  <2>1. /\ UNCHANGED <<file, answer, commit>> /\ stage = "working"
        /\ Parsed(answer) /\ answer # "none"
    BY <1>4 DEF WorkerMessage
  <2>2. answer \in {"accepted"} \cup RejectedKinds
    BY <2>1 DEF TypeOK
  <2> QED
    BY <2>1, <2>2, UnsettledFacts, KindsAreApart DEF ParserWasPassed, Parsed, Settle
<1>5. CASE WorkerError \/ EntriesUnavailable
  <2>1. /\ UNCHANGED <<file, answer, commit>> /\ stage # "settled"
        /\ stage' = "settled" /\ outcome' = "error"
    BY <1>5 DEF WorkerError, EntriesUnavailable, Settle
  <2> QED
    BY <2>1, UnsettledFacts, KindsAreApart DEF ParserWasPassed
<1>6. CASE Abort
  <2>1. /\ UNCHANGED <<file, answer, commit>> /\ stage # "settled"
        /\ \/ stage' = "settled" /\ outcome' = "aborted"
           \/ UNCHANGED <<stage, outcome>>
    BY <1>6 DEF Abort, Settle
  <2> QED
    BY <2>1, UnsettledFacts, KindsAreApart DEF ParserWasPassed
<1>7. CASE EntriesRead
  <2>1. /\ UNCHANGED <<file, answer, commit>> /\ stage = "querying"
        /\ stage' = "settled" /\ outcome' = SuccessfulPreviewKind(file)
    BY <1>7 DEF EntriesRead, Settle
  <2> QED
    BY <2>1, UnsettledFacts DEF ParserWasPassed, SuccessfulPreviewKind
<1>8. CASE Acknowledge
  BY <1>8 DEF Acknowledge, StagedPreview, ParserWasPassed, SuccessfulPreviewKind,
     ParsedVerified
<1>9. CASE ApplyImport
  BY <1>9 DEF ApplyImport, StagedPreview, ParserWasPassed, SuccessfulPreviewKind,
     ParsedVerified
<1>10. CASE UNCHANGED vars
  BY <1>10 DEF vars, ParserWasPassed, SuccessfulPreviewKind, ParsedVerified
<1> QED
  BY <1>1, <1>2, <1>3, <1>4, <1>5, <1>6, <1>7, <1>8, <1>9, <1>10 DEF Next

(***************************************************************************)
(* A digest that verifies over the rebuilt payload is one of the content   *)
(* the file has now.                                                       *)
(***************************************************************************)
LEMMA VerifiedIsIntact ==
    ASSUME NEW f, ParsedVerified(f)
    PROVE  Intact(f)
BY DEF ParsedVerified, Digest, Intact

(***************************************************************************)
(* Of the kinds of a preview, only "good" needs no acknowledgement, and it *)
(* is neither unsealed nor old.                                            *)
(***************************************************************************)
LEMMA TrustFromInvariant ==
    ASSUME ParserWasPassed
    PROVE  OnlyTrustedFilesAreWritten
<1> SUFFICES ASSUME commit = "written"
             PROVE  /\ file.defects = {}
                    /\ Sealed(file) => Intact(file)
                    /\ (~Sealed(file) \/ file.age = "old") => ack
  BY DEF OnlyTrustedFilesAreWritten
<1>1. file.defects = {} /\ outcome = SuccessfulPreviewKind(file)
  BY DEF ParserWasPassed
<1>2. Sealed(file) => Intact(file)
  BY VerifiedIsIntact DEF ParserWasPassed, Sealed
<1>3. (~Sealed(file) \/ file.age = "old") => outcome # "good"
  BY <1>1 DEF SuccessfulPreviewKind, Sealed
<1> QED
  BY <1>1, <1>2, <1>3 DEF ParserWasPassed

(***************************************************************************)
(* Whichever files there are: nothing is written that an operator could    *)
(* object to, that was changed after its export, or that is unsealed or    *)
(* old and was not acknowledged.                                           *)
(***************************************************************************)
THEOREM WrittenFilesAreTrusted == Spec => []OnlyTrustedFilesAreWritten
<1>1. Init => ParserWasPassed
  BY DEF Init, ParserWasPassed, SuccessfulKinds
<1>2. TypeOK /\ ParserWasPassed /\ [Next]_vars => ParserWasPassed'
  BY PassedStep
<1>3. ParserWasPassed => OnlyTrustedFilesAreWritten
  BY TrustFromInvariant
<1> QED
  BY <1>1, <1>2, <1>3, TypeCorrect, PTL DEF Spec

-------------------------------------------------------------------------------
(***************************************************************************)
(* What this build exports, and what an older one exported, verifies over  *)
(* both projections, so the parser has nothing to object to.               *)
(***************************************************************************)
LEMMA WrittenFilesVerify ==
    ASSUME NEW f \in File, WrittenFile(f), f.entries = "export"
    PROVE  ParsedVerified(f) /\ ParseImportPayload(f, TRUE) = "accepted"
<1>1. f.defects = {} /\ f.diag \in {"none", "export"} /\ f.tagged \in BOOLEAN
  BY DEF WrittenFile, File
<1>2. f.seal = Digest(f.content, f.tagged, "export", f.diag)
  BY DEF WrittenFile
<1>3. ParsedVerified(f)
  <2>1. CASE f.diag = "none"
    BY <1>2, <2>1 DEF ParsedVerified
  <2>2. CASE f.diag = "export" /\ f.tagged
    <3>1. f.seal = Digest(f.content, f.tagged, "export", "schema")
      BY <1>2, <2>2 DEF Digest
    <3> QED
      BY <2>2, <3>1 DEF ParsedVerified
  <2>3. CASE f.diag = "export" /\ ~f.tagged
    BY <1>2, <2>3 DEF ParsedVerified
  <2> QED
    BY <1>1, <2>1, <2>2, <2>3
<1>4. RawVerified(f)
  <2>1. CASE f.tagged
    BY <1>3, <2>1 DEF RawVerified
  <2>2. CASE ~f.tagged
    <3>1. f.seal = Digest(f.content, FALSE, f.entries, f.diag)
      BY <1>1, <1>2, <2>2, Zenon
    <3> QED
      BY <2>2, <3>1 DEF RawVerified
  <2> QED
    BY <2>1, <2>2
<1> QED
  BY <1>1, <1>3, <1>4 DEF ParseImportPayload

(***************************************************************************)
(* On a browser with crypto.subtle, no stage has turned such a file down.  *)
(***************************************************************************)
NothingTurnedDown ==
    WrittenFile(file) /\ file.entries = "export" /\ crypto =>
        /\ answer \in {"none", "accepted"}
        /\ outcome \notin RejectedKinds
        /\ commit # "refused"

(***************************************************************************)
(* Every step keeps that.                                                  *)
(***************************************************************************)
LEMMA NotTurnedDownStep ==
    ASSUME TypeOK, NothingTurnedDown, [Next]_vars
    PROVE  NothingTurnedDown'
<1>1. file' = file /\ crypto' = crypto
  BY DEF Next, vars, PreviewImportFile, FileRead, FileUnavailable, ParseEnds,
     WorkerAnswers, WorkerMessage, WorkerError, Abort, EntriesRead,
     EntriesUnavailable, Acknowledge, ApplyImport
<1> SUFFICES ASSUME WrittenFile(file), file.entries = "export", crypto
             PROVE  /\ answer' \in {"none", "accepted"}
                    /\ outcome' \notin RejectedKinds
                    /\ commit' # "refused"
  BY <1>1 DEF NothingTurnedDown, WrittenFile
<1>2. /\ answer \in {"none", "accepted"}
      /\ outcome \notin RejectedKinds
      /\ commit # "refused"
  BY DEF NothingTurnedDown
<1>3. file \in File /\ crypto = TRUE
  BY FilesAssumption DEF TypeOK
<1>4. ParsedVerified(file) /\ ParseImportPayload(file, crypto) = "accepted"
  BY <1>3, WrittenFilesVerify
<1>5. {"error", "aborted"} \cap RejectedKinds = {} /\ SuccessfulKinds \cap RejectedKinds = {}
  BY DEF RejectedKinds, Defects, Objections, SuccessfulKinds
<1>6. CASE PreviewImportFile \/ FileRead \/ FileUnavailable
  BY <1>2, <1>5, <1>6 DEF PreviewImportFile, FileRead, FileUnavailable, Settle
<1>7. CASE ParseEnds
  BY <1>2, <1>4, <1>7 DEF ParseEnds, Parsed
<1>8. CASE WorkerAnswers
  BY <1>2, <1>4, <1>8 DEF WorkerAnswers
<1>9. CASE WorkerMessage
  BY <1>2, <1>9 DEF WorkerMessage, Parsed
<1>10. CASE WorkerError \/ Abort \/ EntriesUnavailable
  BY <1>2, <1>5, <1>10 DEF WorkerError, Abort, EntriesUnavailable, Settle
<1>11. CASE EntriesRead
  BY <1>2, <1>5, <1>11 DEF EntriesRead, Settle, SuccessfulPreviewKind, SuccessfulKinds
<1>12. CASE Acknowledge
  BY <1>2, <1>12 DEF Acknowledge
<1>13. CASE ApplyImport
  BY <1>2, <1>4, <1>13 DEF ApplyImport
<1>14. CASE UNCHANGED vars
  BY <1>2, <1>14 DEF vars
<1> QED
  BY <1>6, <1>7, <1>8, <1>9, <1>10, <1>11, <1>12, <1>13, <1>14 DEF Next

(***************************************************************************)
(* Whichever files there are: a backup with its keys in the order of the   *)
(* exports is accepted, however the preview races with the panel.          *)
(***************************************************************************)
THEOREM OwnBackupsPass == Spec => []OwnBackupsAreAccepted
<1>1. Init => NothingTurnedDown
  BY DEF Init, NothingTurnedDown, RejectedKinds, Defects, Objections
<1>2. TypeOK /\ NothingTurnedDown /\ [Next]_vars => NothingTurnedDown'
  BY NotTurnedDownStep
<1>3. NothingTurnedDown => OwnBackupsAreAccepted
  BY DEF NothingTurnedDown, OwnBackupsAreAccepted
<1> QED
  BY <1>1, <1>2, <1>3, TypeCorrect, PTL DEF Spec

-------------------------------------------------------------------------------
(* The verdict does not depend on the path.                                *)

Verdict == ParseImportPayload(file, crypto)

(***************************************************************************)
(* A preview that succeeds is of a file the parser accepts and says its    *)
(* kind; one that is turned down says what the parser objects to.  It does *)
(* not matter whether the page or the worker parsed it, when the signal    *)
(* was aborted, or what raced: the one difference is that the worker       *)
(* reports an error as an invalid file (importPreviewWorker.ts).           *)
(***************************************************************************)
OutcomeIsVerdict ==
    /\ outcome \in SuccessfulKinds =>
           Verdict = "accepted" /\ outcome = SuccessfulPreviewKind(file)
    /\ outcome \in RejectedKinds =>
           \/ outcome = Verdict
           \/ outcome = "invalid" /\ Verdict = "error" /\ file.size = "large"

(***************************************************************************)
(* What the stages know of the verdict.                                    *)
(***************************************************************************)
VerdictInv ==
    /\ OutcomeIsVerdict
    /\ stage = "querying" => Verdict = "accepted"
    /\ worker # "none" => file.size = "large"
    /\ stage = "working" => worker # "none"
    /\ stage # "settled" => outcome = "none"
    /\ answer # "none" =>
           /\ worker # "none"
           /\ answer = IF Verdict = "error" THEN "invalid" ELSE Verdict

(***************************************************************************)
(* A preview that ends without a verdict says neither kind.                *)
(***************************************************************************)
LEMMA NoVerdictNoKind ==
    {"none", "aborted", "error", "accepted"} \cap (SuccessfulKinds \cup RejectedKinds) = {}
<1>1. Defects = {"unreadable", "blocked-key", "incompatible", "invalid"}
  BY DEF Defects, Objections
<1> QED
  BY <1>1 DEF RejectedKinds, SuccessfulKinds

(***************************************************************************)
(* Every step keeps what the stages know of the verdict.                   *)
(***************************************************************************)
LEMMA VerdictStep ==
    ASSUME TypeOK, VerdictInv, [Next]_vars
    PROVE  VerdictInv'
<1>0. /\ UNCHANGED <<file, crypto>>
      /\ Verdict \in {"accepted", "error"} \cup RejectedKinds
  <2>1. UNCHANGED <<file, crypto>>
    BY DEF Next, PreviewImportFile, FileRead, FileUnavailable, ParseEnds,
       WorkerAnswers, WorkerMessage, WorkerError, Abort, EntriesRead,
       EntriesUnavailable, Acknowledge, ApplyImport, vars
  <2> QED
    BY <2>1, FilesAssumption, VerdictFacts DEF TypeOK, Verdict
<1>a. /\ Verdict' = Verdict /\ file' = file
      /\ SuccessfulPreviewKind(file)' = SuccessfulPreviewKind(file)
      /\ SuccessfulPreviewKind(file) \in SuccessfulKinds
  BY <1>0, Zenon DEF Verdict, SuccessfulPreviewKind, SuccessfulKinds
<1>b. ASSUME outcome' \in {"none", "aborted", "error"} PROVE OutcomeIsVerdict'
  BY <1>b, NoVerdictNoKind DEF OutcomeIsVerdict
<1>c. ASSUME UNCHANGED outcome PROVE OutcomeIsVerdict'
  BY <1>c, <1>a DEF OutcomeIsVerdict, VerdictInv
<1>1. CASE PreviewImportFile \/ FileRead \/ FileUnavailable
  <2>1. /\ UNCHANGED answer /\ stage \in {"idle", "reading"}
        /\ stage' \in {"reading", "parsing", "working", "settled"}
        /\ outcome' \in {outcome, "aborted", "error"}
        /\ stage' # "settled" => outcome' = outcome
        /\ \/ worker' = worker /\ stage' # "working"
           \/ worker' = "running" /\ file.size = "large"
    BY <1>1 DEF PreviewImportFile, FileRead, FileUnavailable, Settle
  <2>2. OutcomeIsVerdict'
    BY <1>b, <2>1 DEF VerdictInv
  <2> QED
    BY <1>a, <2>1, <2>2 DEF VerdictInv
<1>2. CASE ParseEnds
  <2>1. /\ UNCHANGED <<worker, answer>> /\ stage = "parsing"
        /\ \/ Verdict = "accepted" /\ stage' = "querying" /\ UNCHANGED outcome
           \/ Verdict # "accepted" /\ stage' = "settled" /\ outcome' = Verdict
    BY <1>2 DEF ParseEnds, Parsed, Settle, Verdict
  <2>2. OutcomeIsVerdict'
    <3>1. CASE Verdict = "accepted"
      BY <1>c, <2>1, <3>1
    <3>2. CASE Verdict # "accepted"
      BY <1>0, <1>a, <2>1, <3>2, NoVerdictNoKind, KindsAreApart DEF OutcomeIsVerdict
    <3> QED
      BY <3>1, <3>2
  <2> QED
    BY <1>a, <2>1, <2>2 DEF VerdictInv
<1>3. CASE WorkerAnswers
  <2>1. /\ UNCHANGED <<worker, stage, outcome>> /\ worker = "running"
        /\ answer' = IF Verdict = "error" THEN "invalid" ELSE Verdict
    BY <1>3 DEF WorkerAnswers, Verdict
  <2> QED
    BY <1>a, <1>c, <2>1 DEF VerdictInv
<1>4. CASE WorkerMessage
  <2>1. /\ UNCHANGED answer /\ stage = "working" /\ worker' = "terminated"
        /\ answer # "none"
        /\ \/ answer = "accepted" /\ stage' = "querying" /\ UNCHANGED outcome
           \/ answer # "accepted" /\ stage' = "settled" /\ outcome' = answer
    BY <1>4 DEF WorkerMessage, Parsed, Settle
  <2>2. /\ answer = IF Verdict = "error" THEN "invalid" ELSE Verdict
        /\ file.size = "large"
    BY <2>1 DEF VerdictInv
  <2>3. OutcomeIsVerdict'
    <3>1. CASE answer = "accepted"
      BY <1>c, <2>1, <3>1
    <3>2. CASE answer # "accepted"
      <4>1. answer \in RejectedKinds
        BY <2>1, <3>2 DEF TypeOK
      <4> QED
        BY <1>a, <2>1, <2>2, <3>2, <4>1, KindsAreApart DEF OutcomeIsVerdict
    <3> QED
      BY <3>1, <3>2
  <2> QED
    BY <1>a, <2>1, <2>2, <2>3 DEF VerdictInv
<1>5. CASE WorkerError \/ EntriesUnavailable
  <2>1. /\ UNCHANGED answer /\ stage' = "settled" /\ outcome' = "error"
        /\ worker' = worker \/ (worker' = "terminated" /\ stage = "working")
    BY <1>5 DEF WorkerError, EntriesUnavailable, Settle
  <2> QED
    BY <1>a, <1>b, <2>1 DEF VerdictInv
<1>6. CASE Abort
  <2>1. /\ UNCHANGED answer
        /\ \/ /\ stage = "working" /\ stage' = "settled"
              /\ outcome' = "aborted" /\ worker' = "terminated"
           \/ UNCHANGED <<stage, worker, outcome>>
    BY <1>6 DEF Abort, Settle
  <2> QED
    BY <1>a, <1>b, <1>c, <2>1 DEF VerdictInv
<1>7. CASE EntriesRead
  <2>1. /\ UNCHANGED <<answer, worker>> /\ stage = "querying"
        /\ stage' = "settled" /\ outcome' = SuccessfulPreviewKind(file)
    BY <1>7 DEF EntriesRead, Settle
  <2>2. OutcomeIsVerdict'
    BY <1>a, <2>1, KindsAreApart DEF VerdictInv, OutcomeIsVerdict
  <2> QED
    BY <1>a, <2>1, <2>2 DEF VerdictInv
<1>8. CASE Acknowledge \/ ApplyImport \/ UNCHANGED vars
  <2>1. UNCHANGED <<stage, worker, answer, outcome>>
    BY <1>8 DEF Acknowledge, ApplyImport, vars
  <2> QED
    BY <1>a, <1>c, <2>1 DEF VerdictInv
<1> QED
  BY <1>1, <1>2, <1>3, <1>4, <1>5, <1>6, <1>7, <1>8 DEF Next

(***************************************************************************)
(* The stages know of the verdict in every reachable state.                *)
(***************************************************************************)
LEMMA VerdictInvHolds == Spec => []VerdictInv
<1>1. Init => VerdictInv
  BY NoVerdictNoKind DEF Init, VerdictInv, OutcomeIsVerdict
<1>2. TypeOK /\ VerdictInv /\ [Next]_vars => VerdictInv'
  BY VerdictStep
<1> QED
  BY <1>1, <1>2, TypeCorrect, PTL DEF Spec

(***************************************************************************)
(* Page and worker agree on every file, whatever races with the worker.    *)
(***************************************************************************)
THEOREM PathsAgree == Spec => []OutcomeIsVerdict
BY VerdictInvHolds, PTL DEF VerdictInv

-------------------------------------------------------------------------------
(* What the check at the commit refuses.                                   *)

(***************************************************************************)
(* An untagged file whose keys are in an order that no export of entries   *)
(* or of diagnostics, and no schema, puts them in.                         *)
(***************************************************************************)
Reordered(f) == ~f.tagged /\ (f.entries = "other" \/ f.diag = "other")

(***************************************************************************)
(* The preview verifies an untagged file in the order of its text, the     *)
(* commit in the orders of the export and the schema.  They differ on      *)
(* exactly these: what the commit refuses after an accepting preview is an *)
(* unaltered backup with reordered keys, and no such file is written.      *)
(***************************************************************************)
CommitRefusesReordered ==
    /\ commit = "refused" => Sealed(file) /\ Intact(file) /\ Reordered(file)
    /\ commit = "written" => ~(Sealed(file) /\ Reordered(file))

(***************************************************************************)
(* On files that the parser accepts, the second verification fails for     *)
(* reordered files only.                                                   *)
(***************************************************************************)
LEMMA SecondVerification ==
    ASSUME NEW f \in File, NEW subtle, Sealed(f),
           ParseImportPayload(f, subtle) = "accepted"
    PROVE  Intact(f) /\ (ParsedVerified(f) <=> ~Reordered(f))
<1>1. RawVerified(f)
  <2>1. CASE f.defects # {}
    <3>1. FirstObjection(f) \in Defects /\ "accepted" \notin Defects
      BY <2>1, ObjectionIsADefect DEF Defects, Objections
    <3> QED
      BY <2>1, <3>1 DEF ParseImportPayload
  <2>2. CASE f.defects = {}
    BY <2>2 DEF ParseImportPayload
  <2> QED
    BY <2>1, <2>2
<1>2. CASE f.tagged
  <2>1. ParsedVerified(f)
    BY <1>1, <1>2 DEF RawVerified, Sealed
  <2> QED
    BY <1>2, <2>1, VerifiedIsIntact DEF Reordered
<1>3. CASE ~f.tagged
  <2>1. f.tagged = FALSE /\ f.entries \in EntryOrders /\ f.diag \in DiagOrders
    BY <1>3 DEF File
  <2>2. f.seal = [content |-> f.content, tagged |-> FALSE,
                  entries |-> f.entries, diag |-> f.diag]
    BY <1>1, <1>3 DEF RawVerified, Sealed, Digest
  <2>3. \A order : f.seal = [content |-> f.content, tagged |-> FALSE,
                            entries |-> "export", diag |-> order]
                     <=> f.entries = "export" /\ f.diag = order
    <3>1. f.seal.entries = f.entries /\ f.seal.diag = f.diag
      BY <2>2
    <3>2. ASSUME NEW order, f.seal = [content |-> f.content, tagged |-> FALSE,
                                      entries |-> "export", diag |-> order]
          PROVE  f.entries = "export" /\ f.diag = order
      <4>1. f.seal.entries = "export" /\ f.seal.diag = order
        BY <3>2
      <4> QED
        BY <3>1, <4>1
    <3> QED
      BY <2>2, <3>2
  <2>4. ParsedVerified(f) <=> f.entries = "export" /\ f.diag # "other"
    <3>1. ParsedVerified(f) <=>
              \E order \in IF f.diag = "none" THEN {"none"} ELSE {"schema", "export"} :
                  f.seal = [content |-> f.content, tagged |-> FALSE,
                            entries |-> "export", diag |-> order]
      BY <2>1 DEF ParsedVerified, Digest
    <3> QED
      BY <2>1, <2>3, <3>1 DEF DiagOrders
  <2> QED
    BY <1>3, <2>1, <2>2, <2>4 DEF Reordered, Intact, EntryOrders
<1> QED
  BY <1>2, <1>3

(***************************************************************************)
(* Every step keeps what the commit has done in line with the file.        *)
(***************************************************************************)
LEMMA RefusalStep ==
    ASSUME TypeOK, VerdictInv, CommitRefusesReordered, [Next]_vars
    PROVE  CommitRefusesReordered'
<1>1. CASE UNCHANGED <<file, commit>>
  BY <1>1 DEF CommitRefusesReordered, Sealed, Intact, Reordered
<1>2. CASE ApplyImport
  <2>1. /\ file \in File /\ outcome \in SuccessfulKinds /\ UNCHANGED file
        /\ commit' = IF file.seal = Unsealed \/ ParsedVerified(file)
                     THEN "written" ELSE "refused"
    BY <1>2, FilesAssumption DEF ApplyImport, StagedPreview, TypeOK
  <2>2. ParseImportPayload(file, crypto) = "accepted"
    BY <2>1 DEF VerdictInv, OutcomeIsVerdict, Verdict
  <2>3. Sealed(file) => Intact(file) /\ (ParsedVerified(file) <=> ~Reordered(file))
    BY <2>1, <2>2, SecondVerification
  <2>4. /\ commit' = "refused" => Sealed(file) /\ Intact(file) /\ Reordered(file)
        /\ commit' = "written" => ~(Sealed(file) /\ Reordered(file))
    BY <2>1, <2>3 DEF Sealed
  <2> QED
    BY <2>1, <2>4 DEF CommitRefusesReordered, Sealed, Intact, Reordered
<1>3. CASE \/ PreviewImportFile \/ FileRead \/ FileUnavailable
           \/ ParseEnds \/ WorkerAnswers \/ WorkerMessage \/ WorkerError \/ Abort
           \/ EntriesRead \/ EntriesUnavailable \/ Acknowledge
           \/ UNCHANGED vars
  BY <1>1, <1>3 DEF PreviewImportFile, FileRead, FileUnavailable, ParseEnds,
     WorkerAnswers, WorkerMessage, WorkerError, Abort, EntriesRead,
     EntriesUnavailable, Acknowledge, vars
<1> QED
  BY <1>2, <1>3 DEF Next

(***************************************************************************)
(* The commit refuses, of what the preview accepted, exactly the unaltered *)
(* backups with reordered keys.                                            *)
(***************************************************************************)
THEOREM OnlyReorderedAreRefused == Spec => []CommitRefusesReordered
<1>1. Init => CommitRefusesReordered
  BY DEF Init, CommitRefusesReordered
<1>2. TypeOK /\ VerdictInv /\ CommitRefusesReordered /\ [Next]_vars
          => CommitRefusesReordered'
  BY RefusalStep
<1> QED
  BY <1>1, <1>2, TypeCorrect, VerdictInvHolds, PTL DEF Spec

-------------------------------------------------------------------------------
(* Aborting.                                                               *)

(***************************************************************************)
(* A worker runs only while somebody waits for it, and nobody waits for it *)
(* whose preview was aborted: what is left of an aborted preview is reads  *)
(* and parsing on the page, which end (AbortEndsPreview).                  *)
(***************************************************************************)
AbortedAwaitNoWorker ==
    /\ worker = "running" <=> stage = "working"
    /\ aborted => stage # "working"

(***************************************************************************)
(* No worker outlives its preview, and no aborted preview awaits one.      *)
(***************************************************************************)
THEOREM AbortReachesWorker == Spec => []AbortedAwaitNoWorker
<1>1. Init => AbortedAwaitNoWorker
  BY DEF Init, AbortedAwaitNoWorker
<1>2. TypeOK /\ AbortedAwaitNoWorker /\ [Next]_vars => AbortedAwaitNoWorker'
  <2> SUFFICES ASSUME TypeOK, AbortedAwaitNoWorker, [Next]_vars
               PROVE  AbortedAwaitNoWorker'
    OBVIOUS
  <2>1. CASE \/ PreviewImportFile \/ FileRead \/ FileUnavailable \/ Abort
    BY <2>1 DEF PreviewImportFile, FileRead, FileUnavailable, Abort, Settle,
       AbortedAwaitNoWorker
  <2>2. CASE ParseEnds \/ WorkerMessage \/ WorkerError
    BY <2>2 DEF ParseEnds, WorkerMessage, WorkerError, Parsed, Settle,
       AbortedAwaitNoWorker
  <2>3. CASE EntriesRead \/ EntriesUnavailable
    BY <2>3 DEF EntriesRead, EntriesUnavailable, Settle, AbortedAwaitNoWorker
  <2>4. CASE WorkerAnswers \/ Acknowledge \/ ApplyImport \/ UNCHANGED vars
    BY <2>4 DEF WorkerAnswers, Acknowledge, ApplyImport, vars, AbortedAwaitNoWorker
  <2> QED
    BY <2>1, <2>2, <2>3, <2>4 DEF Next
<1> QED
  BY <1>1, <1>2, TypeCorrect, PTL DEF Spec
===============================================================================
