------------------------------ MODULE ImportPreview ------------------------------
(***************************************************************************)
(* The life of one backup file in the import panel: previewImportFile      *)
(* reads it, parses it on the page or in the preview worker and classifies *)
(* it, the signal of the panel may abort that at any time, and applyImport *)
(* verifies the checksum once more before it writes.                       *)
(*                                                                         *)
(* A file is a record of what the code tells apart.  SHA-256 is taken to   *)
(* be injective, so a digest is the projection that was serialised: with   *)
(* the keys in the order they have where JSON.stringify did it, sorted     *)
(* where canonicalSerialize did.                                           *)
(***************************************************************************)
EXTENDS Naturals, Sequences

CONSTANT Files       \* the files an operator may select

VARIABLES
    file,      \* the selected file
    crypto,    \* the browser offers crypto.subtle
    stage,     \* where previewImportFile is
    worker,    \* the preview worker
    answer,    \* what the worker posted, if it has
    aborted,   \* the signal of the panel
    outcome,   \* how previewImportFile settled: a preview kind, or an exception
    ack,       \* riskyImportAcknowledged
    commit     \* what applyImport did

vars == <<file, crypto, stage, worker, answer, aborted, outcome, ack, commit>>

-------------------------------------------------------------------------------
(* Files.                                                                    *)

\* What parsing may object to, in the order in which it is looked at.
Objections == <<"unreadable", "blocked-key", "incompatible", "invalid">>
Defects == {Objections[i] : i \in 1..4}
Sizes == {"small", "large", "oversize"}
Ages == {"recent", "old", "future"}

\* Orders of the keys of an entry and of the crash diagnostics: as the exports
\* write them, as zod rebuilds them, or any other.  For entries the first two
\* are the same order.
EntryOrders == {"export", "other"}
DiagOrders == {"none", "export", "schema", "other"}

Digest(content, tagged, entries, diag) ==
    [content |-> content, tagged |-> tagged,
     entries |-> IF tagged THEN "sorted" ELSE entries,
     diag |-> IF tagged /\ diag # "none" THEN "sorted" ELSE diag]
Unsealed == Digest("none", FALSE, "none", "none")

Contents == {"written", "altered"}
File == [size : Sizes, age : Ages, defects : SUBSET Defects, content : Contents,
         tagged : BOOLEAN, entries : EntryOrders, diag : DiagOrders,
         seal : {Unsealed} \cup
                {Digest(c, g, e, d) : c \in Contents, g \in BOOLEAN,
                                      e \in EntryOrders, d \in DiagOrders}]

ASSUME FilesAssumption == Files \subseteq File

\* A file as an export wrote it: by this build (createJsonExport and
\* createCrashJsonExport), or untagged by a build before ADR 0034.
WrittenFile(f) ==
    /\ f.defects = {} /\ f.content = "written" /\ f.diag \in {"none", "export"}
    /\ f.tagged => f.entries = "export"
    /\ f.seal = Digest(f.content, f.tagged, f.entries, f.diag)

-------------------------------------------------------------------------------
(* Parsing, verification and classification.                                 *)

\* Mutant: the result of the canonical comparison is not looked at.
ParsedVerifiedLegacyOnly(f) ==
    \/ f.tagged
    \/ f.seal = Digest(f.content, FALSE, "export", f.diag)

\* Mutant: without buildCrashDiagnosticsInExportOrder.
ParsedVerifiedInSchemaOrder(f) ==
    f.seal = Digest(f.content, f.tagged, "export",
                    IF f.diag = "none" THEN "none" ELSE "schema")

\* verifyParsedExportChecksum, over the payload as zod rebuilt it.
ParsedVerified(f) ==
    LET seen == {"schema"} \cup (IF f.tagged THEN {} ELSE {"export"})
    IN  \E order \in IF f.diag = "none" THEN {"none"} ELSE seen :
            f.seal = Digest(f.content, f.tagged, "export", order)

\* verifyExportChecksum: an untagged file is verified in the order of its text.
RawVerified(f) ==
    \/ f.seal = Unsealed
    \/ IF f.tagged THEN ParsedVerified(f)
                   ELSE f.seal = Digest(f.content, FALSE, f.entries, f.diag)

FirstObjection(f) ==
    LET met(i) == Objections[i] \in f.defects
    IN  Objections[CHOOSE i \in 1..4 : met(i) /\ \A j \in 1..(i - 1) : ~met(j)]

\* parseImportPayload: the first objection, or none.  Only the digest of a
\* sealed file needs crypto.subtle.
ParseImportPayload(f, subtle) ==
    IF f.defects # {} THEN FirstObjection(f)
    ELSE IF f.seal # Unsealed /\ ~subtle THEN "error"
    ELSE IF RawVerified(f) THEN "accepted" ELSE "checksum-failed"

\* A date in the future counts as no age at all.
SuccessfulPreviewKind(f) ==
    IF f.seal = Unsealed THEN "legacy-unverified"
    ELSE IF f.age = "old" THEN "stale" ELSE "good"

RejectedKinds == Defects \cup {"checksum-failed"}
SuccessfulKinds == {"good", "stale", "legacy-unverified"}

-------------------------------------------------------------------------------
TypeOK ==
    /\ file \in Files /\ crypto \in BOOLEAN
    /\ stage \in {"idle", "reading", "parsing", "working", "querying", "settled"}
    /\ worker \in {"none", "running", "terminated"}
    /\ answer \in {"none", "accepted"} \cup RejectedKinds
    /\ aborted \in BOOLEAN
    /\ outcome \in {"none", "aborted", "error"} \cup RejectedKinds \cup SuccessfulKinds
    /\ ack \in BOOLEAN
    /\ commit \in {"none", "written", "refused"}

Init ==
    /\ file \in Files /\ crypto \in BOOLEAN
    /\ stage = "idle" /\ worker = "none" /\ answer = "none"
    /\ aborted = FALSE /\ outcome = "none" /\ ack = FALSE /\ commit = "none"

Settle(how) == stage' = "settled" /\ outcome' = how

\* The size is tested before the try that turns errors into previews, so an
\* oversize file ends as an exception.
PreviewImportFile ==
    /\ stage = "idle"
    /\ IF file.size = "oversize" THEN Settle("error")
                                 ELSE stage' = "reading" /\ UNCHANGED outcome
    /\ UNCHANGED <<file, crypto, worker, answer, aborted, ack, commit>>

FileRead ==
    /\ stage = "reading"
    /\ \/ aborted /\ Settle("aborted") /\ UNCHANGED worker
       \/ /\ ~aborted /\ UNCHANGED outcome
          /\ IF file.size = "large"
             THEN stage' = "working" /\ worker' = "running"
             ELSE stage' = "parsing" /\ UNCHANGED worker
    /\ UNCHANGED <<file, crypto, answer, aborted, ack, commit>>

FileUnavailable ==
    /\ stage = "reading"
    /\ Settle("error")
    /\ UNCHANGED <<file, crypto, worker, answer, aborted, ack, commit>>

Parsed(verdict) ==
    IF verdict = "accepted" THEN stage' = "querying" /\ UNCHANGED outcome
                            ELSE Settle(verdict)

\* On the page nobody asks whether the preview was aborted while it parsed.
ParseEnds ==
    /\ stage = "parsing"
    /\ Parsed(ParseImportPayload(file, crypto))
    /\ UNCHANGED <<file, crypto, worker, answer, aborted, ack, commit>>

\* The worker answers an unexpected error as an invalid file.
WorkerAnswers ==
    /\ worker = "running" /\ answer = "none"
    /\ LET verdict == ParseImportPayload(file, crypto)
       IN  answer' = IF verdict = "error" THEN "invalid" ELSE verdict
    /\ UNCHANGED <<file, crypto, stage, worker, aborted, outcome, ack, commit>>

WorkerMessage ==
    /\ stage = "working" /\ answer # "none"
    /\ worker' = "terminated"
    /\ Parsed(answer)
    /\ UNCHANGED <<file, crypto, answer, aborted, ack, commit>>

WorkerError ==
    /\ stage = "working"
    /\ worker' = "terminated"
    /\ Settle("error")
    /\ UNCHANGED <<file, crypto, answer, aborted, ack, commit>>

\* Mutant: the signal is only looked at between awaits.
AbortUnheard ==
    /\ ~aborted /\ stage \notin {"idle", "settled"}
    /\ aborted' = TRUE
    /\ UNCHANGED <<file, crypto, stage, worker, outcome, answer, ack, commit>>

\* A newer selection or clearPendingImport.
Abort ==
    /\ ~aborted /\ stage \notin {"idle", "settled"}
    /\ aborted' = TRUE
    /\ IF stage = "working" THEN Settle("aborted") /\ worker' = "terminated"
                            ELSE UNCHANGED <<stage, worker, outcome>>
    /\ UNCHANGED <<file, crypto, answer, ack, commit>>

EntriesRead ==
    /\ stage = "querying"
    /\ Settle(SuccessfulPreviewKind(file))
    /\ UNCHANGED <<file, crypto, worker, answer, aborted, ack, commit>>

EntriesUnavailable ==
    /\ stage = "querying"
    /\ Settle("error")
    /\ UNCHANGED <<file, crypto, worker, answer, aborted, ack, commit>>

\* The panel stages the preview unless its signal was aborted meanwhile.
StagedPreview == outcome \in SuccessfulKinds /\ ~aborted /\ commit = "none"

Acknowledge ==
    /\ StagedPreview /\ outcome # "good"
    /\ ack' = ~ack
    /\ UNCHANGED <<file, crypto, stage, worker, answer, aborted, outcome, commit>>

\* applyImport's own check precedes the transaction that UndoImport describes.
ApplyImport ==
    /\ StagedPreview
    /\ outcome # "good" => ack
    /\ commit' = IF file.seal = Unsealed \/ ParsedVerified(file)
                 THEN "written" ELSE "refused"
    /\ UNCHANGED <<file, crypto, stage, worker, answer, aborted, outcome, ack>>

Next ==
    \/ PreviewImportFile \/ FileRead \/ FileUnavailable
    \/ ParseEnds \/ WorkerAnswers \/ WorkerMessage \/ WorkerError \/ Abort
    \/ EntriesRead \/ EntriesUnavailable \/ Acknowledge \/ ApplyImport

Spec == Init /\ [][Next]_vars

\* Reads and parsing end; the worker may hang, and nobody has to abort.
Fairness == WF_vars(FileRead) /\ WF_vars(ParseEnds) /\ WF_vars(EntriesRead)
FairSpec == Spec /\ Fairness

-------------------------------------------------------------------------------
(* Properties.                                                               *)

Sealed(f) == f.seal # Unsealed
Intact(f) == f.seal.content = f.content

(***************************************************************************)
(* What reaches the table was not changed after it was exported, or had no *)
(* checksum and was acknowledged, as an old backup has to be: ADR 0012 and *)
(* 0033, with the checksum verified twice, over two different projections  *)
(* of an untagged file, whichever of the two paths parsed it.              *)
(***************************************************************************)
OnlyTrustedFilesAreWritten ==
    commit = "written" =>
        /\ file.defects = {}
        /\ Sealed(file) => Intact(file)
        /\ (~Sealed(file) \/ file.age = "old") => ack

(***************************************************************************)
(* A backup that this build or an older one wrote, with its keys in the    *)
(* order of the exports, is neither rejected by the preview nor refused at *)
(* the commit, although the commit sees the keys in the order of the       *)
(* schema (buildCrashDiagnosticsInExportOrder).                            *)
(***************************************************************************)
OwnBackupsAreAccepted ==
    WrittenFile(file) /\ file.entries = "export" /\ crypto =>
        outcome \notin RejectedKinds /\ commit # "refused"

(***************************************************************************)
(* An aborted preview ends, also when the worker never answers, and no     *)
(* worker outlives it, however answer, error and abort race: the panel     *)
(* awaits the preview before it clears the file input.                     *)
(***************************************************************************)
AbortEndsPreview == aborted ~> (stage = "settled" /\ worker # "running")
===============================================================================
