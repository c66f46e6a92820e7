----------------------------- MODULE MCUndoImport -----------------------------
(* Instances of UndoImport for TLC.                                        *)
EXTENDS UndoImport, TLC

CONSTANTS t1, t2, id1, id2, body, work, nominal, degraded

OneStatusFile == [k \in {body} |-> degraded]

\* An empty file is accepted too: the import schema bounds entries from above.
MCPayloads == {<<>>, OneStatusFile}

EmptyFile == {<<>>}

OwnIds == (t1 :> id1) @@ (t2 :> id2)
SharedId == (t1 :> id1) @@ (t2 :> id1)
===============================================================================
