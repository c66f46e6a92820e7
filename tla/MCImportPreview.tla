---------------------------- MODULE MCImportPreview ----------------------------
(* Instances of ImportPreview for TLC.                                     *)
EXTENDS ImportPreview, FiniteSets

\* Files as some build wrote them, with a checksum or without.
Exported ==
    {f \in [size : {"small"}, age : {"recent"}, defects : {{}}, content : {"written"},
            tagged : BOOLEAN, entries : EntryOrders, diag : {"none", "export"},
            seal : {Digest("written", g, e, d) : g \in BOOLEAN, e \in EntryOrders,
                                                 d \in {"none", "export"}}] :
        WrittenFile(f)}
Unchecked == {[f EXCEPT !.seal = Unsealed, !.tagged = FALSE] : f \in Exported}

\* What may have happened to the text since: the contents or the tag changed,
\* the keys reordered, the checksum removed.
Altered ==
    {[f EXCEPT !.content = c, !.tagged = g, !.entries = e, !.diag = d, !.seal = s] :
        f \in Exported, c \in Contents, g \in BOOLEAN, e \in EntryOrders,
        d \in DiagOrders, s \in {Unsealed} \cup {x.seal : x \in Exported}}

\* Files with one or two defects, which no checksum is verified for.
Defective ==
    {[f EXCEPT !.defects = ds] :
        f \in Exported, ds \in {x \in SUBSET Defects : Cardinality(x) \in 1..2}}

MCFiles == {[f EXCEPT !.size = z, !.age = a] :
               f \in Exported \cup Unchecked \cup Altered \cup Defective,
               z \in Sizes, a \in Ages}
===============================================================================
