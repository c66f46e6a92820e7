--------------------------- MODULE MCImportWorkflow ---------------------------
(* Instances of ImportWorkflow for TLC.                                    *)
EXTENDS ImportWorkflow, TLC

CONSTANTS s1, s2

SaveSymmetry == Permutations(Saves)
===============================================================================
