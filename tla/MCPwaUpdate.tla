---------------------------- MODULE MCPwaUpdate ----------------------------
(* Instances of PwaUpdate for TLC. *)
EXTENDS PwaUpdate, TLC

CONSTANTS t1, t2

TabSymmetry == Permutations(Tabs)
=============================================================================
