---------------------------- MODULE MCDbConnection ----------------------------
(* Instances of DbConnection for TLC.                                      *)
EXTENDS DbConnection, TLC

CONSTANTS c1, c2
===============================================================================
