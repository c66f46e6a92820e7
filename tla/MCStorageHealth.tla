---------------------------- MODULE MCStorageHealth ----------------------------
(* Instances of StorageHealth for TLC. *)
EXTENDS StorageHealth, TLC

CONSTANTS r1, r2
===============================================================================
