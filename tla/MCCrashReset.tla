----------------------------- MODULE MCCrashReset -----------------------------
(* Instances of CrashReset for TLC. *)
EXTENDS CrashReset, TLC

CONSTANTS older, newer, broken, peer
===============================================================================
