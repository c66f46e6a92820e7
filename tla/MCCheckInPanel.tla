---------------------------- MODULE MCCheckInPanel ----------------------------
(* Instances of CheckInPanel for TLC. *)
EXTENDS CheckInPanel, TLC

CONSTANTS body, work, nominal, none, w1, w2
===============================================================================
