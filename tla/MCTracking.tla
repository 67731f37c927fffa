------------------------------- MODULE MCTracking -------------------------------
(* Instances of CommandTracking for TLC. *)
EXTENDS CommandTracking

CONSTANTS t1, t2, a1, a2
================================================================================
