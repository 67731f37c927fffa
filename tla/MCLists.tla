-------------------------------- MODULE MCLists --------------------------------
(* Instances of ListRequests for TLC. *)
EXTENDS ListRequests

CONSTANTS t1, t2
================================================================================
