-------------------------------- MODULE MCServer --------------------------------
(***************************************************************************)
(* Instances of WASimModule for TLC.  The cfgs choose which part of the    *)
(* server is given enough ids and values to be interesting.                *)
(***************************************************************************)
EXTENDS WASimModule, TLC

CONSTANTS c1, c2, v1, v2

SymClients == Permutations(Clients)
================================================================================
