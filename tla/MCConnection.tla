------------------------------ MODULE MCConnection ------------------------------
(* Instances of ClientConnection for TLC. *)
EXTENDS ClientConnection, TLC

CONSTANTS a1, a2

SymApps == Permutations(Apps)
================================================================================
