-------------------------------- MODULE MCNames --------------------------------
(* Instances of MappedNames for TLC. *)
EXTENDS MappedNames, TLC

CONSTANTS t1, t2, custom1, custom2, key, var1, var2

Symmetries == Permutations({t1, t2}) \cup Permutations({var1, var2}) \cup Permutations({custom1, custom2})
================================================================================
