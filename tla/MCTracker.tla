------------------------------- MODULE MCTracker -------------------------------
(* Instances of RequestTracker for TLC. *)
EXTENDS RequestTracker, TLC

CONSTANTS t1, t2, h1, h2

SymThreads == Permutations(Threads)
================================================================================
