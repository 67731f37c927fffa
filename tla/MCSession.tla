------------------------------- MODULE MCSession -------------------------------
(***************************************************************************)
(* An instance of ClientSession for TLC.                                   *)
(***************************************************************************)
EXTENDS ClientSession

CONSTANTS c1, v1, a

SmallClients == {c1}
Request(period, size) == [period |-> period, interval |-> 0, size |-> size, compare |-> FALSE]
TwoSaves == {Request("Tick", 8), Request("Once", 4)}
================================================================================
