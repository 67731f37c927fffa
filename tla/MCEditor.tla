-------------------------------- MODULE MCEditor --------------------------------
(***************************************************************************)
(* The instance of RequestEditor for TLC.                                  *)
(***************************************************************************)
EXTENDS RequestEditor, TLC

CONSTANTS k1, k2

SymKeys == Permutations(Keys)
================================================================================
