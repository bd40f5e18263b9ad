--------------------------- MODULE MCManagerConfig ---------------------------
(***************************************************************************)
(* Two goroutines of one srm process for model-checking ManagerConfig.     *)
(***************************************************************************)
EXTENDS ManagerConfig, TLC

CONSTANTS t1, t2

Symmetry == Permutations(Tasks)
=============================================================================
