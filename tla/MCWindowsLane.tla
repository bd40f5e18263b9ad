--------------------------- MODULE MCWindowsLane ---------------------------
(***************************************************************************)
(* A lane and a persistent runner with a few registrations and processes   *)
(* for model-checking WindowsLane.                                         *)
(***************************************************************************)
EXTENDS WindowsLane, TLC

CONSTANTS i1, i2, i3

Symmetry == Permutations(Ids)
=============================================================================
