---------------------------- MODULE MCTuiSession ----------------------------
(***************************************************************************)
(* Sessions of a few tabs, operations and panels for model-checking        *)
(* TuiSession.                                                             *)
(***************************************************************************)
EXTENDS TuiSession, TLC
=============================================================================
