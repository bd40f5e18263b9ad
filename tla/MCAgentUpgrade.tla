---------------------------- MODULE MCAgentUpgrade ----------------------------
(***************************************************************************)
(* Versions for model-checking AgentUpgrade: the installed one, a healthy  *)
(* and an unhealthy release.                                               *)
(***************************************************************************)
EXTENDS AgentUpgrade
===============================================================================
