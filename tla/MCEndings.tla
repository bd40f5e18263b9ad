------------------------------ MODULE MCEndings -------------------------------
(***************************************************************************)
(* What srm has started and must end, for model-checking under fairness:   *)
(* the operations of a session of the terminal UI, and the swap of an      *)
(* agent that may be killed.  The two parts do not meet.  Of the session   *)
(* there are two scenes: one without filters and one without forms.        *)
(***************************************************************************)
EXTENDS TuiSession, AgentUpgrade

VARIABLE part

endingsVars == <<part, sessionVars, vars>>

\* The part that is not shown stays as it begins; no action that fairness asks for
\* is enabled there.
EndingsInit ==
  /\ part \in {"forms", "filters", "swap"}
  /\ SessionInit /\ Init

EndingsNext ==
  /\ UNCHANGED part
  /\ \/ part = "forms"   /\ SessionNext /\ filters' = {} /\ UNCHANGED vars
     \/ part = "filters" /\ SessionNext /\ form' = None  /\ UNCHANGED vars
     \/ part = "swap"    /\ Next /\ UNCHANGED sessionVars

EndingsSpec ==
  EndingsInit /\ [][EndingsNext]_endingsVars /\ SessionFairness /\ Fairness

\* What srm has started ends: the operation and the refresh of a session that is left
\* to itself, the upgrade that is not killed (opProgressMsg, autoTickMsg,
\* UpgradeRunnerAgent).
WhatIsStartedEnds ==
  OpEndsUndisturbed /\ AutoStaysArmed /\ UpgradeReturns /\ UpgradeCountsDown
=============================================================================
