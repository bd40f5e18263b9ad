---------------------------- MODULE AtomicUpgrade ----------------------------
(***************************************************************************)
(* What the upgrade pass takes UpgradeRunnerAgent to be: "atomic from the  *)
(* caller's view".  A request either installs its goal or leaves the agent *)
(* the runner had; nothing else is ever installed.                         *)
(***************************************************************************)
CONSTANT Agents
VARIABLES agent, busy, goal

Init == agent \in Agents /\ busy = FALSE /\ goal \in Agents

Request ==
  /\ ~busy
  /\ busy' = TRUE
  /\ goal' \in Agents
  /\ UNCHANGED agent

Return ==
  /\ busy
  /\ busy' = FALSE
  /\ agent' \in {agent, goal}
  /\ UNCHANGED goal

Next == Request \/ Return

Spec == Init /\ [][Next]_<<agent, busy, goal>>
=============================================================================
