------------------------------ MODULE MCUpgrades ------------------------------
(***************************************************************************)
(* Agent upgrades for model-checking: the swap of one runner's agent,      *)
(* step by step, and the commands of a small host, which take the swap as  *)
(* one step.  The two parts do not meet: a behaviour shows one of them.    *)
(***************************************************************************)
EXTENDS AgentUpgrade, RunnerManifest, TLC

CONSTANTS c1, n1, n2, o1, o2, o3, x1
VARIABLE part

upgradesVars == <<part, vars, manifestVars>>

\* The ids of one host are interchangeable, and so are runner names.
Symmetry == Permutations(Names) \cup Permutations(OwnIds)

\* The part that is not shown stays as it begins, in one of its beginnings.
UpgradesInit ==
  /\ part \in {"swap", "commands"}
  /\ Init /\ ManifestInit
  /\ part = "swap" => pub = 1 /\ gh = [n \in Names |-> NoId]

UpgradesNext ==
  /\ UNCHANGED part
  /\ \/ part = "swap"     /\ Next         /\ UNCHANGED manifestVars
     \/ part = "commands" /\ ManifestNext /\ UNCHANGED vars

UpgradesSpec == UpgradesInit /\ [][UpgradesNext]_upgradesVars
=============================================================================
