------------------------------- MODULE JobLane -------------------------------
(***************************************************************************)
(* What an ephemeral lane promises to the jobs it is given, with GitHub,   *)
(* systemd, the jit-id file and the operators abstracted away: a lane is   *)
(* empty, ready (a fresh registration is online and the workspace has been *)
(* wiped), or working on one job.  It becomes ready anew before every job: *)
(* a registration never serves a second job, and a job never starts in the *)
(* workspace of an earlier one.                                            *)
(***************************************************************************)
CONSTANT Lanes
VARIABLE stage

Init == stage = [l \in Lanes |-> "empty"]

\* A fresh registration comes online on a clean workspace.
Prepare(l) == stage[l] = "empty" /\ stage' = [stage EXCEPT ![l] = "ready"]

\* GitHub dispatches a job.
Work(l) == stage[l] = "ready" /\ stage' = [stage EXCEPT ![l] = "working"]

\* The job ends, or the lane loses its registration or its process.
Leave(l) == stage[l] # "empty" /\ stage' = [stage EXCEPT ![l] = "empty"]

Next == \E l \in Lanes : Prepare(l) \/ Work(l) \/ Leave(l)

Spec == Init /\ [][Next]_stage
=============================================================================
