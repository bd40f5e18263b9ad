---------------------------- MODULE MCLaneScenes -----------------------------
(***************************************************************************)
(* EphemeralLane under different surroundings, for model-checking: what    *)
(* operators do next to the lane and what fails.                           *)
(***************************************************************************)
EXTENDS MCEphemeralLane

VARIABLE scene

sceneVars == <<vars, scene>>

\* Every operator command, two faults of any kind but a failed ClearJIT.
Operated == INSTANCE EphemeralLane WITH
  Kinds <- OpKinds, Faults <- FaultKinds \ {"clear"}, MaxFaults <- 2

\* A reap, three such faults.
Faulty == INSTANCE EphemeralLane WITH
  Kinds <- {"reap"}, Faults <- FaultKinds \ {"clear"}, MaxFaults <- 3

\* No operator, three faults of every kind.
Clearing == INSTANCE EphemeralLane WITH
  Kinds <- {}, Faults <- FaultKinds, MaxFaults <- 3

\* A reap, two faults that leave GitHub's answers and the clearing of records alone.
Steady == INSTANCE EphemeralLane WITH
  Kinds <- {"reap"}, Faults <- {"crash", "record", "reset"}, MaxFaults <- 2

SceneInit == Init /\ scene \in {"operated", "faulty", "clearing", "steady"}

SceneNext ==
  /\ UNCHANGED scene
  /\ \/ scene = "operated" /\ Operated!Next
     \/ scene = "faulty"   /\ Faulty!Next
     \/ scene = "clearing" /\ Clearing!Next
     \/ scene = "steady"   /\ Steady!Next

SceneCycle(l) ==
  \/ scene = "operated" /\ Operated!CycleStep(l)
  \/ scene = "faulty"   /\ Faulty!CycleStep(l)
  \/ scene = "clearing" /\ Clearing!CycleStep(l)
  \/ scene = "steady"   /\ Steady!CycleStep(l)

\* systemd keeps restarting an enabled unit (Restart=always, no start limit:
\* StartLimitIntervalSec=0), and a started process keeps running.  Nothing is
\* assumed of jobs, of operators or of the agent.
SceneSpec ==
  /\ SceneInit /\ [][SceneNext]_sceneVars
  /\ \A l \in Lanes : WF_vars(StartCycle(l)) /\ WF_vars(SceneCycle(l))

-----------------------------------------------------------------------------
\* Every orphan has cost a fault of its own (RecordJIT, RunCycle), with no operator
\* that destroys lanes.
OrphansCostFaults == [](scene # "operated" => OrphansBounded)

\* While GitHub answers, the record of an id goes away only once the registration is
\* gone, or a newer id is written over it (RunCycle, ClearJIT).
ClearedOnlyWhenGone == [][scene = "steady" => ClearsOnlyWhenGone]_sceneVars

\* While GitHub answers, a registration that is recorded but that no cycle holds
\* any more is deregistered by a later cycle of the lane.
RecordedIsReaped ==
  \A id \in Ids :
    (/\ scene = "steady" /\ reg[id] # "none"
     /\ jitId[Owner[id]] = id /\ cur[Owner[id]] # id) ~> (reg[id] = "none")

\* Whatever finitely many faults happen, a lane that no operator takes down always
\* gets back to an agent that waits for or runs a job.
LaneServes ==
  \A l \in Lanes : [](scene \in {"clearing", "steady"} => <>(pc[l] = "agent"))

\* What the lane leaves on GitHub is settled: no more is lost track of than faults
\* have cost, a record goes only after its registration, and what is recorded is
\* reaped (RunCycle's opening lines and its last ones).
LeftoversAreSettled == OrphansCostFaults /\ ClearedOnlyWhenGone /\ RecordedIsReaped
=============================================================================
