-------------------------- MODULE WindowsLaneProofs --------------------------
(***************************************************************************)
(* At most one agent lives in the tree of a Windows lane, and it serves    *)
(* one job from a clean slate; what a command reports of a Windows service *)
(* is so when it returns: for any registrations, with and without limits,  *)
(* and for any faults and any number of them.                              *)
(***************************************************************************)
EXTENDS WindowsLane, FiniteSetTheorems, SequenceTheorems, TLAPS

-----------------------------------------------------------------------------
(* The invariant.                                                          *)

\* The steps of a cycle at which the supervisor holds a registration.
Holding == {"reap", "reapClear", "record", "undo", "reset", "start", "assign", "wait", "settle", "settleDelete",
            "settleClear"}

\* The agent of the cycle has not been started yet.
Unspawned == sup \in {"record", "reset", "start"} \/ (sup \in {"assign", "wait"} /\ own = NoId)

\* A persistent runner has no supervisor; a job object is open while its cycle waits.
SupervisorFits ==
  /\ kind = "runner" => sup = "none"
  /\ sup \in Holding => cur \in Ids
  /\ job # {} => sup = "wait" /\ job = {cur}

\* An agent starts in an empty tree, and alone.
SpawnsAlone ==
  /\ sup = "start" => agents = {}
  /\ sup \in {"assign", "wait"} => agents \subseteq {own} /\ own \in {NoId, cur}
  /\ kind = "lane" => \A i, j \in agents : i = j

\* It is registered anew, and waits on a clean slate.
SpawnsAnew ==
  /\ Unspawned => reg[cur] \in {"none", "offline"} /\ cur \notin agents
  /\ sup = "start" \/ (sup \in {"assign", "wait"} /\ own = NoId) => slate = "clean"
  /\ kind = "lane" => \A i \in agents : reg[i] \in {"offline", "idle"} => slate = "clean"

TreeInv == TypeOK /\ SupervisorFits /\ SpawnsAlone /\ SpawnsAnew


-----------------------------------------------------------------------------
(* The commands, the SCM and the persistent runner.                        *)

\* What every step but a lane's own does to the service of a lane: nothing happens to a
\* process that runs but that it may be told to stop, or lose its agents.
Outside ==
  /\ ScmTypeOK' /\ kind' = kind
  /\ agents' \subseteq agents
  /\ own' = own
  /\ svc \in {"running", "stopPending"} => svc' \in {"running", "stopPending"}

LEMMA ResultsFit ==
  /\ \A s : ScmTypeOK /\ Then(s) => result' \in {"none", "ok", "error", "rolledBack", "down"}
  /\ ScmTypeOK /\ Done => result' \in {"none", "ok", "error", "rolledBack", "down"}
  /\ Failed => result' \in {"none", "ok", "error", "rolledBack", "down"}
BY DEF Then, Done, Failed, ScmTypeOK

LEMMA FaultsFit ==
  /\ \A k : ScmTypeOK /\ Fault(k) => faults' \subseteq Faults
  /\ ScmTypeOK /\ NoFault => faults' \subseteq Faults
BY DEF Fault, NoFault, ScmTypeOK

LEMMA StepsStayOutside ==
  ASSUME ScmTypeOK, ScmSteps
  PROVE  ScmTypeOK' /\ kind' = kind /\ (kind = "lane" => Outside)
<1> USE DEF Outside
<1>0. /\ \A s : Then(s) => result' \in {"none", "ok", "error", "rolledBack", "down"}
      /\ Done => result' \in {"none", "ok", "error", "rolledBack", "down"}
      /\ Failed => result' \in {"none", "ok", "error", "rolledBack", "down"}
      /\ \A k : Fault(k) => faults' \subseteq Faults
      /\ NoFault => faults' \subseteq Faults
      /\ UNCHANGED faults => faults' \subseteq Faults
      /\ UNCHANGED result => result' \in {"none", "ok", "error", "rolledBack", "down"}
  BY ResultsFit, FaultsFit DEF ScmTypeOK
<1>1. CASE Stop
  BY <1>0, <1>1 DEF Stop, SendStop, ScmTypeOK, Pending, host
<1>2. CASE WaitStopped
  BY <1>0, <1>2 DEF WaitStopped, Settles, ScmTypeOK, Pending, host, svcVars
<1>3. CASE WaitGone
  BY <1>0, <1>3 DEF WaitGone, Settles, ScmTypeOK, Pending, host, svcVars
<1>4. CASE Delete
  BY <1>0, <1>4 DEF Delete, ScmTypeOK, Pending, host
<1>5. CASE KillAgents
  <2>1. agents' \subseteq agents /\ (kind = "lane" => UNCHANGED <<svc, own>>) /\ kind' = kind
    BY <1>5 DEF KillAgents
  <2>2. faults' \subseteq Faults /\ result' \in {"none", "ok", "error", "rolledBack", "down"}
    BY <1>0, <1>5 DEF KillAgents
  <2>3. svc' \in {"absent", "stopped", "running"} \cup Pending /\ own' \in Ids \cup {NoId}
    BY <1>5 DEF KillAgents, ProcessGone, ScmTypeOK
  <2>4. doomed' \in BOOLEAN
    BY <1>5 DEF KillAgents, ProcessGone, ScmTypeOK
  <2>5. ScmTypeOK'
    BY <1>5, <2>1, <2>2, <2>3, <2>4 DEF KillAgents, ScmTypeOK
  <2> QED BY <2>1, <2>5
<1>6. CASE RemoveTree
  <2>1. tree' \in Payloads /\ snap' \in Payloads /\ (Done \/ Failed)
    BY <1>6 DEF RemoveTree, ScmTypeOK, Payloads
  <2>2. NoFault /\ UNCHANGED <<svc, doomed, own, penv, env, agents, kind>>
    BY <1>6 DEF RemoveTree, svcVars
  <2> QED BY <1>0, <2>1, <2>2 DEF ScmTypeOK
<1>7. CASE Extract
  BY <1>0, <1>7 DEF Extract, ScmTypeOK, Payloads, Pending, svcVars
<1>8. CASE Configure
  BY <1>0, <1>8 DEF Configure, ScmTypeOK, Pending
<1>9. CASE writeServiceEnvironment
  BY <1>0, <1>9 DEF writeServiceEnvironment, ScmTypeOK, Pending, svcVars
<1>10. CASE waitServiceRunning
  BY <1>0, <1>10 DEF waitServiceRunning, ScmTypeOK, Pending, host, svcVars
<1>11. CASE RequestStop
  BY <1>0, <1>11 DEF RequestStop, SendStop, ScmTypeOK, Pending, host
<1>12. CASE StopSettled
  BY <1>0, <1>12 DEF StopSettled, Settles, ScmTypeOK, Pending, host, svcVars
<1>13. CASE startService
  BY <1>0, <1>13 DEF startService, SendStart, CanStart, ScmTypeOK, Pending, host
<1>14. CASE TryStart
  BY <1>0, <1>14 DEF TryStart, SendStart, CanStart, ScmTypeOK, Pending, host
<1>15. CASE waitRunning
  BY <1>0, <1>15 DEF waitRunning, ScmTypeOK, Pending, host, svcVars
<1>16. CASE Recover
  BY <1>0, <1>16 DEF Recover, ScmTypeOK, Payloads, Pending, svcVars
<1>17. CASE Snapshot
  <2>1. /\ tree' \in Payloads
        /\ result' \in {"none", "ok", "error", "rolledBack", "down"}
    BY <1>17 DEF Snapshot, ScmTypeOK, Payloads
  <2>2. snap' \in Payloads
    BY <1>17 DEF Snapshot, ScmTypeOK, Payloads
  <2>3. UNCHANGED <<svc, doomed, own, penv, env, agents, kind, faults>>
    BY <1>17 DEF Snapshot, svcVars
  <2> QED BY <2>1, <2>2, <2>3 DEF ScmTypeOK
<1>18. CASE Discard
  BY <1>0, <1>18 DEF Discard, ScmTypeOK, Payloads, Pending, svcVars
<1>19. CASE Restore
  BY <1>0, <1>19 DEF Restore, ScmTypeOK, Payloads, Pending, svcVars
<1> QED BY <1>1, <1>2, <1>3, <1>4, <1>5, <1>6, <1>7, <1>8, <1>9, <1>10, <1>11, <1>12, <1>13, <1>14, <1>15,
     <1>16, <1>17,
           <1>18, <1>19 DEF ScmSteps

\* GitHub drops a registration, unless a job runs under it.
OnlyFreed ==
  /\ reg' \in [Ids -> {"none", "offline", "idle", "busy"}]
  /\ \A i \in Ids : reg'[i] = reg[i] \/ (reg'[i] = "none" /\ ~Running(i))

LEMMA DeletesFit ==
  ASSUME TypeOK, NEW i, Deletes(i) \/ UNCHANGED reg
  PROVE  OnlyFreed
BY DEF Deletes, TypeOK, OnlyFreed, Running

\* No step takes another turn than the promised ones.
Serves ==
  /\ kind' = kind
  /\ \/ stage' \in {stage, "empty"}
     \/ stage = "empty" /\ stage' = "ready"
     \/ stage = "ready" /\ stage' = "working"

\* A step that starts no agent, connects none and gives none a job.
Quiet ==
  /\ kind' = kind /\ agents' \subseteq agents
  /\ slate' = slate \/ agents = {}
  /\ \A i \in agents : reg'[i] = reg[i] \/ (reg'[i] = "none" /\ reg[i] # "busy")

LEMMA QuietServes ==
  ASSUME TreeInv, Quiet
  PROVE  Serves
<1>1. \A i, j \in agents : kind = "lane" => i = j
  BY DEF TreeInv, SpawnsAlone
<1>2. agents' \subseteq Ids
  BY DEF Quiet, TreeInv, TypeOK, ScmTypeOK
<1>3. CASE kind # "lane"
  BY <1>3 DEF Serves, Quiet, stage
<1>4. CASE kind = "lane" /\ agents' = {}
  BY <1>4 DEF Serves, Quiet, stage, Running, Alive
<1>5. CASE kind = "lane" /\ agents' # {}
  <2>1. PICK i \in agents : agents = {i} /\ agents' = {i} /\ i \in Ids
    BY <1>1, <1>2, <1>5 DEF Quiet
  <2>2. /\ stage = IF reg[i] = "busy" THEN "working"
                   ELSE IF slate = "clean" /\ reg[i] = "idle" THEN "ready" ELSE "empty"
        /\ stage' = IF reg'[i] = "busy" THEN "working"
                    ELSE IF slate' = "clean" /\ reg'[i] = "idle" THEN "ready" ELSE "empty"
    BY <1>5, <2>1 DEF Quiet, stage, Running, Alive
  <2>3. slate' = slate /\ (reg'[i] = reg[i] \/ (reg'[i] = "none" /\ reg[i] # "busy"))
    <3>1. agents # {}
      BY <2>1
    <3>2. slate' = slate
      BY <3>1 DEF Quiet
    <3>3. reg'[i] = reg[i] \/ (reg'[i] = "none" /\ reg[i] # "busy")
      BY DEF Quiet
    <3> QED BY <3>2, <3>3
  <2> QED BY <2>2, <2>3 DEF Serves, Quiet
<1> QED BY <1>3, <1>4, <1>5

LEMMA FreedIsQuiet ==
  ASSUME TreeInv, OnlyFreed, kind' = kind, agents' \subseteq agents, slate' = slate
  PROVE  Quiet
BY DEF OnlyFreed, Quiet, Running, Alive, TreeInv, TypeOK, ScmTypeOK

\* Nothing outside disturbs what a cycle relies on.
LEMMA OutsideKept ==
  ASSUME TreeInv, kind = "lane", Outside, OnlyFreed, UNCHANGED <<sup, cur, capped, job, slate>>,
         restart' \in BOOLEAN, jitId' \in Ids \cup {NoId}, ctl' \in {"absent", "empty", "params"}, opId' \in Ids \cup {NoId}
  PROVE  TreeInv' /\ Quiet
<1>0. Quiet
  BY FreedIsQuiet DEF Outside
<1>1. TypeOK'
  BY DEF Outside, OnlyFreed, TreeInv, TypeOK
<1>2. SupervisorFits'
  BY DEF Outside, TreeInv, SupervisorFits
<1>3. SpawnsAlone'
  BY DEF Outside, TreeInv, SpawnsAlone
<1>4. SpawnsAnew'
  <2>1. Unspawned' <=> Unspawned
    BY DEF Outside, Unspawned
  <2>2. Unspawned => cur \in Ids
    BY DEF TreeInv, SupervisorFits, Unspawned, Holding
  <2>3. Unspawned => reg'[cur] \in {"none", "offline"} /\ cur \notin agents'
    BY <2>2 DEF Outside, OnlyFreed, TreeInv, SpawnsAnew
  <2>4. \A i \in agents' : reg'[i] \in {"offline", "idle"} => slate = "clean"
    BY <1>0 DEF Quiet, TreeInv, SpawnsAnew
  <2> QED BY <2>1, <2>3, <2>4 DEF Outside, TreeInv, SpawnsAnew
<1> QED BY <1>0, <1>1, <1>2, <1>3, <1>4 DEF TreeInv

\* A persistent runner has none of a lane.
LEMMA RunnerKept ==
  ASSUME TreeInv, kind = "runner", kind' = kind, TypeOK', UNCHANGED <<sup, cur, job>>
  PROVE  TreeInv' /\ Serves
<1>1. TreeInv'
  BY DEF TreeInv, SupervisorFits, SpawnsAlone, SpawnsAnew, Unspawned, Holding
<1>2. Serves
  BY DEF Serves, stage
<1> QED BY <1>1, <1>2

LEMMA OperateKept ==
  ASSUME TreeInv, Operate
  PROVE  TreeInv' /\ Serves
<1>0. TypeOK /\ ScmTypeOK /\ (sup # "none" => kind = "lane") /\ kind \in {"runner", "lane"}
  BY DEF TreeInv, TypeOK, ScmTypeOK, SupervisorFits
<1>01. /\ Done => result' \in {"none", "ok", "error", "rolledBack", "down"}
       /\ Failed => result' \in {"none", "ok", "error", "rolledBack", "down"}
       /\ \A k : Fault(k) => faults' \subseteq Faults
       /\ NoFault => faults' \subseteq Faults
  BY <1>0, ResultsFit, FaultsFit
<1>02. UNCHANGED reg => OnlyFreed
  BY <1>0, DeletesFit
<1>03. ASSUME UNCHANGED <<sup, cur, capped, job, slate>>, ScmTypeOK', kind' = kind, kind = "lane" => Outside,
              OnlyFreed, restart' \in BOOLEAN, jitId' \in Ids \cup {NoId}, ctl' \in {"absent", "empty", "params"},
              opId' \in Ids \cup {NoId}
       PROVE  TreeInv' /\ Serves
  <2>1. CASE kind = "lane"
    BY <1>03, <2>1, OutsideKept, QuietServes
  <2>2. CASE kind = "runner"
    <3>1. sup = "none" /\ sup' = "none"
      BY <1>0, <1>03, <2>2
    <3>2. TypeOK'
      BY <1>0, <1>03, <3>1 DEF TypeOK, OnlyFreed
    <3> QED BY <1>03, <2>2, <3>2, RunnerKept
  <2> QED BY <1>0, <2>1, <2>2
<1>1. ASSUME NEW c, Begin(c), UNCHANGED laneVars PROVE TreeInv' /\ Serves
  <2>1. ScmTypeOK' /\ Outside
    BY <1>0, <1>1 DEF Begin, ScmTypeOK, Payloads, Outside, svcVars
  <2> QED BY <1>0, <1>02, <1>03, <1>1, <2>1 DEF Outside, laneVars, TypeOK
<1>2. CASE ScmSteps /\ UNCHANGED laneVars
  <2>1. ScmTypeOK' /\ kind' = kind /\ (kind = "lane" => Outside)
    BY <1>0, <1>2, StepsStayOutside
  <2> QED BY <1>0, <1>02, <1>03, <1>2, <2>1 DEF laneVars, TypeOK
<1>3. CASE ReadPending
  <2>1. Outside
    BY <1>0, <1>01, <1>3 DEF ReadPending, ScmTypeOK, Outside, svcVars, host
  <2> QED BY <1>0, <1>02, <1>03, <1>3, <2>1 DEF ReadPending, Outside, TypeOK, host
<1>4. CASE Deregister
  <2>1. Outside
    BY <1>0, <1>01, <1>4 DEF Deregister, ScmTypeOK, Outside, svcVars, host
  <2>2. OnlyFreed
    BY <1>0, <1>4, DeletesFit DEF Deregister
  <2> QED BY <1>0, <1>02, <1>03, <1>4, <2>1, <2>2 DEF Deregister, Outside, TypeOK, host
<1>5. CASE WipeControl
  <2>1. Outside
    BY <1>0, <1>01, <1>5 DEF WipeControl, ScmTypeOK, Outside, svcVars, host
  <2> QED BY <1>0, <1>02, <1>03, <1>5, <2>1 DEF WipeControl, Outside, TypeOK, host
<1>6. CASE WriteParams
  <2>1. Outside
    BY <1>0, <1>01, <1>6 DEF WriteParams, ScmTypeOK, Outside, svcVars, host
  <2> QED BY <1>0, <1>02, <1>03, <1>6, <2>1 DEF WriteParams, Outside, TypeOK, host
<1>7. CASE installSupervisorService
  <2>1. Outside
    BY <1>0, <1>01, <1>7 DEF installSupervisorService, ScmTypeOK, Outside, Pending
  <2> QED BY <1>0, <1>02, <1>03, <1>7, <2>1 DEF installSupervisorService, Outside, TypeOK, laneVars
<1> QED BY <1>1, <1>2, <1>3, <1>4, <1>5, <1>6, <1>7 DEF Operate

LEMMA RunnerStepsKept ==
  ASSUME TreeInv, Runner
  PROVE  TreeInv' /\ Serves
<1>0. TypeOK /\ ScmTypeOK /\ kind \in {"runner", "lane"} /\ (kind = "runner" => sup = "none")
  BY DEF TreeInv, TypeOK, ScmTypeOK, SupervisorFits
<1>1. kind = "runner" /\ ScmTypeOK' /\ kind' = kind /\ UNCHANGED laneVars
  <2>1. CASE kind = "runner" /\ ScmReady /\ UNCHANGED laneVars
    BY <1>0, <2>1 DEF ScmReady, ScmTypeOK, host
  <2>2. CASE ScmStopped /\ UNCHANGED laneVars
    BY <1>0, <2>2 DEF ScmStopped, ProcessGone, ScmTypeOK, host, Pending
  <2>3. CASE ServiceDies /\ UNCHANGED laneVars
    BY <1>0, <2>3, FaultsFit DEF ServiceDies, ProcessGone, ScmTypeOK, host, Pending
  <2>4. ASSUME NEW p \in Ids, SpawnAgent(p), UNCHANGED laneVars PROVE kind = "runner" /\ ScmTypeOK' /\ kind' = kind
    BY <1>0, <2>4 DEF SpawnAgent, ScmTypeOK
  <2>5. ASSUME NEW p \in Ids, AgentExits(p), UNCHANGED laneVars PROVE kind = "runner" /\ ScmTypeOK' /\ kind' = kind
    BY <1>0, <2>5 DEF AgentExits, ScmTypeOK, svcVars
  <2> QED BY <2>1, <2>2, <2>3, <2>4, <2>5 DEF Runner
<1>2. TypeOK'
  BY <1>0, <1>1 DEF laneVars, TypeOK
<1> QED BY <1>1, <1>2, RunnerKept DEF laneVars

-----------------------------------------------------------------------------
(* The supervisor, its agents and GitHub.                                  *)

LEMMA InitInv == Init => TreeInv
<1> SUFFICES ASSUME Init PROVE TreeInv
  OBVIOUS
<1>1. capped \in BOOLEAN
  BY LaneAssumption DEF Init, InitRunner, InitLane
<1>2. ScmTypeOK
  BY DEF Init, InitRunner, InitLane, ScmTypeOK, Payloads
<1>3. TypeOK
  BY <1>1, <1>2 DEF Init, InitRunner, InitLane, TypeOK, SupSteps
<1> QED BY <1>3 DEF TreeInv, SupervisorFits, SpawnsAlone, SpawnsAnew, Unspawned, Holding, Init

\* A supervisor works in a lane, while its service runs.
LEMMA SupervisorRuns ==
  ASSUME TreeInv, sup # "none"
  PROVE  kind = "lane" /\ svc \in {"running", "stopPending"}
BY DEF TreeInv, TypeOK, ScmTypeOK, SupervisorFits

\* The steps of a cycle while no agent of it runs, and around it.
Aside == SupSteps \ {"none", "reset", "start", "assign", "wait"}

\* A step of a cycle that leaves service, agents and files alone.
LEMMA AsideKept ==
  ASSUME TreeInv, sup # "none", sup' \in Aside,
         sup' \in Holding => cur' \in Ids, cur' \in Ids \cup {NoId}, job' = {},
         sup' = "record" => reg'[cur'] \in {"none", "offline"} /\ cur' \notin agents,
         UNCHANGED <<svc, doomed, own, agents, slate, tree, snap, env, penv, kind, cmd, todo, result,
                     capped, restart, opId>>,
         faults' \subseteq Faults, jitId' \in Ids \cup {NoId}, ctl' \in {"absent", "empty", "params"},
         reg' \in [Ids -> {"none", "offline", "idle", "busy"}],
         \A i \in agents : reg'[i] = reg[i] \/ (reg'[i] = "none" /\ reg[i] # "busy")
  PROVE  TreeInv' /\ Quiet
<1>0. Quiet
  BY DEF Quiet
<1>1. TypeOK'
  <2>1. ScmTypeOK'
    BY DEF TreeInv, TypeOK, ScmTypeOK
  <2> QED BY <2>1, SupervisorRuns DEF TreeInv, TypeOK, Aside
<1>2. SupervisorFits'
  BY SupervisorRuns DEF SupervisorFits
<1>3. SpawnsAlone'
  BY DEF TreeInv, SpawnsAlone, Aside
<1>4. SpawnsAnew'
  <2>1. \A i \in agents : kind = "lane" /\ reg'[i] \in {"offline", "idle"} => slate = "clean"
    BY DEF TreeInv, SpawnsAnew
  <2> QED BY <2>1 DEF SpawnsAnew, Unspawned, Aside
<1> QED BY <1>0, <1>1, <1>2, <1>3, <1>4 DEF TreeInv

\* What the steps of a supervisor have in common.
SupervisorFrame ==
  /\ TypeOK /\ ScmTypeOK /\ SupervisorFits /\ SpawnsAlone /\ SpawnsAnew
  /\ kind = "lane" /\ svc \in {"running", "stopPending"} /\ sup # "none"
  /\ agents \subseteq Ids
  /\ \A k : Fault(k) => faults' \subseteq Faults
  /\ NoFault => faults' \subseteq Faults
  /\ Aborted => faults' \subseteq Faults
  /\ Logged \/ UNCHANGED ctl => ctl' \in {"absent", "empty", "params"}
  /\ UNCHANGED jitId \/ jitId' = NoId \/ jitId' \in Ids => jitId' \in Ids \cup {NoId}
  /\ sup # "wait" => job = {}
  /\ \A i : Deletes(i) \/ UNCHANGED reg => OnlyFreed
  /\ OnlyFreed => /\ reg' \in [Ids -> {"none", "offline", "idle", "busy"}]
                  /\ \A i \in agents : reg'[i] = reg[i] \/ (reg'[i] = "none" /\ reg[i] # "busy")

LEMMA SupervisorFramed ==
  ASSUME TreeInv, sup # "none"
  PROVE  SupervisorFrame
<1>1. /\ TypeOK /\ ScmTypeOK /\ SupervisorFits /\ SpawnsAlone /\ SpawnsAnew
      /\ kind = "lane" /\ svc \in {"running", "stopPending"} /\ sup # "none" /\ agents \subseteq Ids
  BY SupervisorRuns DEF TreeInv, TypeOK, ScmTypeOK
<1>2. /\ \A k : Fault(k) => faults' \subseteq Faults
      /\ NoFault => faults' \subseteq Faults
      /\ Aborted => faults' \subseteq Faults
  BY <1>1, FaultsFit DEF Aborted
<1>3. /\ Logged \/ UNCHANGED ctl => ctl' \in {"absent", "empty", "params"}
      /\ UNCHANGED jitId \/ jitId' = NoId \/ jitId' \in Ids => jitId' \in Ids \cup {NoId}
      /\ sup # "wait" => job = {}
  BY <1>1 DEF Logged, TypeOK, SupervisorFits
<1>4. \A i : Deletes(i) \/ UNCHANGED reg => OnlyFreed
  BY <1>1, DeletesFit
<1>5. OnlyFreed => /\ reg' \in [Ids -> {"none", "offline", "idle", "busy"}]
                   /\ \A i \in agents : reg'[i] = reg[i] \/ (reg'[i] = "none" /\ reg[i] # "busy")
  BY <1>1 DEF OnlyFreed, Running, Alive
<1> QED BY <1>1, <1>2, <1>3, <1>4, <1>5 DEF SupervisorFrame

LEMMA LoopKept ==
  ASSUME TreeInv, superviseLoop
  PROVE  TreeInv' /\ Quiet
<1>0. SupervisorFrame
  BY SupervisorFramed DEF superviseLoop
<1>1. CASE cancelled
  <2>1. /\ sup' = "none" /\ ProcessGone /\ UNCHANGED <<cur, agents, job, reg, jitId, slate, tree, ops>> /\ Logged /\ NoFault
        /\ kind = "lane" /\ job = {}
    BY <1>0, <1>1 DEF superviseLoop, SupervisorFrame
  <2>2. ScmTypeOK' /\ kind' = kind
    BY <1>0, <2>1 DEF ScmTypeOK, ProcessGone, ops, SupervisorFrame
  <2>3. TypeOK'
    BY <1>0, <2>1, <2>2 DEF TypeOK, ops, SupSteps, SupervisorFrame
  <2>4. SupervisorFits' /\ SpawnsAlone'
    BY <1>0, <2>1, <2>2 DEF SupervisorFrame, SupervisorFits, SpawnsAlone, Holding
  <2>5. SpawnsAnew'
    BY <1>0, <2>1, <2>2 DEF SupervisorFrame, SpawnsAnew, Unspawned
  <2>6. Quiet
    BY <2>1, <2>2 DEF Quiet
  <2> QED BY <2>3, <2>4, <2>5, <2>6 DEF TreeInv
<1>2. CASE ~cancelled
  <2>1. /\ sup = "loop" /\ cur' = jitId /\ sup' = (IF jitId = NoId THEN "mint" ELSE "reap") /\ Logged /\ NoFault
        /\ UNCHANGED <<svc, doomed, own, agents, job, reg, jitId, slate, tree, ops>>
    BY <1>2 DEF superviseLoop, Goto
  <2>2. sup' \in Aside /\ sup' # "record" /\ (sup' \in Holding => cur' \in Ids) /\ cur' \in Ids \cup {NoId} /\ job' = {}
    BY <1>0, <2>1 DEF SupervisorFrame, TypeOK, Aside, SupSteps, Holding
  <2> QED BY <1>0, <2>1, <2>2, AsideKept DEF SupervisorFrame, ops
<1> QED BY <1>1, <1>2

LEMMA AsideStepsKept ==
  ASSUME TreeInv,
         ReapStale \/ ClearStale \/ MintJIT \/ UndoMint \/ Settle \/ SettleDelete \/ SettleClear \/ backoffSleep
  PROVE  TreeInv' /\ Quiet
<1>0. SupervisorFrame /\ sup # "wait"
  BY SupervisorFramed
     DEF ReapStale, ClearStale, MintJIT, UndoMint, Settle, SettleDelete, SettleClear, backoffSleep
<1>01. sup \in Holding => cur \in Ids
  BY <1>0 DEF SupervisorFrame, SupervisorFits
<1>02. cur \in Ids \cup {NoId} /\ job = {}
  BY <1>0 DEF SupervisorFrame, TypeOK
<1> USE DEF Goto, ops
<1>1. CASE ReapStale
  <2>1. sup' = "reapClear" /\ cur' = cur /\ cur \in Ids
    BY <1>01, <1>1 DEF ReapStale, Holding
  <2>2. OnlyFreed /\ faults' \subseteq Faults
    BY <1>0, <1>1 DEF ReapStale, SupervisorFrame
  <2>3. sup' \in Aside
    BY <2>1 DEF Aside, SupSteps
  <2> QED BY <1>0, <1>1, <1>02, <2>1, <2>2, <2>3, AsideKept DEF SupervisorFrame, ReapStale
<1>2. CASE ClearStale
  <2>1. sup' = "mint" /\ sup' \in Aside /\ sup' \notin Holding /\ cur' = NoId
    BY <1>2 DEF ClearStale, Aside, SupSteps, Holding
  <2>2. OnlyFreed /\ faults' \subseteq Faults
    BY <1>0, <1>2 DEF ClearStale, SupervisorFrame
  <2> QED BY <1>0, <1>2, <1>02, <2>1, <2>2, AsideKept DEF SupervisorFrame, ClearStale
<1>3. CASE MintJIT
  <2>1. /\ sup' \in Aside /\ faults' \subseteq Faults /\ cur' \in Ids \cup {NoId}
        /\ sup' \in Holding => sup' = "record" /\ cur' \in Ids
    BY <1>0, <1>02, <1>3 DEF MintJIT, SupervisorFrame, Aside, SupSteps, Holding
  <2>2. \/ UNCHANGED reg /\ sup' = "pause"
        \/ \E i \in Ids : /\ Fresh(i) /\ reg' = [reg EXCEPT ![i] = "offline"]
                          /\ sup' = "pause" \/ (sup' = "record" /\ cur' = i)
    BY <1>3 DEF MintJIT
  <2>3. /\ reg' \in [Ids -> {"none", "offline", "idle", "busy"}]
        /\ \A j \in agents : reg'[j] = reg[j]
        /\ sup' = "record" => reg'[cur'] \in {"none", "offline"} /\ cur' \notin agents
    BY <1>0, <2>2 DEF SupervisorFrame, TypeOK, Fresh
  <2> QED BY <1>0, <1>3, <1>02, <2>1, <2>3, AsideKept DEF SupervisorFrame, MintJIT
<1>4. CASE UndoMint
  <2>1. sup' = "pause" /\ sup' \in Aside /\ sup' \notin Holding /\ cur' = cur
    BY <1>4 DEF UndoMint, Aside, SupSteps, Holding
  <2>2. OnlyFreed /\ faults' \subseteq Faults
    BY <1>0, <1>4 DEF UndoMint, SupervisorFrame
  <2> QED BY <1>0, <1>4, <1>02, <2>1, <2>2, AsideKept DEF SupervisorFrame, UndoMint
<1>5. CASE Settle
  <2>1. sup' \in {"settleClear", "settleDelete", "pause"} /\ sup' \in Aside /\ cur' = cur /\ cur \in Ids
    BY <1>01, <1>5 DEF Settle, Aside, SupSteps, Holding
  <2>2. OnlyFreed /\ faults' \subseteq Faults
    BY <1>0, <1>5 DEF Settle, SupervisorFrame
  <2> QED BY <1>0, <1>5, <1>02, <2>1, <2>2, AsideKept DEF SupervisorFrame, Settle
<1>6. CASE SettleDelete
  <2>1. sup' \in {"settleClear", "pause"} /\ sup' \in Aside /\ cur' = cur /\ cur \in Ids
    BY <1>01, <1>6 DEF SettleDelete, Aside, SupSteps, Holding
  <2>2. OnlyFreed /\ faults' \subseteq Faults
    BY <1>0, <1>6 DEF SettleDelete, SupervisorFrame
  <2> QED BY <1>0, <1>6, <1>02, <2>1, <2>2, AsideKept DEF SupervisorFrame, SettleDelete
<1>7. CASE SettleClear
  <2>1. sup' = "pause" /\ sup' \in Aside /\ sup' \notin Holding /\ cur' = cur
    BY <1>7 DEF SettleClear, Aside, SupSteps, Holding
  <2>2. OnlyFreed /\ faults' \subseteq Faults
    BY <1>0, <1>7 DEF SettleClear, SupervisorFrame
  <2> QED BY <1>0, <1>7, <1>02, <2>1, <2>2, AsideKept DEF SupervisorFrame, SettleClear
<1>8. CASE backoffSleep
  <2>1. sup' = "loop" /\ sup' \in Aside /\ sup' \notin Holding /\ cur' = NoId
    BY <1>8 DEF backoffSleep, Aside, SupSteps, Holding
  <2>2. OnlyFreed /\ faults' \subseteq Faults
    BY <1>0, <1>8 DEF backoffSleep, SupervisorFrame
  <2> QED BY <1>0, <1>8, <1>02, <2>1, <2>2, AsideKept DEF SupervisorFrame, backoffSleep
<1> QED BY <1>1, <1>2, <1>3, <1>4, <1>5, <1>6, <1>7, <1>8

\* From the mint to the end of its job.
LEMMA JobStepsKept ==
  ASSUME TreeInv, RecordJIT \/ ResetWorkspace \/ runConfinedJob \/ assignPidToJob \/ cmdWait
  PROVE  TreeInv' /\ Quiet
<1>0. SupervisorFrame
  BY SupervisorFramed DEF RecordJIT, ResetWorkspace, runConfinedJob, assignPidToJob, cmdWait
<1>01. sup \in {"record", "reset", "start", "assign", "wait"} => cur \in Ids
  BY <1>0 DEF SupervisorFrame, SupervisorFits, Holding
<1>02. \A i, j \in agents : i = j
  BY <1>0 DEF SupervisorFrame, SpawnsAlone
<1>03. \A i \in agents : reg[i] \in {"offline", "idle"} => slate = "clean"
  BY <1>0 DEF SupervisorFrame, SpawnsAnew
<1> USE DEF Goto, ops
<1>1. CASE RecordJIT
  <2>0. sup = "record" /\ sup' \in {"reset", "undo"} /\ cur \in Ids /\ job = {} /\ faults' \subseteq Faults /\ jitId' \in Ids \cup {NoId}
    BY <1>0, <1>01, <1>1 DEF RecordJIT, SupervisorFrame, TypeOK
  <2>1. ScmTypeOK'
    BY <1>0, <1>1, <2>0 DEF RecordJIT, SupervisorFrame, ScmTypeOK
  <2>2. TypeOK'
    BY <1>0, <1>1, <2>0, <2>1 DEF RecordJIT, SupervisorFrame, TypeOK, SupSteps
  <2>3. SupervisorFits' /\ SpawnsAlone'
    BY <1>0, <1>1, <1>02, <2>0 DEF RecordJIT, SupervisorFrame, SupervisorFits, SpawnsAlone
  <2>4. SpawnsAnew'
    BY <1>0, <1>1, <1>03, <2>0 DEF RecordJIT, SupervisorFrame, SpawnsAnew, Unspawned
  <2>5. Quiet
    BY <1>1 DEF RecordJIT, Quiet
  <2> QED BY <2>2, <2>3, <2>4, <2>5 DEF TreeInv
<1>2. CASE ResetWorkspace
  <2>0. /\ sup = "reset" /\ sup' \in {"start", "settle"} /\ cur \in Ids /\ job = {} /\ faults' \subseteq Faults
        /\ sup' = "start" => agents = {} /\ slate' = "clean"
        /\ slate' = "clean" \/ slate' = slate
        /\ tree' \in {"partial", tree} /\ UNCHANGED <<agents, cur, job, reg>>
    BY <1>0, <1>01, <1>2 DEF ResetWorkspace, SupervisorFrame
  <2>1. ScmTypeOK'
    BY <1>0, <1>2, <2>0 DEF ResetWorkspace, SupervisorFrame, ScmTypeOK, Payloads
  <2>2. TypeOK'
    BY <1>0, <1>2, <2>0, <2>1 DEF ResetWorkspace, SupervisorFrame, TypeOK, SupSteps
  <2>3. SupervisorFits' /\ SpawnsAlone'
    BY <1>0, <1>2, <1>02, <2>0 DEF ResetWorkspace, SupervisorFrame, SupervisorFits, SpawnsAlone
  <2>4. SpawnsAnew'
    BY <1>0, <1>2, <1>03, <2>0 DEF ResetWorkspace, SupervisorFrame, SpawnsAnew, Unspawned
  <2>5. Quiet
    BY <1>2 DEF ResetWorkspace, Quiet
  <2> QED BY <2>2, <2>3, <2>4, <2>5 DEF TreeInv
<1>3. CASE runConfinedJob
  <2>0. /\ sup = "start" /\ sup' \in {"settle", "assign", "wait"} /\ cur \in Ids /\ job = {} /\ faults' \subseteq Faults
        /\ own' = NoId /\ agents = {} /\ slate = "clean" /\ UNCHANGED <<agents, cur, job, reg, slate, kind>>
    BY <1>0, <1>01, <1>3 DEF runConfinedJob, SupervisorFrame, SpawnsAlone, SpawnsAnew
  <2>1. ScmTypeOK'
    BY <1>0, <1>3, <2>0 DEF runConfinedJob, SupervisorFrame, ScmTypeOK
  <2>2. TypeOK'
    BY <1>0, <1>3, <2>0, <2>1 DEF runConfinedJob, SupervisorFrame, TypeOK, SupSteps
  <2>3. SupervisorFits' /\ SpawnsAlone'
    BY <1>0, <1>02, <2>0 DEF SupervisorFrame, SupervisorFits, SpawnsAlone
  <2>4. SpawnsAnew'
    BY <1>0, <1>03, <2>0 DEF SupervisorFrame, SpawnsAnew, Unspawned
  <2>5. Quiet
    BY <2>0 DEF Quiet
  <2> QED BY <2>2, <2>3, <2>4, <2>5 DEF TreeInv
<1>4. CASE assignPidToJob
  <2>0. /\ sup = "assign" /\ sup' = "wait" /\ cur \in Ids /\ job' \in {{}, {cur}} /\ faults' \subseteq Faults
        /\ UNCHANGED <<own, agents, cur, reg, slate, kind>>
    BY <1>0, <1>01, <1>4 DEF assignPidToJob, SupervisorFrame
  <2>1. ScmTypeOK'
    BY <1>0, <1>4, <2>0 DEF assignPidToJob, SupervisorFrame, ScmTypeOK
  <2>2. TypeOK'
    BY <1>0, <1>4, <2>0, <2>1 DEF assignPidToJob, SupervisorFrame, TypeOK, SupSteps
  <2>3. SupervisorFits' /\ SpawnsAlone'
    BY <1>0, <1>02, <2>0 DEF SupervisorFrame, SupervisorFits, SpawnsAlone
  <2>4. SpawnsAnew'
    BY <1>0, <1>03, <2>0 DEF SupervisorFrame, SpawnsAnew, Unspawned
  <2>5. Quiet
    BY <2>0 DEF Quiet
  <2> QED BY <2>2, <2>3, <2>4, <2>5 DEF TreeInv
<1>5. CASE cmdWait
  <2>0. /\ sup' = "settle" /\ cur \in Ids /\ job' = {} /\ own' = NoId /\ faults' \subseteq Faults
        /\ agents' \subseteq agents /\ UNCHANGED <<cur, reg, slate, kind>>
    BY <1>0, <1>01, <1>5 DEF cmdWait, SupervisorFrame
  <2>1. ScmTypeOK'
    BY <1>0, <1>5, <2>0 DEF cmdWait, SupervisorFrame, ScmTypeOK
  <2>2. TypeOK'
    BY <1>0, <1>5, <2>0, <2>1 DEF cmdWait, SupervisorFrame, TypeOK, SupSteps
  <2>3. SupervisorFits' /\ SpawnsAlone'
    BY <1>0, <1>02, <2>0 DEF SupervisorFrame, SupervisorFits, SpawnsAlone
  <2>4. SpawnsAnew'
    BY <1>0, <1>03, <2>0 DEF SupervisorFrame, SpawnsAnew, Unspawned
  <2>5. Quiet
    BY <2>0 DEF Quiet
  <2> QED BY <2>2, <2>3, <2>4, <2>5 DEF TreeInv
<1> QED BY <1>1, <1>2, <1>3, <1>4, <1>5

\* The agent of a cycle starts on a clean slate, alone, under a registration that has
\* never been online.
LEMMA SpawnKept ==
  ASSUME TreeInv, RunCmdSpawns
  PROVE  TreeInv' /\ Serves
<1>0. SupervisorFrame
  BY SupervisorFramed DEF RunCmdSpawns
<1>1. /\ sup \in {"assign", "wait"} /\ own = NoId /\ cur \in Ids /\ faults' \subseteq Faults
      /\ own' = cur /\ agents = {} /\ agents' = {cur} /\ slate = "clean" /\ reg[cur] \in {"none", "offline"}
      /\ UNCHANGED <<sup, cur, job, reg, slate, kind>>
  <2>1. sup \in {"assign", "wait"} /\ own = NoId /\ cur \in Ids /\ faults' \subseteq Faults
    BY <1>0 DEF RunCmdSpawns, SupervisorFrame, SupervisorFits, Holding
  <2>2. agents = {}
    BY <1>0, <2>1, ScmAssumption DEF SupervisorFrame, SpawnsAlone
  <2>3. slate = "clean" /\ reg[cur] \in {"none", "offline"}
    BY <1>0, <2>1 DEF SupervisorFrame, SpawnsAnew, Unspawned
  <2> QED BY <2>1, <2>2, <2>3 DEF RunCmdSpawns, ops
<1>2. ScmTypeOK'
  BY <1>0, <1>1 DEF RunCmdSpawns, SupervisorFrame, ScmTypeOK, ops
<1>3. TypeOK'
  BY <1>0, <1>1, <1>2 DEF RunCmdSpawns, SupervisorFrame, TypeOK, ops
<1>4. SupervisorFits' /\ SpawnsAlone'
  BY <1>0, <1>1 DEF SupervisorFrame, SupervisorFits, SpawnsAlone
<1>5. SpawnsAnew'
  BY <1>0, <1>1, ScmAssumption DEF SupervisorFrame, SpawnsAnew, Unspawned
<1>6. Serves
  <2>1. stage = "empty" /\ stage' = "empty"
    BY <1>1 DEF stage, Running, Alive
  <2> QED BY <1>1, <2>1 DEF Serves
<1> QED BY <1>3, <1>4, <1>5, <1>6 DEF TreeInv

LEMMA SupervisorKept ==
  ASSUME TreeInv, Supervisor
  PROVE  TreeInv' /\ Serves
BY LoopKept, AsideStepsKept, JobStepsKept, SpawnKept, QuietServes DEF Supervisor

\* An agent's own steps: it connects, is given a job, and leaves.
LEMMA AgentKept ==
  ASSUME TreeInv, NEW i \in Ids, AgentConnects(i) \/ AgentTakesJob(i) \/ AgentLeaves(i)
  PROVE  TreeInv' /\ Serves
<1>1. /\ TypeOK /\ ScmTypeOK /\ SupervisorFits /\ SpawnsAlone /\ SpawnsAnew
      /\ kind = "lane" /\ agents = {i}
  <2>1. TypeOK /\ ScmTypeOK /\ SupervisorFits /\ SpawnsAlone /\ SpawnsAnew
    BY DEF TreeInv, TypeOK
  <2>2. kind = "lane" /\ i \in agents
    BY DEF AgentConnects, AgentTakesJob, AgentLeaves, Alive
  <2> QED BY <2>1, <2>2 DEF SpawnsAlone
<1>2. Unspawned => cur # i
  BY <1>1 DEF SpawnsAnew
<1>3. sup # "start" /\ (sup \in {"assign", "wait"} => own # NoId)
  BY <1>1, ScmAssumption DEF SpawnsAlone
<1>4. /\ UNCHANGED <<sup, cur, job, own, kind, capped, restart, jitId, ctl, opId>>
      /\ svc' = svc
  BY DEF AgentConnects, AgentTakesJob, AgentLeaves, scmVars, svcVars, gitHub
<1>5. ASSUME agents' \subseteq agents, slate' \in {"clean", "dirty"},
             \E s \in {"none", "offline", "idle", "busy"} : reg' = [reg EXCEPT ![i] = s],
             agents' = {i} /\ reg'[i] \in {"offline", "idle"} => slate' = "clean", ScmTypeOK'
      PROVE  TreeInv'
  <2>1. reg' \in [Ids -> {"none", "offline", "idle", "busy"}] /\ \A j \in Ids \ {i} : reg'[j] = reg[j]
    BY <1>1, <1>5 DEF TypeOK
  <2>2. TypeOK'
    BY <1>1, <1>4, <1>5, <2>1 DEF TypeOK
  <2>3. SupervisorFits' /\ SpawnsAlone'
    BY <1>1, <1>4, <1>5 DEF SupervisorFits, SpawnsAlone
  <2>4. Unspawned' => reg'[cur'] \in {"none", "offline"} /\ cur' \notin agents'
    <3>1. Unspawned => cur \in Ids
      BY <1>1 DEF Unspawned, SupervisorFits, Holding
    <3> QED BY <1>1, <1>2, <1>4, <1>5, <2>1, <3>1 DEF Unspawned, SpawnsAnew
  <2>5. SpawnsAnew'
    BY <1>1, <1>3, <1>4, <1>5, <2>4 DEF SpawnsAnew
  <2> QED BY <2>2, <2>3, <2>5 DEF TreeInv
<1>6. CASE AgentConnects(i)
  <2>1. /\ ScmTypeOK' /\ agents' = agents /\ slate' = slate /\ reg[i] = "offline"
        /\ reg' = [reg EXCEPT ![i] = "idle"] /\ slate = "clean" /\ reg'[i] = "idle"
    BY <1>1, <1>6 DEF AgentConnects, scmVars, ScmTypeOK, SpawnsAnew, TypeOK
  <2>2. TreeInv'
    BY <1>1, <1>5, <2>1
  <2>3. stage = "empty" /\ stage' = "ready"
    BY <1>1, <1>4, <2>1 DEF stage, Running, Alive
  <2> QED BY <1>4, <2>2, <2>3 DEF Serves
<1>7. CASE AgentTakesJob(i)
  <2>1. /\ ScmTypeOK' /\ agents' = agents /\ slate' = "dirty" /\ reg[i] = "idle"
        /\ reg' = [reg EXCEPT ![i] = "busy"] /\ slate = "clean" /\ reg'[i] = "busy"
    BY <1>1, <1>7 DEF AgentTakesJob, scmVars, ScmTypeOK, SpawnsAnew, TypeOK
  <2>2. TreeInv'
    BY <1>1, <1>5, <2>1
  <2>3. stage = "ready" /\ stage' = "working"
    BY <1>1, <1>4, <2>1 DEF stage, Running, Alive
  <2> QED BY <1>4, <2>2, <2>3 DEF Serves
<1>8. CASE AgentLeaves(i)
  <2>1. agents' = {} /\ slate' = slate
    BY <1>1, <1>8 DEF AgentLeaves, svcVars
  <2>2. \E s \in {"none", "offline", "idle", "busy"} : reg' = [reg EXCEPT ![i] = s]
    BY <1>1, <1>8 DEF AgentLeaves
  <2>3. ScmTypeOK'
    BY <1>1, <1>8, <2>1 DEF AgentLeaves, svcVars, ScmTypeOK
  <2>4. TreeInv'
    BY <1>1, <1>5, <2>1, <2>2, <2>3 DEF TypeOK
  <2>5. stage' = "empty"
    BY <1>4, <2>1 DEF stage, Running, Alive
  <2> QED BY <1>4, <2>4, <2>5 DEF Serves
<1> QED BY <1>6, <1>7, <1>8

\* A start, a crash, a recovery restart and a boot leave no cycle behind.
LEMMA ProcessKept ==
  ASSUME TreeInv, StartSupervisor \/ SupervisorDies \/ Recovers \/ BootHost
  PROVE  TreeInv' /\ Quiet
<1>0. TypeOK /\ ScmTypeOK /\ SupervisorFits /\ SpawnsAlone /\ SpawnsAnew
  BY DEF TreeInv, TypeOK
<1>1. CASE StartSupervisor
  <2>1. sup = "none" /\ sup' = "loop" /\ kind = "lane" /\ svc' = "running" /\ own' = NoId /\ job = {}
        /\ UNCHANGED <<kind, agents, cur, job, reg, slate>>
    BY <1>0, <1>1 DEF StartSupervisor, ScmReady, host, TypeOK, SupervisorFits
  <2>2. ScmTypeOK'
    BY <1>0, <1>1 DEF StartSupervisor, ScmReady, host, ScmTypeOK
  <2>3. TypeOK'
    BY <1>0, <1>1, <2>1, <2>2 DEF StartSupervisor, TypeOK, SupSteps
  <2>4. SupervisorFits' /\ SpawnsAlone' /\ SpawnsAnew'
    BY <1>0, <2>1 DEF SupervisorFits, SpawnsAlone, SpawnsAnew, Unspawned, Holding
  <2> QED BY <2>1, <2>3, <2>4 DEF TreeInv, Quiet
<1>2. CASE SupervisorDies
  <2>1. sup' = "none" /\ kind' = kind /\ job' = {} /\ agents' \subseteq agents /\ UNCHANGED <<reg, slate>>
    BY <1>0, <1>2 DEF SupervisorDies
  <2>2. ScmTypeOK'
    BY <1>0, <1>2, <2>1, FaultsFit DEF SupervisorDies, ProcessGone, ScmTypeOK
  <2>3. TypeOK'
    BY <1>0, <1>2, <2>1, <2>2 DEF SupervisorDies, TypeOK, SupSteps
  <2>4. SupervisorFits' /\ SpawnsAlone' /\ SpawnsAnew'
    BY <1>0, <2>1 DEF SupervisorFits, SpawnsAlone, SpawnsAnew, Unspawned, Holding
  <2> QED BY <2>1, <2>3, <2>4 DEF TreeInv, Quiet
<1>3. CASE Recovers
  <2>1. UNCHANGED <<sup, kind, own, cur, job, agents, reg, slate>>
    BY <1>3 DEF Recovers, host
  <2>2. ScmTypeOK'
    BY <1>0, <1>3 DEF Recovers, host, ScmTypeOK, Pending
  <2>3. TypeOK'
    BY <1>0, <1>3, <2>1, <2>2 DEF Recovers, TypeOK
  <2>4. SupervisorFits' /\ SpawnsAlone' /\ SpawnsAnew'
    BY <1>0, <2>1 DEF SupervisorFits, SpawnsAlone, SpawnsAnew, Unspawned
  <2> QED BY <2>1, <2>3, <2>4 DEF TreeInv, Quiet
<1>4. CASE BootHost
  <2>1. sup' = "none" /\ kind' = kind /\ job' = {} /\ agents' = {} /\ UNCHANGED <<reg, slate>>
    BY <1>4 DEF BootHost, Boot
  <2>2. ScmTypeOK'
    BY <1>0, <1>4, <2>1, FaultsFit DEF BootHost, Boot, ScmTypeOK, Pending
  <2>3. TypeOK'
    BY <1>0, <1>4, <2>1, <2>2 DEF BootHost, TypeOK, SupSteps
  <2>4. SupervisorFits' /\ SpawnsAlone' /\ SpawnsAnew'
    BY <1>0, <2>1 DEF SupervisorFits, SpawnsAlone, SpawnsAnew, Unspawned, Holding
  <2> QED BY <2>1, <2>3, <2>4 DEF TreeInv, Quiet
<1> QED BY <1>1, <1>2, <1>3, <1>4

LEMMA NextKept == TreeInv /\ [Next]_vars => TreeInv' /\ Serves
<1> SUFFICES ASSUME TreeInv, [Next]_vars PROVE TreeInv' /\ Serves
  OBVIOUS
<1>1. CASE Next
  BY <1>1, OperateKept, RunnerStepsKept, SupervisorKept, AgentKept, ProcessKept, QuietServes DEF Next, Lane
<1>2. CASE UNCHANGED vars
  BY <1>2 DEF vars, laneVars, scmVars, TreeInv, TypeOK, ScmTypeOK, SupervisorFits, SpawnsAlone, SpawnsAnew,
              Unspawned, Serves, stage, Running, Alive
<1> QED BY <1>1, <1>2

-----------------------------------------------------------------------------
(* The theorems.                                                           *)

\* However a service is commanded and whatever fails, no two agents live in the tree of
\* a lane, and a supervisor is alive only in a service that runs.
THEOREM TreeStaysSound == Spec => []TreeSound
<1>1. TreeInv => TreeSound
  <2> SUFFICES ASSUME TreeInv, kind = "lane" PROVE Cardinality(agents) <= 1
    BY DEF TreeInv, TreeSound, OneAgentInTree
  <2>1. CASE agents = {}
    BY <2>1, FS_EmptySet
  <2>2. CASE agents # {}
    <3>1. PICK i : agents = {i}
      BY <2>2 DEF TreeInv, SpawnsAlone
    <3>2. Cardinality({i}) = 1
      BY FS_Singleton
    <3> QED BY <3>1, <3>2
  <2> QED BY <2>1, <2>2
<1>2. TreeInv /\ [Next]_vars => TreeInv'
  BY NextKept
<1> QED BY <1>1, <1>2, InitInv, PTL DEF Spec

\* A Windows lane serves jobs as JobLane promises: each in a clean tree, under a
\* registration of its own, whatever its service, GitHub and the commands do.
THEOREM WindowsServesJobs == Spec => OneCleanJob
<1>1. Init => Promise!Init
  BY DEF Init, InitRunner, InitLane, Promise!Init, stage, Running, Alive
<1>2. Serves => [Promise!Next]_[l \in {"lane"} |-> stage]
  <2> SUFFICES ASSUME Serves, stage' # stage PROVE Promise!Next
    BY DEF Promise!Next
  <2>1. CASE stage' = "empty"
    BY <2>1 DEF Promise!Next, Promise!Leave
  <2>2. CASE stage = "empty" /\ stage' = "ready"
    BY <2>2 DEF Promise!Next, Promise!Prepare
  <2>3. CASE stage = "ready" /\ stage' = "working"
    BY <2>3 DEF Promise!Next, Promise!Work
  <2> QED BY <2>1, <2>2, <2>3 DEF Serves
<1>3. TreeInv /\ [Next]_vars => TreeInv' /\ [Promise!Next]_[l \in {"lane"} |-> stage]
  BY <1>2, NextKept
<1> QED BY <1>1, <1>3, InitInv, PTL DEF Spec, OneCleanJob, Promise!Spec


-----------------------------------------------------------------------------
(* What the commands deliver: plans.                                       *)

\* The rest of a plan from its k-th step on.
From(plan, k) == SubSeq(plan, k, Len(plan))

\* The names of the steps in a plan.
StepNames ==
  {"stop", "waitStopped", "waitGone", "delete", "kill", "removeTree", "extract", "configure", "setEnv",
   "awaitRunning", "requestStop", "stopSent", "stopRefused", "startService", "tryStart", "selfTest", "recover",
   "snapshot", "discard", "restore", "readPending", "deregister", "wipeControl", "writeParams", "install"}

\* A stop is requested, and then awaited as one that was sent or refused.
Stops == {"requestStop", "stopSent", "stopRefused"}

CreateWith(x) ==
  <<"stop", "waitStopped", "delete", "kill", "removeTree", "extract", "configure", "setEnv", "awaitRunning",
    x, "startService", "selfTest">>
RefreshWith(x) == <<"setEnv", x, "startService", "selfTest">>
UpgradeWith(x) == <<"recover", x, "kill", "snapshot">>
DestroyPlan ==
  <<"readPending", "deregister", "stop", "waitStopped", "delete", "waitGone", "kill", "wipeControl", "removeTree">>

\* The faults under which a payload survives every upgrade, and a service every command.
Sound == "kill" \notin faults /\ ~({"extract", "boot"} \subseteq faults)
Calm  == faults \cap {"slow", "kill", "crash"} = {}

NoProcess == svc \in {"stopped", "absent"}

-----------------------------------------------------------------------------
(* What the commands deliver: the invariant.                               *)

\* Nothing but a deletion that waits for a process is owed; a runner has no supervisor
\* that the SCM would restart; and the commands are of the service's kind.
ServiceFits ==
  /\ NoProcess => ~doomed
  /\ restart => kind = "lane" /\ "crash" \in faults
  /\ kind = "runner" => ctl = "absent"
  /\ cmd \in Commands \cup {"none"}
  /\ cmd = "none" => todo = <<>> /\ result = "none"

\* A runner is made in the place of one that is gone; once its service has been up, it
\* is stopped before it starts with what was written.
CreateAt(k, x) ==
  /\ todo = From(CreateWith(x), k)
  /\ k < 10 => x = "requestStop"
  /\ k = 4 => svc = "absent" \/ doomed
  /\ k \in 5..7 /\ "kill" \notin faults => svc = "absent" /\ agents = {}
  /\ k = 7 => tree = "new"
  /\ k >= 9 => env = "current"
  /\ k = 10 /\ x = "requestStop" => svc \in {"running", "stopped", "absent"}
  /\ k = 11 \/ (k = 10 /\ x # "requestStop") => svc \in {"stopPending", "stopped", "absent"}
  /\ k >= 12 => penv = "current"

RefreshAt(k, x) ==
  /\ todo = From(RefreshWith(x), k)
  /\ k = 1 => x = "requestStop"
  /\ k >= 2 => env = "current"
  /\ "slow" \notin faults =>
       /\ k = 2 /\ x = "stopSent" => svc \in {"stopPending", "stopped", "absent"}
       /\ k = 3 => NoProcess
       /\ k >= 4 => penv = "current"

RemoveAt(k) ==
  /\ todo = From(RemoveRunner, k)
  /\ k = 4 => svc = "absent" \/ doomed
  /\ k >= 5 /\ "kill" \notin faults => svc = "absent" /\ agents = {}
  /\ k = 6 => tree = "absent"

BounceAt(k) == todo = From(Steps("bounce"), k)

\* A prior payload lies in the tree, or beside an empty one after a boot, until it is
\* moved aside for the new one; what fails past that puts it back.
UpgradeAt(k, x) ==
  /\ todo = From(UpgradeWith(x), k)
  /\ k = 1 => x = "requestStop"
  /\ Sound => /\ result = "none"
              /\ k = 1 => tree = "old" \/ (tree = "absent" /\ snap = "old")
              /\ k > 1 => tree = "old"
              /\ k = 4 => agents = {} /\ NoProcess

SwapAt(k) ==
  /\ todo = From(Swap, k)
  /\ Sound => /\ k <= 4 => snap = "old" /\ result = "none"
              /\ k <= 2 => agents = {} /\ NoProcess
              /\ k = 1 => tree = "absent"
              /\ k > 1 => tree = "new"
              /\ k = 5 => result = "ok"

RollbackAt(k) ==
  /\ todo = From(Rollback, k)
  /\ Sound => /\ result = "rolledBack"
              /\ k <= 4 => snap = "old" /\ (tree = "new" \/ (tree = "partial" /\ "extract" \in faults))
              /\ k = 4 => agents = {} /\ NoProcess
              /\ k > 4 => tree = "old"

Upgrades ==
  \/ \E k \in 1..4, x \in Stops : UpgradeAt(k, x)
  \/ \E k \in 1..5 : SwapAt(k)
  \/ \E k \in 1..6 : RollbackAt(k)
  \/ todo = <<>> /\ (Sound => result = "none" \/ (result = "error" /\ tree = "old"))

Rolling == cmd = "upgrade" /\ \E k \in 1..4 : todo = From(Rollback, k)

\* A service has a whole payload, or its upgrade has one to put back.
HasPayload ==
  \/ tree \in {"old", "new"}
  \/ snap = "old" /\ (tree = "absent" \/ (tree = "partial" /\ Rolling /\ "extract" \in faults))

RunnerInv ==
  kind = "runner" =>
    /\ cmd = "create"  => (todo = <<>> /\ result # "ok") \/ \E k \in 1..13, x \in Stops : CreateAt(k, x)
    /\ cmd = "refresh" => (todo = <<>> /\ result # "ok") \/ \E k \in 1..5, x \in Stops : RefreshAt(k, x)
    /\ cmd = "remove"  => (todo = <<>> /\ result # "ok") \/ \E k \in 1..6 : RemoveAt(k)
    /\ cmd = "bounce"  => todo = <<>> \/ \E k \in 1..4 : BounceAt(k)
    /\ cmd = "upgrade" => Upgrades
    /\ Sound /\ svc # "absent" => HasPayload

\* A lane's service is gone, or marked while its supervisor was still starting when the
\* stop was sent; nobody works in what is gone.
DestroyAt(k) ==
  /\ todo = From(DestroyPlan, k)
  /\ k = 5 => svc \in {"stopped", "absent", "running"}
  /\ k > 5 => svc = "absent" \/ (svc = "running" /\ doomed)
  /\ svc = "absent" => /\ k > 7 => agents = {}
                       /\ k > 8 => ctl = "absent"
                       /\ k > 9 => tree = "absent"

LaneInv ==
  kind = "lane" /\ cmd = "destroy" /\ Calm =>
    (todo = <<>> /\ result # "ok") \/ \E k \in 1..10 : DestroyAt(k)

DeliverInv == ServiceFits /\ RunnerInv /\ LaneInv

-----------------------------------------------------------------------------
(* What the commands deliver: how plans are followed.                      *)

\* The rest of a plan, step by step.
LEMMA FromFits ==
  ASSUME NEW plan \in Seq(StepNames), NEW k \in 1..Len(plan)
  PROVE  /\ From(plan, k) # <<>> /\ Head(From(plan, k)) = plan[k]
         /\ Tail(From(plan, k)) = From(plan, k + 1)
         /\ Len(From(plan, k)) = Len(plan) - k + 1
         /\ \A i \in 1..Len(plan) - k + 1 : From(plan, k)[i] = plan[k + i - 1]
         /\ From(plan, k + 1) \in Seq(StepNames)
<1>0. Len(plan) \in k..Len(plan) /\ Len(plan) \in Nat
  OBVIOUS
<1>1. Head(From(plan, k)) = plan[k] /\ Tail(From(plan, k)) = From(plan, k + 1)
  BY <1>0, HeadTailOfSubSeq DEF From
<1>2. /\ Len(From(plan, k)) = Len(plan) - k + 1
      /\ \A i \in 1..Len(plan) - k + 1 : From(plan, k)[i] = plan[k + i - 1]
      /\ From(plan, k + 1) \in Seq(StepNames)
  <2>1. \A i \in k..Len(plan) : plan[i] \in StepNames
    BY <1>0
  <2> QED BY <1>0, <2>1, SubSeqProperties DEF From
<1>3. Len(From(plan, k)) > 0
  BY <1>0, <1>2
<1> QED BY <1>1, <1>2, <1>3

\* All of a plan, and nothing of it.
LEMMA FromEnds ==
  ASSUME NEW plan \in Seq(StepNames)
  PROVE  From(plan, 1) = plan /\ From(plan, Len(plan) + 1) = <<>>
BY SubSeqFull, SubSeqEmpty DEF From

\* A command at the k-th step of a plan goes on with the next one, or gives up.
LEMMA PlanStep ==
  ASSUME NEW plan \in Seq(StepNames), NEW k \in 1..Len(plan), todo = From(plan, k)
  PROVE  /\ todo # <<>>
         /\ \A s : At(s) <=> s = plan[k]
         /\ Tail(todo) = From(plan, k + 1)
         /\ Done => /\ todo' = From(plan, k + 1) /\ cmd' = cmd
                    /\ result' = IF todo' = <<>> /\ result = "none" THEN "ok" ELSE result
         /\ \A x : Then(<<x>>) => /\ todo' = <<x>> \o From(plan, k + 1) /\ cmd' = cmd
         /\ Failed => cmd' = cmd /\ IF \E j \in k..Len(plan) : plan[j] = "discard"
                                    THEN todo' = Rollback /\ result' = "rolledBack"
                                    ELSE todo' = <<>> /\ result' = "error"
<1>1. /\ From(plan, k) # <<>> /\ Head(From(plan, k)) = plan[k]
      /\ Tail(From(plan, k)) = From(plan, k + 1)
      /\ Len(From(plan, k)) = Len(plan) - k + 1
      /\ \A i \in 1..Len(plan) - k + 1 : From(plan, k)[i] = plan[k + i - 1]
      /\ From(plan, k + 1) \in Seq(StepNames)
  BY FromFits
<1>2. \A s : At(s) <=> s = plan[k]
  BY <1>1 DEF At
<1>3. <<>> \o From(plan, k + 1) = From(plan, k + 1)
  BY <1>1, ConcatEmptySeq
<1>4. Done => /\ todo' = From(plan, k + 1) /\ cmd' = cmd
              /\ result' = IF todo' = <<>> /\ result = "none" THEN "ok" ELSE result
  BY <1>1, <1>3 DEF Done, Then
<1>5. \A x : Then(<<x>>) => todo' = <<x>> \o From(plan, k + 1) /\ cmd' = cmd
  BY <1>1 DEF Then
<1>6. "discard" \in {todo[i] : i \in 1..Len(todo)} <=> \E j \in k..Len(plan) : plan[j] = "discard"
  <2>1. Len(plan) \in Nat /\ Len(todo) = Len(plan) - k + 1
    BY <1>1
  <2>2. \A i \in 1..Len(todo) : i + k - 1 \in k..Len(plan) /\ todo[i] = plan[i + k - 1]
    BY <1>1, <2>1
  <2>3. \A j \in k..Len(plan) : j - k + 1 \in 1..Len(todo) /\ todo[j - k + 1] = plan[j]
    BY <1>1, <2>1
  <2>4. ASSUME "discard" \in {todo[i] : i \in 1..Len(todo)} PROVE \E j \in k..Len(plan) : plan[j] = "discard"
    <3>1. PICK i \in 1..Len(todo) : todo[i] = "discard"
      BY <2>4
    <3> QED BY <2>2, <3>1
  <2>5. ASSUME NEW j \in k..Len(plan), plan[j] = "discard" PROVE "discard" \in {todo[i] : i \in 1..Len(todo)}
    <3>1. j - k + 1 \in 1..Len(todo) /\ todo[j - k + 1] = "discard"
      BY <2>3, <2>5
    <3> QED BY <3>1
  <2> QED BY <2>4, <2>5
<1> QED BY <1>1, <1>2, <1>4, <1>5, <1>6 DEF Failed

\* Plan u is s and then t.
Joins(s, t, u) ==
  Len(u) = Len(s) + Len(t) /\ \A i \in 1..Len(u) : u[i] = IF i <= Len(s) THEN s[i] ELSE t[i - Len(s)]

\* Joined plans are equal to the plan they spell out.
LEMMA Joined ==
  ASSUME NEW s \in Seq(StepNames), NEW t \in Seq(StepNames), NEW u \in Seq(StepNames), Joins(s, t, u)
  PROVE  s \o t = u
<1> USE DEF Joins
<1>1. s \o t \in Seq(StepNames) /\ Len(s \o t) = Len(u) /\ \A i \in 1..Len(u) : (s \o t)[i] = u[i]
  BY ConcatProperties
<1> QED BY <1>1, SeqEqual

\* The plans, step by step.
LEMMA Plans ==
  /\ \A x \in Stops : /\ CreateWith(x) \in Seq(StepNames) /\ Len(CreateWith(x)) = 12
                      /\ RefreshWith(x) \in Seq(StepNames) /\ Len(RefreshWith(x)) = 4
                      /\ UpgradeWith(x) \in Seq(StepNames) /\ Len(UpgradeWith(x)) = 4
  /\ DestroyPlan \in Seq(StepNames) /\ Len(DestroyPlan) = 9
  /\ Swap \in Seq(StepNames) /\ Len(Swap) = 4
  /\ Rollback \in Seq(StepNames) /\ Len(Rollback) = 5
<1>1. \A x \in Stops : CreateWith(x) \in Seq(StepNames) /\ Len(CreateWith(x)) = 12
  BY DEF Stops, StepNames, CreateWith
<1>2. \A x \in Stops : RefreshWith(x) \in Seq(StepNames) /\ Len(RefreshWith(x)) = 4
  BY DEF Stops, StepNames, RefreshWith
<1>3. \A x \in Stops : UpgradeWith(x) \in Seq(StepNames) /\ Len(UpgradeWith(x)) = 4
  BY DEF Stops, StepNames, UpgradeWith
<1>4. DestroyPlan \in Seq(StepNames) /\ Len(DestroyPlan) = 9
  BY DEF StepNames, DestroyPlan
<1>5. Swap \in Seq(StepNames) /\ Len(Swap) = 4
  BY DEF StepNames, Swap
<1>6. Rollback \in Seq(StepNames) /\ Len(Rollback) = 5
  BY DEF StepNames, Rollback
<1> QED BY <1>1, <1>2, <1>3, <1>4, <1>5, <1>6

RemovePlan == <<"stop", "waitStopped", "delete", "kill", "removeTree">>
BouncePlan == <<"stop", "waitStopped", "tryStart">>

\* What the commands do is the plans above.
LEMMA Commanded ==
  /\ CreateRunner = CreateWith("requestStop")
  /\ RefreshUnit = RefreshWith("requestStop")
  /\ UpgradeRunnerAgent = UpgradeWith("requestStop")
  /\ RemoveRunner = RemovePlan /\ RemovePlan \in Seq(StepNames) /\ Len(RemovePlan) = 5
  /\ DestroySlot = DestroyPlan
  /\ BouncePlan \in Seq(StepNames) /\ Len(BouncePlan) = 3
<1>0. "requestStop" \in Stops
  BY DEF Stops
<1>1. CreateRunner = CreateWith("requestStop")
  <2> DEFINE a == <<"kill", "removeTree", "extract", "configure", "setEnv", "awaitRunning">>
             b == <<"startService", "selfTest">>
             ta == <<"stop", "waitStopped", "delete", "kill", "removeTree", "extract", "configure", "setEnv",
                     "awaitRunning">>
             tas == <<"stop", "waitStopped", "delete", "kill", "removeTree", "extract", "configure", "setEnv",
                      "awaitRunning", "requestStop">>
             all == CreateWith("requestStop")
  <2>1. /\ teardownService \in Seq(StepNames) /\ Len(teardownService) = 3
        /\ stopService \in Seq(StepNames) /\ Len(stopService) = 1
        /\ a \in Seq(StepNames) /\ Len(a) = 6 /\ b \in Seq(StepNames) /\ Len(b) = 2
    BY DEF teardownService, stopService, StepNames
  <2>2. ta \in Seq(StepNames) /\ Len(ta) = 9 /\ tas \in Seq(StepNames) /\ Len(tas) = 10
    BY DEF StepNames
  <2>3. all \in Seq(StepNames) /\ Len(all) = 12
    BY <1>0, Plans
  <2>4. Joins(teardownService, a, ta)
    BY <2>1, <2>2 DEF Joins, teardownService
  <2>5. Joins(ta, stopService, tas)
    BY <2>1, <2>2 DEF Joins, stopService
  <2>6. Joins(tas, b, all)
    BY <2>1, <2>2 DEF Joins, CreateWith
  <2>7. CreateRunner = teardownService \o a \o stopService \o b
    BY DEF CreateRunner
  <2> HIDE DEF a, b, ta, tas, all
  <2>8. teardownService \o a = ta
    BY <2>1, <2>2, <2>4, Joined
  <2>9. ta \o stopService = tas
    BY <2>1, <2>2, <2>5, Joined
  <2>10. tas \o b = all
    BY <2>1, <2>2, <2>3, <2>6, Joined
  <2>11. CreateRunner = all
    BY <2>7, <2>8, <2>9, <2>10
  <2> QED BY <2>11 DEF all
<1>2. RefreshUnit = RefreshWith("requestStop")
  <2> DEFINE a == <<"setEnv">>
             b == <<"startService", "selfTest">>
             as == <<"setEnv", "requestStop">>
             all == RefreshWith("requestStop")
  <2>1. /\ stopService \in Seq(StepNames) /\ Len(stopService) = 1
        /\ a \in Seq(StepNames) /\ Len(a) = 1 /\ b \in Seq(StepNames) /\ Len(b) = 2
        /\ as \in Seq(StepNames) /\ Len(as) = 2
    BY DEF stopService, StepNames
  <2>2. all \in Seq(StepNames) /\ Len(all) = 4
    BY <1>0, Plans
  <2>3. Joins(a, stopService, as)
    BY <2>1, <2>2 DEF Joins, stopService
  <2>4. Joins(as, b, all)
    BY <2>1, <2>2 DEF Joins, RefreshWith
  <2>5. RefreshUnit = a \o stopService \o b
    BY DEF RefreshUnit
  <2> HIDE DEF a, b, as, all
  <2>6. a \o stopService = as
    BY <2>1, <2>3, Joined
  <2>7. as \o b = all
    BY <2>1, <2>2, <2>4, Joined
  <2>8. RefreshUnit = all
    BY <2>5, <2>6, <2>7
  <2> QED BY <2>8 DEF all
<1>3. UpgradeRunnerAgent = UpgradeWith("requestStop")
  <2> DEFINE a == <<"recover">>
             b == <<"kill", "snapshot">>
             as == <<"recover", "requestStop">>
             all == UpgradeWith("requestStop")
  <2>1. /\ stopService \in Seq(StepNames) /\ Len(stopService) = 1
        /\ a \in Seq(StepNames) /\ Len(a) = 1 /\ b \in Seq(StepNames) /\ Len(b) = 2
        /\ as \in Seq(StepNames) /\ Len(as) = 2
    BY DEF stopService, StepNames
  <2>2. all \in Seq(StepNames) /\ Len(all) = 4
    BY <1>0, Plans
  <2>3. Joins(a, stopService, as)
    BY <2>1, <2>2 DEF Joins, stopService
  <2>4. Joins(as, b, all)
    BY <2>1, <2>2 DEF Joins, UpgradeWith
  <2>5. UpgradeRunnerAgent = a \o stopService \o b
    BY DEF UpgradeRunnerAgent
  <2> HIDE DEF a, b, as, all
  <2>6. a \o stopService = as
    BY <2>1, <2>3, Joined
  <2>7. as \o b = all
    BY <2>1, <2>2, <2>4, Joined
  <2>8. UpgradeRunnerAgent = all
    BY <2>5, <2>6, <2>7
  <2> QED BY <2>8 DEF all
<1>4. RemoveRunner = RemovePlan /\ RemovePlan \in Seq(StepNames) /\ Len(RemovePlan) = 5
  <2> DEFINE b == <<"kill", "removeTree">>
  <2>1. /\ teardownService \in Seq(StepNames) /\ Len(teardownService) = 3
        /\ b \in Seq(StepNames) /\ Len(b) = 2
        /\ RemovePlan \in Seq(StepNames) /\ Len(RemovePlan) = 5
    BY DEF teardownService, StepNames, RemovePlan
  <2>2. Joins(teardownService, b, RemovePlan)
    BY <2>1 DEF Joins, teardownService, RemovePlan
  <2>3. RemoveRunner = teardownService \o b
    BY DEF RemoveRunner
  <2> HIDE DEF b
  <2> QED BY <2>1, <2>2, <2>3, Joined
<1>5. DestroySlot = DestroyPlan
  <2> DEFINE a == <<"readPending", "deregister">>
             b == <<"kill", "wipeControl", "removeTree">>
             tb == <<"stop", "waitStopped", "delete", "waitGone", "kill", "wipeControl", "removeTree">>
  <2>1. /\ teardownEphemeralService \in Seq(StepNames) /\ Len(teardownEphemeralService) = 4
        /\ a \in Seq(StepNames) /\ Len(a) = 2 /\ b \in Seq(StepNames) /\ Len(b) = 3
        /\ tb \in Seq(StepNames) /\ Len(tb) = 7
    BY DEF teardownEphemeralService, StepNames
  <2>2. DestroyPlan \in Seq(StepNames) /\ Len(DestroyPlan) = 9
    BY Plans
  <2>3. Joins(teardownEphemeralService, b, tb)
    BY <2>1, <2>2 DEF Joins, teardownEphemeralService
  <2>4. Joins(a, tb, DestroyPlan)
    BY <2>1, <2>2 DEF Joins, DestroyPlan
  <2>5. DestroySlot = a \o (teardownEphemeralService \o b)
    BY DEF DestroySlot, RemoveEphemeralSlot
  <2> HIDE DEF a, b, tb
  <2>6. teardownEphemeralService \o b = tb
    BY <2>1, <2>3, Joined
  <2>7. a \o tb = DestroyPlan
    BY <2>1, <2>2, <2>4, Joined
  <2> QED BY <2>5, <2>6, <2>7
<1>6. BouncePlan \in Seq(StepNames) /\ Len(BouncePlan) = 3
  BY DEF StepNames, BouncePlan
<1> QED BY <1>1, <1>2, <1>3, <1>4, <1>5, <1>6

\* Which step a command takes is what its plan says.
LEMMA StepNamed ==
  /\ Stop => At("stop")
  /\ WaitStopped => At("waitStopped")
  /\ WaitGone => At("waitGone")
  /\ Delete => At("delete")
  /\ KillAgents => At("kill")
  /\ RemoveTree => At("removeTree")
  /\ Extract => At("extract")
  /\ Configure => At("configure")
  /\ writeServiceEnvironment => At("setEnv")
  /\ waitServiceRunning => At("awaitRunning")
  /\ RequestStop => At("requestStop")
  /\ startService => At("startService")
  /\ TryStart => At("tryStart")
  /\ waitRunning => At("selfTest")
  /\ Recover => At("recover")
  /\ Snapshot => At("snapshot")
  /\ Discard => At("discard")
  /\ Restore => At("restore")
  /\ ReadPending => At("readPending")
  /\ Deregister => At("deregister")
  /\ WipeControl => At("wipeControl")
  /\ WriteParams => At("writeParams")
  /\ installSupervisorService => At("install")
  /\ StopSettled => At("stopSent") \/ At("stopRefused")
BY DEF Stop, WaitStopped, WaitGone, Delete, KillAgents, RemoveTree, Extract, Configure, writeServiceEnvironment,
     waitServiceRunning, RequestStop, startService, TryStart, waitRunning, Recover, Snapshot, Discard, Restore,
     ReadPending, Deregister, WipeControl, WriteParams, installSupervisorService, StopSettled

LEMMA WhichStep ==
  ASSUME Operate, todo # <<>>, NEW h, \A s : At(s) <=> s = h
  PROVE  /\ h \notin {"readPending", "deregister", "wipeControl", "writeParams", "install"} => UNCHANGED laneVars
         /\ h = "stop" => Stop
         /\ h = "waitStopped" => WaitStopped
         /\ h = "waitGone" => WaitGone
         /\ h = "delete" => Delete
         /\ h = "kill" => KillAgents
         /\ h = "removeTree" => RemoveTree
         /\ h = "extract" => Extract
         /\ h = "configure" => Configure
         /\ h = "setEnv" => writeServiceEnvironment
         /\ h = "awaitRunning" => waitServiceRunning
         /\ h = "requestStop" => RequestStop
         /\ h = "startService" => startService
         /\ h = "tryStart" => TryStart
         /\ h = "selfTest" => waitRunning
         /\ h = "recover" => Recover
         /\ h = "snapshot" => Snapshot
         /\ h = "discard" => Discard
         /\ h = "restore" => Restore
         /\ h = "readPending" => ReadPending
         /\ h = "deregister" => Deregister
         /\ h = "wipeControl" => WipeControl
         /\ h = "writeParams" => WriteParams
         /\ h = "install" => installSupervisorService
         /\ h \in {"stopSent", "stopRefused"} => StopSettled
<1>1. (ScmSteps /\ UNCHANGED laneVars) \/ ReadPending \/ Deregister \/ WipeControl \/ WriteParams \/ installSupervisorService
  BY DEF Operate, Begin
<1> QED BY <1>1, StepNamed DEF ScmSteps

\* A stop that is requested changes what its plan says of the waiting.
LEMMA Requested ==
  ASSUME NEW p \in Seq(StepNames), NEW q \in Seq(StepNames), NEW k \in 1..Len(p), Len(q) = Len(p),
         \A i \in k + 1..Len(p) : q[i] = p[i]
  PROVE  <<q[k]>> \o From(p, k + 1) = From(q, k)
<1>1. Len(q) \in k..Len(q) /\ k \in 1..Len(q) /\ Len(q) \in Nat
  OBVIOUS
<1>2. From(q, k) = <<q[k]>> \o From(q, k + 1)
  BY <1>1, SubSeqRecursiveFirst DEF From
<1>3. \A i \in k + 1..Len(p) : p[i] \in StepNames /\ q[i] \in StepNames
  BY <1>1
<1>4. /\ From(p, k + 1) \in Seq(StepNames) /\ Len(From(p, k + 1)) = Len(p) - k
      /\ \A i \in 1..Len(p) - k : From(p, k + 1)[i] = p[k + i]
  <2>1. /\ SubSeq(p, k + 1, Len(p)) \in Seq(StepNames)
        /\ Len(SubSeq(p, k + 1, Len(p))) = IF k + 1 <= Len(p) THEN Len(p) - (k + 1) + 1 ELSE 0
        /\ \A i \in 1..Len(p) - (k + 1) + 1 : SubSeq(p, k + 1, Len(p))[i] = p[k + 1 + i - 1]
    BY <1>1, <1>3, SubSeqProperties
  <2> QED BY <1>1, <2>1 DEF From
<1>5. /\ From(q, k + 1) \in Seq(StepNames) /\ Len(From(q, k + 1)) = Len(p) - k
      /\ \A i \in 1..Len(p) - k : From(q, k + 1)[i] = q[k + i]
  <2>1. /\ SubSeq(q, k + 1, Len(p)) \in Seq(StepNames)
        /\ Len(SubSeq(q, k + 1, Len(p))) = IF k + 1 <= Len(p) THEN Len(p) - (k + 1) + 1 ELSE 0
        /\ \A i \in 1..Len(p) - (k + 1) + 1 : SubSeq(q, k + 1, Len(p))[i] = q[k + 1 + i - 1]
    BY <1>1, <1>3, SubSeqProperties
  <2> QED BY <1>1, <2>1 DEF From
<1>6. \A i \in 1..Len(p) - k : From(q, k + 1)[i] = From(p, k + 1)[i]
  BY <1>1, <1>4, <1>5
<1>7. From(q, k + 1) = From(p, k + 1)
  BY <1>4, <1>5, <1>6, SeqEqual
<1> QED BY <1>2, <1>7

-----------------------------------------------------------------------------
(* What the commands deliver: a persistent runner.                         *)

\* Faults only accumulate.
LEMMA FaultsGrow ==
  /\ \A k : Fault(k) => faults \subseteq faults' /\ k \in faults'
  /\ NoFault => faults' = faults
BY DEF Fault, NoFault

\* What a command's step leaves alone of a service and its payload.
Still == UNCHANGED <<tree, snap, kind>> /\ (svc' # "absent" => svc # "absent")

\* The payload of a runner whose command is no upgrade.
Keeps == Sound /\ svc # "absent" => tree \in {"old", "new"} \/ (snap = "old" /\ tree = "absent")

\* What leaves the payload alone keeps it.
LEMMA StillKeeps ==
  ASSUME Keeps, Still, faults \subseteq faults'
  PROVE  Keeps'
BY DEF Keeps, Still, Sound

\* Each position of a create is one of its steps, after which it goes on or ends.
LEMMA CreateStep ==
  ASSUME Operate, NEW x \in Stops, NEW k \in 1..12, todo = From(CreateWith(x), k)
  PROVE  /\ UNCHANGED laneVars
         /\ k = 1 => Stop
         /\ k = 2 => WaitStopped
         /\ k = 3 => Delete
         /\ k = 4 => KillAgents
         /\ k = 5 => RemoveTree
         /\ k = 6 => Extract
         /\ k = 7 => Configure
         /\ k = 8 => writeServiceEnvironment
         /\ k = 9 => waitServiceRunning
         /\ k = 10 => IF x = "requestStop" THEN RequestStop ELSE StopSettled
         /\ k = 11 => startService
         /\ k = 12 => waitRunning
         /\ Done => /\ todo' = From(CreateWith(x), k + 1) /\ cmd' = cmd
                    /\ result' = IF todo' = <<>> /\ result = "none" THEN "ok" ELSE result
         /\ \A y \in Stops : k = 10 /\ Then(<<y>>) => todo' = From(CreateWith(y), 10) /\ cmd' = cmd
         /\ At("stopRefused") <=> k = 10 /\ x = "stopRefused"
         /\ Failed => cmd' = cmd /\ todo' = <<>> /\ result' = "error"
<1>0. CreateWith(x) \in Seq(StepNames) /\ Len(CreateWith(x)) = 12 /\ k \in 1..Len(CreateWith(x))
  BY Plans, Commanded
<1>1. /\ todo # <<>> /\ \A s : At(s) <=> s = CreateWith(x)[k]
      /\ Done => /\ todo' = From(CreateWith(x), k + 1) /\ cmd' = cmd
                 /\ result' = IF todo' = <<>> /\ result = "none" THEN "ok" ELSE result
      /\ \A y : Then(<<y>>) => todo' = <<y>> \o From(CreateWith(x), k + 1) /\ cmd' = cmd
      /\ Failed => cmd' = cmd /\ IF \E j \in k..Len(CreateWith(x)) : CreateWith(x)[j] = "discard"
                                 THEN todo' = Rollback /\ result' = "rolledBack"
                                 ELSE todo' = <<>> /\ result' = "error"
  BY <1>0, PlanStep
<1>2. \A j \in k..Len(CreateWith(x)) : CreateWith(x)[j] # "discard"
  <2>1. \A j \in 1..12 : CreateWith(x)[j] # "discard"
    BY DEF CreateWith, Stops
  <2> QED BY <1>0, <2>1
<1>3. CreateWith(x)[k] \notin {"readPending", "deregister", "wipeControl", "writeParams", "install"}
  BY DEF CreateWith, Stops
<1>4. ASSUME NEW y \in Stops, k = 10, Then(<<y>>)
      PROVE  todo' = From(CreateWith(y), 10) /\ cmd' = cmd
  <2>1. CreateWith(y) \in Seq(StepNames) /\ Len(CreateWith(y)) = 12
    BY Plans
  <2>2. CreateWith(y)[10] = y /\ \A i \in 11..12 : CreateWith(y)[i] = CreateWith(x)[i]
    BY DEF CreateWith
  <2>3. /\ 10 \in 1..Len(CreateWith(x)) /\ Len(CreateWith(y)) = Len(CreateWith(x))
        /\ \A i \in 10 + 1..Len(CreateWith(x)) : CreateWith(y)[i] = CreateWith(x)[i]
    BY <1>0, <2>1, <2>2
  <2>4. <<CreateWith(y)[10]>> \o From(CreateWith(x), 10 + 1) = From(CreateWith(y), 10)
    BY <1>0, <2>1, <2>3, Requested
  <2>5. todo' = <<y>> \o From(CreateWith(x), 10 + 1) /\ cmd' = cmd
    BY <1>1, <1>4
  <2> QED BY <2>2, <2>4, <2>5
<1>5. /\ UNCHANGED laneVars
      /\ CreateWith(x)[k] = "stop" => Stop
      /\ CreateWith(x)[k] = "waitStopped" => WaitStopped
      /\ CreateWith(x)[k] = "delete" => Delete
      /\ CreateWith(x)[k] = "kill" => KillAgents
      /\ CreateWith(x)[k] = "removeTree" => RemoveTree
      /\ CreateWith(x)[k] = "extract" => Extract
      /\ CreateWith(x)[k] = "configure" => Configure
      /\ CreateWith(x)[k] = "setEnv" => writeServiceEnvironment
      /\ CreateWith(x)[k] = "awaitRunning" => waitServiceRunning
      /\ CreateWith(x)[k] = "startService" => startService
      /\ CreateWith(x)[k] = "selfTest" => waitRunning
      /\ CreateWith(x)[k] = "requestStop" => RequestStop
      /\ CreateWith(x)[k] \in {"stopSent", "stopRefused"} => StopSettled
  BY <1>1, <1>3, WhichStep
<1>6. /\ k = 1 => CreateWith(x)[k] = "stop"
      /\ k = 2 => CreateWith(x)[k] = "waitStopped"
      /\ k = 3 => CreateWith(x)[k] = "delete"
      /\ k = 4 => CreateWith(x)[k] = "kill"
      /\ k = 5 => CreateWith(x)[k] = "removeTree"
      /\ k = 6 => CreateWith(x)[k] = "extract"
      /\ k = 7 => CreateWith(x)[k] = "configure"
      /\ k = 8 => CreateWith(x)[k] = "setEnv"
      /\ k = 9 => CreateWith(x)[k] = "awaitRunning"
      /\ k = 10 => CreateWith(x)[k] = x
      /\ k = 11 => CreateWith(x)[k] = "startService"
      /\ k = 12 => CreateWith(x)[k] = "selfTest"
  BY DEF CreateWith
<1>7. k = 10 => IF x = "requestStop" THEN RequestStop ELSE StopSettled
  BY <1>5, <1>6 DEF Stops
<1>9. At("stopRefused") <=> k = 10 /\ x = "stopRefused"
  BY <1>1, <1>6
<1>8. Failed => cmd' = cmd /\ todo' = <<>> /\ result' = "error"
  BY <1>1, <1>2
<1> QED BY <1>1, <1>4, <1>5, <1>6, <1>7, <1>8, <1>9

\* A create follows its plan, and the service has a payload whenever it is there.
LEMMA CreateMoves ==
  ASSUME Operate, TypeOK, ServiceFits, kind = "runner", Keeps, NEW x \in Stops, NEW k \in 1..12, CreateAt(k, x)
  PROVE  /\ cmd' = cmd
         /\ (todo' = <<>> /\ result' # "ok") \/ \E l \in 1..13, y \in Stops : CreateAt(l, y)'
         /\ Keeps'
<1>0. /\ UNCHANGED laneVars
      /\ k = 1 => Stop
      /\ k = 2 => WaitStopped
      /\ k = 3 => Delete
      /\ k = 4 => KillAgents
      /\ k = 5 => RemoveTree
      /\ k = 6 => Extract
      /\ k = 7 => Configure
      /\ k = 8 => writeServiceEnvironment
      /\ k = 9 => waitServiceRunning
      /\ k = 10 => IF x = "requestStop" THEN RequestStop ELSE StopSettled
      /\ k = 11 => startService
      /\ k = 12 => waitRunning
      /\ Done => todo' = From(CreateWith(x), k + 1) /\ cmd' = cmd
      /\ \A y \in Stops : k = 10 /\ Then(<<y>>) => todo' = From(CreateWith(y), 10) /\ cmd' = cmd
      /\ Failed => cmd' = cmd /\ todo' = <<>> /\ result' = "error"
      /\ At("stopRefused") <=> k = 10 /\ x = "stopRefused"
  BY CreateStep DEF CreateAt
<1>1. svc \in {"absent", "stopped", "running", "startPending", "stopPending"} /\ (NoProcess => ~doomed)
  BY DEF TypeOK, ScmTypeOK, Pending, ServiceFits
<1>2. \A f : Fault(f) => faults \subseteq faults' /\ f \in faults'
  BY FaultsGrow
<1>3. k < 10 => x = "requestStop"
  BY DEF CreateAt
<1>4. ASSUME cmd' = cmd, CreateAt(k + 1, x)', k + 1 \in 1..13, Keeps'
      PROVE  /\ cmd' = cmd
             /\ (todo' = <<>> /\ result' # "ok") \/ \E l \in 1..13, y \in Stops : CreateAt(l, y)'
             /\ Keeps'
  BY <1>4
<1>5. CASE k = 1
  <2>1. Stop /\ todo' = From(CreateWith(x), 2) /\ cmd' = cmd
    BY <1>0, <1>5 DEF Stop
  <2>2. Still /\ faults' = faults
    BY <1>1, <2>1 DEF Stop, SendStop, Still, host
  <2>3. CreateAt(2, x)'
    BY <1>3, <1>5, <2>1 DEF CreateAt
  <2> QED BY <1>4, <1>5, <2>1, <2>2, <2>3, StillKeeps
<1>6. CASE k = 2
  <2>1. WaitStopped /\ todo' = From(CreateWith(x), 3) /\ cmd' = cmd
    BY <1>0, <1>6 DEF WaitStopped
  <2>2. Still /\ faults \subseteq faults'
    BY <1>2, <2>1 DEF WaitStopped, Settles, NoFault, Still, host, svcVars
  <2>3. CreateAt(3, x)'
    BY <1>3, <1>6, <2>1 DEF CreateAt
  <2> QED BY <1>4, <1>6, <2>1, <2>2, <2>3, StillKeeps
<1>7. CASE k = 3
  <2>1. Delete /\ todo' = From(CreateWith(x), 4) /\ cmd' = cmd
    BY <1>0, <1>7 DEF Delete
  <2>2. Still /\ faults' = faults /\ (svc' = "absent" \/ doomed')
    BY <2>1 DEF Delete, Still, host
  <2>3. CreateAt(4, x)'
    BY <1>3, <1>7, <2>1, <2>2 DEF CreateAt
  <2> QED BY <1>4, <1>7, <2>1, <2>2, <2>3, StillKeeps
<1>8. CASE k = 4
  <2>1. KillAgents /\ todo' = From(CreateWith(x), 5) /\ cmd' = cmd
    BY <1>0, <1>8 DEF KillAgents
  <2>2. svc = "absent" \/ doomed
    BY <1>8 DEF CreateAt
  <2>3. Still /\ faults \subseteq faults' /\ ("kill" \notin faults' => svc' = "absent" /\ agents' = {})
    BY <1>1, <1>2, <2>1, <2>2 DEF KillAgents, ProcessGone, Pending, NoFault, NoProcess, Still
  <2>4. CreateAt(5, x)'
    BY <1>3, <1>8, <2>1, <2>3 DEF CreateAt
  <2> QED BY <1>4, <1>8, <2>1, <2>3, <2>4, StillKeeps
<1>9. CASE k = 5
  <2>1. RemoveTree /\ faults' = faults /\ UNCHANGED <<svc, agents, kind>>
    BY <1>0, <1>9 DEF RemoveTree, NoFault, svcVars
  <2>2. "kill" \notin faults => svc = "absent" /\ agents = {}
    BY <1>9 DEF CreateAt
  <2>3. Keeps'
    BY <2>1, <2>2 DEF Keeps, Sound
  <2>4. CASE Done
    <3>1. todo' = From(CreateWith(x), 6) /\ cmd' = cmd
      BY <1>0, <1>9, <2>4
    <3>2. CreateAt(6, x)'
      BY <1>3, <1>9, <2>1, <2>2, <3>1 DEF CreateAt
    <3> QED BY <1>4, <1>9, <2>3, <3>1, <3>2
  <2>5. CASE Failed
    BY <1>0, <2>3, <2>5
  <2> QED BY <2>1, <2>4, <2>5 DEF RemoveTree
<1>10. CASE k = 6
  <2>1. Extract /\ faults \subseteq faults' /\ UNCHANGED <<svc, agents, kind>>
    BY <1>0, <1>2, <1>10 DEF Extract, NoFault, svcVars
  <2>2. "kill" \notin faults => svc = "absent" /\ agents = {}
    BY <1>10 DEF CreateAt
  <2>3. Keeps'
    BY <2>1, <2>2 DEF Keeps, Sound
  <2>4. CASE Done /\ tree' = "new"
    <3>1. todo' = From(CreateWith(x), 7) /\ cmd' = cmd
      BY <1>0, <1>10, <2>4
    <3>2. CreateAt(7, x)'
      BY <1>3, <1>10, <2>1, <2>2, <2>4, <3>1 DEF CreateAt
    <3> QED BY <1>4, <1>10, <2>3, <3>1, <3>2
  <2>5. CASE Failed
    BY <1>0, <2>3, <2>5
  <2> QED BY <2>1, <2>4, <2>5 DEF Extract
<1>11. CASE k = 7
  <2>1. Configure /\ faults \subseteq faults' /\ UNCHANGED <<agents, kind, tree, snap>>
    BY <1>0, <1>2, <1>11 DEF Configure, NoFault
  <2>2. ("kill" \notin faults => svc = "absent" /\ agents = {}) /\ tree = "new"
    BY <1>11 DEF CreateAt
  <2>3. Keeps'
    BY <2>1, <2>2 DEF Keeps
  <2>4. CASE Done
    <3>1. todo' = From(CreateWith(x), 8) /\ cmd' = cmd
      BY <1>0, <1>11, <2>4
    <3>2. CreateAt(8, x)'
      BY <1>3, <1>11, <2>1, <3>1 DEF CreateAt
    <3> QED BY <1>4, <1>11, <2>3, <3>1, <3>2
  <2>5. CASE Failed
    BY <1>0, <2>3, <2>5
  <2> QED BY <2>1, <2>4, <2>5 DEF Configure
<1>12. CASE k = 8
  <2>1. writeServiceEnvironment /\ faults' = faults /\ Still
    BY <1>0, <1>12 DEF writeServiceEnvironment, NoFault, svcVars, Still
  <2>2. Keeps'
    BY <2>1, StillKeeps
  <2>3. CASE Done /\ env' = "current"
    <3>1. todo' = From(CreateWith(x), 9) /\ cmd' = cmd
      BY <1>0, <1>12, <2>3
    <3>2. CreateAt(9, x)'
      BY <1>3, <1>12, <2>3, <3>1 DEF CreateAt
    <3> QED BY <1>4, <1>12, <2>2, <3>1, <3>2
  <2>4. CASE Failed
    BY <1>0, <2>2, <2>4
  <2> QED BY <2>1, <2>3, <2>4 DEF writeServiceEnvironment
<1>13. CASE k = 9
  <2>1. waitServiceRunning /\ faults \subseteq faults' /\ Still /\ UNCHANGED <<svc, env>>
    BY <1>0, <1>2, <1>13 DEF waitServiceRunning, NoFault, svcVars, host, Still
  <2>2. Keeps'
    BY <2>1, StillKeeps
  <2>3. CASE Done /\ svc = "running"
    <3>1. todo' = From(CreateWith(x), 10) /\ cmd' = cmd /\ env = "current"
      BY <1>0, <1>13, <2>3 DEF CreateAt
    <3>2. CreateAt(10, x)'
      BY <1>3, <1>13, <2>1, <2>3, <3>1 DEF CreateAt
    <3> QED BY <1>4, <1>13, <2>2, <3>1, <3>2
  <2>4. CASE Failed
    BY <1>0, <2>2, <2>4
  <2> QED BY <2>1, <2>3, <2>4 DEF waitServiceRunning
<1>14. CASE k = 10 /\ x = "requestStop"
  <2>1. RequestStop /\ env = "current" /\ svc \in {"running", "stopped", "absent"}
    BY <1>0, <1>14 DEF CreateAt
  <2>2. PICK y \in {"stopSent", "stopRefused"} : Then(<<y>>)
    BY <2>1 DEF RequestStop
  <2>3. y \in Stops /\ y # "requestStop"
    BY DEF Stops
  <2>4. todo' = From(CreateWith(y), 10) /\ cmd' = cmd
    BY <1>0, <1>14, <2>2, <2>3
  <2>5. Still /\ faults' = faults /\ env' = env /\ svc' \in {"stopPending", "stopped", "absent"}
    BY <2>1 DEF RequestStop, SendStop, Still, host
  <2>6. CreateAt(10, y)'
    BY <2>1, <2>3, <2>4, <2>5 DEF CreateAt
  <2>7. Keeps'
    BY <2>5, StillKeeps
  <2> QED BY <2>3, <2>4, <2>6, <2>7
<1>15. CASE k = 10 /\ x # "requestStop"
  <2>1. StopSettled /\ env = "current" /\ svc \in {"stopPending", "stopped", "absent"}
    BY <1>0, <1>15 DEF CreateAt
  <2>2. Still /\ faults \subseteq faults' /\ UNCHANGED <<svc, env>>
    BY <1>2, <2>1 DEF StopSettled, Settles, NoFault, Still, host, svcVars
  <2>3. Done
    BY <2>1 DEF StopSettled
  <2>4. todo' = From(CreateWith(x), 11) /\ cmd' = cmd
    BY <1>0, <1>15, <2>3
  <2>5. CreateAt(11, x)'
    BY <2>1, <2>2, <2>4 DEF CreateAt
  <2>6. Keeps'
    BY <2>2, StillKeeps
  <2> QED BY <1>4, <1>15, <2>4, <2>5, <2>6
<1>16. CASE k = 11
  <2>1. startService /\ env = "current" /\ svc \in {"stopPending", "stopped", "absent"}
    BY <1>0, <1>16 DEF CreateAt
  <2>2. Still /\ faults' = faults /\ UNCHANGED env
    BY <2>1 DEF startService, SendStart, CanStart, NoFault, Still, host
  <2>3. Keeps'
    BY <2>2, StillKeeps
  <2>4. CASE Done /\ CanStart
    <3>1. todo' = From(CreateWith(x), 12) /\ cmd' = cmd
      BY <1>0, <1>16, <2>4
    <3>2. penv' = "current"
      BY <2>1, <2>4 DEF startService, SendStart
    <3>3. CreateAt(12, x)'
      BY <2>1, <2>2, <3>1, <3>2 DEF CreateAt
    <3> QED BY <1>4, <1>16, <2>3, <3>1, <3>3
  <2>5. CASE Failed
    BY <1>0, <2>3, <2>5
  <2> QED BY <2>1, <2>4, <2>5 DEF startService
<1>17. CASE k = 12
  <2>1. waitRunning /\ env = "current" /\ penv = "current"
    BY <1>0, <1>17 DEF CreateAt
  <2>2. Still /\ faults \subseteq faults' /\ UNCHANGED <<env, penv>>
    BY <1>2, <2>1 DEF waitRunning, NoFault, Still, host, svcVars
  <2>3. Keeps'
    BY <2>2, StillKeeps
  <2>4. CASE Done
    <3>1. todo' = From(CreateWith(x), 13) /\ cmd' = cmd
      BY <1>0, <1>17, <2>4
    <3>2. CreateAt(13, x)'
      BY <2>1, <2>2, <3>1 DEF CreateAt
    <3> QED BY <1>4, <1>17, <2>3, <3>1, <3>2
  <2>5. CASE Failed
    BY <1>0, <2>3, <2>5
  <2> QED BY <2>1, <2>4, <2>5 DEF waitRunning
<1> QED BY <1>5, <1>6, <1>7, <1>8, <1>9, <1>10, <1>11, <1>12, <1>13, <1>14, <1>15, <1>16, <1>17
\* The same for a refresh,
LEMMA RefreshStep ==
  ASSUME Operate, NEW x \in Stops, NEW k \in 1..4, todo = From(RefreshWith(x), k)
  PROVE  /\ UNCHANGED laneVars
         /\ k = 1 => writeServiceEnvironment
         /\ k = 2 => IF x = "requestStop" THEN RequestStop ELSE StopSettled
         /\ k = 3 => startService
         /\ k = 4 => waitRunning
         /\ Done => /\ todo' = From(RefreshWith(x), k + 1) /\ cmd' = cmd
                    /\ result' = IF todo' = <<>> /\ result = "none" THEN "ok" ELSE result
         /\ \A y \in Stops : k = 2 /\ Then(<<y>>) => todo' = From(RefreshWith(y), 2) /\ cmd' = cmd
         /\ At("stopRefused") <=> k = 2 /\ x = "stopRefused"
         /\ Failed => cmd' = cmd /\ todo' = <<>> /\ result' = "error"
<1>0. RefreshWith(x) \in Seq(StepNames) /\ Len(RefreshWith(x)) = 4 /\ k \in 1..Len(RefreshWith(x))
  BY Plans, Commanded
<1>1. /\ todo # <<>> /\ \A s : At(s) <=> s = RefreshWith(x)[k]
      /\ Done => /\ todo' = From(RefreshWith(x), k + 1) /\ cmd' = cmd
                 /\ result' = IF todo' = <<>> /\ result = "none" THEN "ok" ELSE result
      /\ \A y : Then(<<y>>) => todo' = <<y>> \o From(RefreshWith(x), k + 1) /\ cmd' = cmd
      /\ Failed => cmd' = cmd /\ IF \E j \in k..Len(RefreshWith(x)) : RefreshWith(x)[j] = "discard"
                                 THEN todo' = Rollback /\ result' = "rolledBack"
                                 ELSE todo' = <<>> /\ result' = "error"
  BY <1>0, PlanStep
<1>2. \A j \in k..Len(RefreshWith(x)) : RefreshWith(x)[j] # "discard"
  <2>1. \A j \in 1..4 : RefreshWith(x)[j] # "discard"
    BY DEF RefreshWith, Stops
  <2> QED BY <1>0, <2>1
<1>3. RefreshWith(x)[k] \notin {"readPending", "deregister", "wipeControl", "writeParams", "install"}
  BY DEF RefreshWith, Stops
<1>4. ASSUME NEW y \in Stops, k = 2, Then(<<y>>)
      PROVE  todo' = From(RefreshWith(y), 2) /\ cmd' = cmd
  <2>1. RefreshWith(y) \in Seq(StepNames) /\ Len(RefreshWith(y)) = 4
    BY Plans
  <2>2. RefreshWith(y)[2] = y /\ \A i \in 3..4 : RefreshWith(y)[i] = RefreshWith(x)[i]
    BY DEF RefreshWith
  <2>3. /\ 2 \in 1..Len(RefreshWith(x)) /\ Len(RefreshWith(y)) = Len(RefreshWith(x))
        /\ \A i \in 2 + 1..Len(RefreshWith(x)) : RefreshWith(y)[i] = RefreshWith(x)[i]
    BY <1>0, <2>1, <2>2
  <2>4. <<RefreshWith(y)[2]>> \o From(RefreshWith(x), 2 + 1) = From(RefreshWith(y), 2)
    BY <1>0, <2>1, <2>3, Requested
  <2>5. todo' = <<y>> \o From(RefreshWith(x), 2 + 1) /\ cmd' = cmd
    BY <1>1, <1>4
  <2> QED BY <2>2, <2>4, <2>5
<1>5. /\ UNCHANGED laneVars
      /\ RefreshWith(x)[k] = "setEnv" => writeServiceEnvironment
      /\ RefreshWith(x)[k] = "startService" => startService
      /\ RefreshWith(x)[k] = "selfTest" => waitRunning
      /\ RefreshWith(x)[k] = "requestStop" => RequestStop
      /\ RefreshWith(x)[k] \in {"stopSent", "stopRefused"} => StopSettled
  BY <1>1, <1>3, WhichStep
<1>6. /\ k = 1 => RefreshWith(x)[k] = "setEnv"
      /\ k = 2 => RefreshWith(x)[k] = x
      /\ k = 3 => RefreshWith(x)[k] = "startService"
      /\ k = 4 => RefreshWith(x)[k] = "selfTest"
  BY DEF RefreshWith
<1>7. k = 2 => IF x = "requestStop" THEN RequestStop ELSE StopSettled
  BY <1>5, <1>6 DEF Stops
<1>9. At("stopRefused") <=> k = 2 /\ x = "stopRefused"
  BY <1>1, <1>6
<1>8. Failed => cmd' = cmd /\ todo' = <<>> /\ result' = "error"
  BY <1>1, <1>2
<1> QED BY <1>1, <1>4, <1>5, <1>6, <1>7, <1>8, <1>9

\* for a removal,
LEMMA RemoveStep ==
  ASSUME Operate, NEW k \in 1..5, todo = From(RemovePlan, k)
  PROVE  /\ UNCHANGED laneVars
         /\ k = 1 => Stop
         /\ k = 2 => WaitStopped
         /\ k = 3 => Delete
         /\ k = 4 => KillAgents
         /\ k = 5 => RemoveTree
         /\ Done => /\ todo' = From(RemovePlan, k + 1) /\ cmd' = cmd
                    /\ result' = IF todo' = <<>> /\ result = "none" THEN "ok" ELSE result
         /\ Failed => cmd' = cmd /\ todo' = <<>> /\ result' = "error"
<1>0. RemovePlan \in Seq(StepNames) /\ Len(RemovePlan) = 5 /\ k \in 1..Len(RemovePlan)
  BY Plans, Commanded
<1>1. /\ todo # <<>> /\ \A s : At(s) <=> s = RemovePlan[k]
      /\ Done => /\ todo' = From(RemovePlan, k + 1) /\ cmd' = cmd
                 /\ result' = IF todo' = <<>> /\ result = "none" THEN "ok" ELSE result
      /\ \A y : Then(<<y>>) => todo' = <<y>> \o From(RemovePlan, k + 1) /\ cmd' = cmd
      /\ Failed => cmd' = cmd /\ IF \E j \in k..Len(RemovePlan) : RemovePlan[j] = "discard"
                                 THEN todo' = Rollback /\ result' = "rolledBack"
                                 ELSE todo' = <<>> /\ result' = "error"
  BY <1>0, PlanStep
<1>2. \A j \in k..Len(RemovePlan) : RemovePlan[j] # "discard"
  <2>1. \A j \in 1..5 : RemovePlan[j] # "discard"
    BY DEF RemovePlan
  <2> QED BY <1>0, <2>1
<1>3. RemovePlan[k] \notin {"readPending", "deregister", "wipeControl", "writeParams", "install"}
  BY DEF RemovePlan
<1>5. /\ UNCHANGED laneVars
      /\ RemovePlan[k] = "stop" => Stop
      /\ RemovePlan[k] = "waitStopped" => WaitStopped
      /\ RemovePlan[k] = "delete" => Delete
      /\ RemovePlan[k] = "kill" => KillAgents
      /\ RemovePlan[k] = "removeTree" => RemoveTree
  BY <1>1, <1>3, WhichStep
<1>6. /\ k = 1 => RemovePlan[k] = "stop"
      /\ k = 2 => RemovePlan[k] = "waitStopped"
      /\ k = 3 => RemovePlan[k] = "delete"
      /\ k = 4 => RemovePlan[k] = "kill"
      /\ k = 5 => RemovePlan[k] = "removeTree"
  BY DEF RemovePlan
<1>8. Failed => cmd' = cmd /\ todo' = <<>> /\ result' = "error"
  BY <1>1, <1>2
<1> QED BY <1>1, <1>5, <1>6, <1>8

\* for a bounce,
LEMMA BounceStep ==
  ASSUME Operate, NEW k \in 1..3, todo = From(BouncePlan, k)
  PROVE  /\ UNCHANGED laneVars
         /\ k = 1 => Stop
         /\ k = 2 => WaitStopped
         /\ k = 3 => TryStart
         /\ Done => /\ todo' = From(BouncePlan, k + 1) /\ cmd' = cmd
                    /\ result' = IF todo' = <<>> /\ result = "none" THEN "ok" ELSE result
         /\ Failed => cmd' = cmd /\ todo' = <<>> /\ result' = "error"
<1>0. BouncePlan \in Seq(StepNames) /\ Len(BouncePlan) = 3 /\ k \in 1..Len(BouncePlan)
  BY Plans, Commanded
<1>1. /\ todo # <<>> /\ \A s : At(s) <=> s = BouncePlan[k]
      /\ Done => /\ todo' = From(BouncePlan, k + 1) /\ cmd' = cmd
                 /\ result' = IF todo' = <<>> /\ result = "none" THEN "ok" ELSE result
      /\ \A y : Then(<<y>>) => todo' = <<y>> \o From(BouncePlan, k + 1) /\ cmd' = cmd
      /\ Failed => cmd' = cmd /\ IF \E j \in k..Len(BouncePlan) : BouncePlan[j] = "discard"
                                 THEN todo' = Rollback /\ result' = "rolledBack"
                                 ELSE todo' = <<>> /\ result' = "error"
  BY <1>0, PlanStep
<1>2. \A j \in k..Len(BouncePlan) : BouncePlan[j] # "discard"
  <2>1. \A j \in 1..3 : BouncePlan[j] # "discard"
    BY DEF BouncePlan
  <2> QED BY <1>0, <2>1
<1>3. BouncePlan[k] \notin {"readPending", "deregister", "wipeControl", "writeParams", "install"}
  BY DEF BouncePlan
<1>5. /\ UNCHANGED laneVars
      /\ BouncePlan[k] = "stop" => Stop
      /\ BouncePlan[k] = "waitStopped" => WaitStopped
      /\ BouncePlan[k] = "tryStart" => TryStart
  BY <1>1, <1>3, WhichStep
<1>6. /\ k = 1 => BouncePlan[k] = "stop"
      /\ k = 2 => BouncePlan[k] = "waitStopped"
      /\ k = 3 => BouncePlan[k] = "tryStart"
  BY DEF BouncePlan
<1>8. Failed => cmd' = cmd /\ todo' = <<>> /\ result' = "error"
  BY <1>1, <1>2
<1> QED BY <1>1, <1>5, <1>6, <1>8

\* for an upgrade before its swap,
LEMMA UpgradeStep ==
  ASSUME Operate, NEW x \in Stops, NEW k \in 1..4, todo = From(UpgradeWith(x), k)
  PROVE  /\ UNCHANGED laneVars
         /\ k = 1 => Recover
         /\ k = 2 => IF x = "requestStop" THEN RequestStop ELSE StopSettled
         /\ k = 3 => KillAgents
         /\ k = 4 => Snapshot
         /\ Done => /\ todo' = From(UpgradeWith(x), k + 1) /\ cmd' = cmd
                    /\ result' = IF todo' = <<>> /\ result = "none" THEN "ok" ELSE result
         /\ \A y \in Stops : k = 2 /\ Then(<<y>>) => todo' = From(UpgradeWith(y), 2) /\ cmd' = cmd
         /\ At("stopRefused") <=> k = 2 /\ x = "stopRefused"
         /\ Failed => cmd' = cmd /\ todo' = <<>> /\ result' = "error"
<1>0. UpgradeWith(x) \in Seq(StepNames) /\ Len(UpgradeWith(x)) = 4 /\ k \in 1..Len(UpgradeWith(x))
  BY Plans, Commanded
<1>1. /\ todo # <<>> /\ \A s : At(s) <=> s = UpgradeWith(x)[k]
      /\ Done => /\ todo' = From(UpgradeWith(x), k + 1) /\ cmd' = cmd
                 /\ result' = IF todo' = <<>> /\ result = "none" THEN "ok" ELSE result
      /\ \A y : Then(<<y>>) => todo' = <<y>> \o From(UpgradeWith(x), k + 1) /\ cmd' = cmd
      /\ Failed => cmd' = cmd /\ IF \E j \in k..Len(UpgradeWith(x)) : UpgradeWith(x)[j] = "discard"
                                 THEN todo' = Rollback /\ result' = "rolledBack"
                                 ELSE todo' = <<>> /\ result' = "error"
  BY <1>0, PlanStep
<1>2. \A j \in k..Len(UpgradeWith(x)) : UpgradeWith(x)[j] # "discard"
  <2>1. \A j \in 1..4 : UpgradeWith(x)[j] # "discard"
    BY DEF UpgradeWith, Stops
  <2> QED BY <1>0, <2>1
<1>3. UpgradeWith(x)[k] \notin {"readPending", "deregister", "wipeControl", "writeParams", "install"}
  BY DEF UpgradeWith, Stops
<1>4. ASSUME NEW y \in Stops, k = 2, Then(<<y>>)
      PROVE  todo' = From(UpgradeWith(y), 2) /\ cmd' = cmd
  <2>1. UpgradeWith(y) \in Seq(StepNames) /\ Len(UpgradeWith(y)) = 4
    BY Plans
  <2>2. UpgradeWith(y)[2] = y /\ \A i \in 3..4 : UpgradeWith(y)[i] = UpgradeWith(x)[i]
    BY DEF UpgradeWith
  <2>3. /\ 2 \in 1..Len(UpgradeWith(x)) /\ Len(UpgradeWith(y)) = Len(UpgradeWith(x))
        /\ \A i \in 2 + 1..Len(UpgradeWith(x)) : UpgradeWith(y)[i] = UpgradeWith(x)[i]
    BY <1>0, <2>1, <2>2
  <2>4. <<UpgradeWith(y)[2]>> \o From(UpgradeWith(x), 2 + 1) = From(UpgradeWith(y), 2)
    BY <1>0, <2>1, <2>3, Requested
  <2>5. todo' = <<y>> \o From(UpgradeWith(x), 2 + 1) /\ cmd' = cmd
    BY <1>1, <1>4
  <2> QED BY <2>2, <2>4, <2>5
<1>5. /\ UNCHANGED laneVars
      /\ UpgradeWith(x)[k] = "recover" => Recover
      /\ UpgradeWith(x)[k] = "kill" => KillAgents
      /\ UpgradeWith(x)[k] = "snapshot" => Snapshot
      /\ UpgradeWith(x)[k] = "requestStop" => RequestStop
      /\ UpgradeWith(x)[k] \in {"stopSent", "stopRefused"} => StopSettled
  BY <1>1, <1>3, WhichStep
<1>6. /\ k = 1 => UpgradeWith(x)[k] = "recover"
      /\ k = 2 => UpgradeWith(x)[k] = x
      /\ k = 3 => UpgradeWith(x)[k] = "kill"
      /\ k = 4 => UpgradeWith(x)[k] = "snapshot"
  BY DEF UpgradeWith
<1>7. k = 2 => IF x = "requestStop" THEN RequestStop ELSE StopSettled
  BY <1>5, <1>6 DEF Stops
<1>9. At("stopRefused") <=> k = 2 /\ x = "stopRefused"
  BY <1>1, <1>6
<1>8. Failed => cmd' = cmd /\ todo' = <<>> /\ result' = "error"
  BY <1>1, <1>2
<1> QED BY <1>1, <1>4, <1>5, <1>6, <1>7, <1>8, <1>9

\* for the swap, which fails into the rollback,
LEMMA SwapStep ==
  ASSUME Operate, NEW k \in 1..4, todo = From(Swap, k)
  PROVE  /\ UNCHANGED laneVars
         /\ k = 1 => Extract
         /\ k = 2 => startService
         /\ k = 3 => waitRunning
         /\ k = 4 => Discard
         /\ Done => /\ todo' = From(Swap, k + 1) /\ cmd' = cmd
                    /\ result' = IF todo' = <<>> /\ result = "none" THEN "ok" ELSE result
         /\ Failed => cmd' = cmd /\ todo' = Rollback /\ result' = "rolledBack"
<1>0. Swap \in Seq(StepNames) /\ Len(Swap) = 4 /\ k \in 1..Len(Swap)
  BY Plans, Commanded
<1>1. /\ todo # <<>> /\ \A s : At(s) <=> s = Swap[k]
      /\ Done => /\ todo' = From(Swap, k + 1) /\ cmd' = cmd
                 /\ result' = IF todo' = <<>> /\ result = "none" THEN "ok" ELSE result
      /\ \A y : Then(<<y>>) => todo' = <<y>> \o From(Swap, k + 1) /\ cmd' = cmd
      /\ Failed => cmd' = cmd /\ IF \E j \in k..Len(Swap) : Swap[j] = "discard"
                                 THEN todo' = Rollback /\ result' = "rolledBack"
                                 ELSE todo' = <<>> /\ result' = "error"
  BY <1>0, PlanStep
<1>2. Swap[4] = "discard" /\ 4 \in k..Len(Swap)
  BY <1>0 DEF Swap
<1>3. Swap[k] \notin {"readPending", "deregister", "wipeControl", "writeParams", "install"}
  BY DEF Swap
<1>5. /\ UNCHANGED laneVars
      /\ Swap[k] = "extract" => Extract
      /\ Swap[k] = "startService" => startService
      /\ Swap[k] = "selfTest" => waitRunning
      /\ Swap[k] = "discard" => Discard
  BY <1>1, <1>3, WhichStep
<1>6. /\ k = 1 => Swap[k] = "extract"
      /\ k = 2 => Swap[k] = "startService"
      /\ k = 3 => Swap[k] = "selfTest"
      /\ k = 4 => Swap[k] = "discard"
  BY DEF Swap
<1>8. Failed => cmd' = cmd /\ todo' = Rollback /\ result' = "rolledBack"
  BY <1>1, <1>2
<1> QED BY <1>1, <1>5, <1>6, <1>8

\* for the rollback,
LEMMA RollbackStep ==
  ASSUME Operate, NEW k \in 1..5, todo = From(Rollback, k)
  PROVE  /\ UNCHANGED laneVars
         /\ k = 1 => Stop
         /\ k = 2 => WaitStopped
         /\ k = 3 => KillAgents
         /\ k = 4 => Restore
         /\ k = 5 => TryStart
         /\ Done => /\ todo' = From(Rollback, k + 1) /\ cmd' = cmd
                    /\ result' = IF todo' = <<>> /\ result = "none" THEN "ok" ELSE result
         /\ Failed => cmd' = cmd /\ todo' = <<>> /\ result' = "error"
<1>0. Rollback \in Seq(StepNames) /\ Len(Rollback) = 5 /\ k \in 1..Len(Rollback)
  BY Plans, Commanded
<1>1. /\ todo # <<>> /\ \A s : At(s) <=> s = Rollback[k]
      /\ Done => /\ todo' = From(Rollback, k + 1) /\ cmd' = cmd
                 /\ result' = IF todo' = <<>> /\ result = "none" THEN "ok" ELSE result
      /\ \A y : Then(<<y>>) => todo' = <<y>> \o From(Rollback, k + 1) /\ cmd' = cmd
      /\ Failed => cmd' = cmd /\ IF \E j \in k..Len(Rollback) : Rollback[j] = "discard"
                                 THEN todo' = Rollback /\ result' = "rolledBack"
                                 ELSE todo' = <<>> /\ result' = "error"
  BY <1>0, PlanStep
<1>2. \A j \in k..Len(Rollback) : Rollback[j] # "discard"
  <2>1. \A j \in 1..5 : Rollback[j] # "discard"
    BY DEF Rollback
  <2> QED BY <1>0, <2>1
<1>3. Rollback[k] \notin {"readPending", "deregister", "wipeControl", "writeParams", "install"}
  BY DEF Rollback
<1>5. /\ UNCHANGED laneVars
      /\ Rollback[k] = "stop" => Stop
      /\ Rollback[k] = "waitStopped" => WaitStopped
      /\ Rollback[k] = "kill" => KillAgents
      /\ Rollback[k] = "restore" => Restore
      /\ Rollback[k] = "tryStart" => TryStart
  BY <1>1, <1>3, WhichStep
<1>6. /\ k = 1 => Rollback[k] = "stop"
      /\ k = 2 => Rollback[k] = "waitStopped"
      /\ k = 3 => Rollback[k] = "kill"
      /\ k = 4 => Rollback[k] = "restore"
      /\ k = 5 => Rollback[k] = "tryStart"
  BY DEF Rollback
<1>8. Failed => cmd' = cmd /\ todo' = <<>> /\ result' = "error"
  BY <1>1, <1>2
<1> QED BY <1>1, <1>5, <1>6, <1>8

\* and for the destroy of a lane.
LEMMA DestroyStep ==
  ASSUME Operate, NEW k \in 1..9, todo = From(DestroyPlan, k)
  PROVE  /\ k = 1 => ReadPending
         /\ k = 2 => Deregister
         /\ k = 3 => Stop
         /\ k = 4 => WaitStopped
         /\ k = 5 => Delete
         /\ k = 6 => WaitGone
         /\ k = 7 => KillAgents
         /\ k = 8 => WipeControl
         /\ k = 9 => RemoveTree
         /\ Done => /\ todo' = From(DestroyPlan, k + 1) /\ cmd' = cmd
                    /\ result' = IF todo' = <<>> /\ result = "none" THEN "ok" ELSE result
         /\ Failed => cmd' = cmd /\ todo' = <<>> /\ result' = "error"
<1>0. DestroyPlan \in Seq(StepNames) /\ Len(DestroyPlan) = 9 /\ k \in 1..Len(DestroyPlan)
  BY Plans, Commanded
<1>1. /\ todo # <<>> /\ \A s : At(s) <=> s = DestroyPlan[k]
      /\ Done => /\ todo' = From(DestroyPlan, k + 1) /\ cmd' = cmd
                 /\ result' = IF todo' = <<>> /\ result = "none" THEN "ok" ELSE result
      /\ \A y : Then(<<y>>) => todo' = <<y>> \o From(DestroyPlan, k + 1) /\ cmd' = cmd
      /\ Failed => cmd' = cmd /\ IF \E j \in k..Len(DestroyPlan) : DestroyPlan[j] = "discard"
                                 THEN todo' = Rollback /\ result' = "rolledBack"
                                 ELSE todo' = <<>> /\ result' = "error"
  BY <1>0, PlanStep
<1>2. \A j \in k..Len(DestroyPlan) : DestroyPlan[j] # "discard"
  <2>1. \A j \in 1..9 : DestroyPlan[j] # "discard"
    BY DEF DestroyPlan
  <2> QED BY <1>0, <2>1
<1>5. /\ DestroyPlan[k] = "readPending" => ReadPending
      /\ DestroyPlan[k] = "deregister" => Deregister
      /\ DestroyPlan[k] = "stop" => Stop
      /\ DestroyPlan[k] = "waitStopped" => WaitStopped
      /\ DestroyPlan[k] = "delete" => Delete
      /\ DestroyPlan[k] = "waitGone" => WaitGone
      /\ DestroyPlan[k] = "kill" => KillAgents
      /\ DestroyPlan[k] = "wipeControl" => WipeControl
      /\ DestroyPlan[k] = "removeTree" => RemoveTree
  BY <1>1, WhichStep
<1>6. /\ k = 1 => DestroyPlan[k] = "readPending"
      /\ k = 2 => DestroyPlan[k] = "deregister"
      /\ k = 3 => DestroyPlan[k] = "stop"
      /\ k = 4 => DestroyPlan[k] = "waitStopped"
      /\ k = 5 => DestroyPlan[k] = "delete"
      /\ k = 6 => DestroyPlan[k] = "waitGone"
      /\ k = 7 => DestroyPlan[k] = "kill"
      /\ k = 8 => DestroyPlan[k] = "wipeControl"
      /\ k = 9 => DestroyPlan[k] = "removeTree"
  BY DEF DestroyPlan
<1>8. Failed => cmd' = cmd /\ todo' = <<>> /\ result' = "error"
  BY <1>1, <1>2
<1> QED BY <1>1, <1>5, <1>6, <1>8


\* A refresh follows its plan.
LEMMA RefreshMoves ==
  ASSUME Operate, TypeOK, kind = "runner", Keeps, NEW x \in Stops, NEW k \in 1..4, RefreshAt(k, x)
  PROVE  /\ cmd' = cmd
         /\ (todo' = <<>> /\ result' # "ok") \/ \E l \in 1..5, y \in Stops : RefreshAt(l, y)'
         /\ Keeps'
<1>0. /\ UNCHANGED laneVars
      /\ k = 1 => writeServiceEnvironment
      /\ k = 2 => IF x = "requestStop" THEN RequestStop ELSE StopSettled
      /\ k = 3 => startService
      /\ k = 4 => waitRunning
      /\ Done => todo' = From(RefreshWith(x), k + 1) /\ cmd' = cmd
      /\ \A y \in Stops : k = 2 /\ Then(<<y>>) => todo' = From(RefreshWith(y), 2) /\ cmd' = cmd
      /\ Failed => cmd' = cmd /\ todo' = <<>> /\ result' = "error"
      /\ At("stopRefused") <=> k = 2 /\ x = "stopRefused"
  BY RefreshStep DEF RefreshAt
<1>1. svc \in {"absent", "stopped", "running", "startPending", "stopPending"}
  BY DEF TypeOK, ScmTypeOK, Pending
<1>2. \A f : Fault(f) => faults \subseteq faults' /\ f \in faults'
  BY FaultsGrow
<1>3. k = 1 => x = "requestStop"
  BY DEF RefreshAt
<1>4. ASSUME cmd' = cmd, RefreshAt(k + 1, x)', k + 1 \in 1..5, Keeps'
      PROVE  /\ cmd' = cmd
             /\ (todo' = <<>> /\ result' # "ok") \/ \E l \in 1..5, y \in Stops : RefreshAt(l, y)'
             /\ Keeps'
  BY <1>4
<1>5. CASE k = 1
  <2>1. writeServiceEnvironment /\ faults' = faults /\ Still
    BY <1>0, <1>5 DEF writeServiceEnvironment, NoFault, svcVars, Still
  <2>2. Keeps'
    BY <2>1, StillKeeps
  <2>3. CASE Done /\ env' = "current"
    <3>1. todo' = From(RefreshWith(x), 2) /\ cmd' = cmd
      BY <1>0, <1>5, <2>3
    <3>2. RefreshAt(2, x)'
      BY <1>3, <1>5, <2>3, <3>1 DEF RefreshAt
    <3> QED BY <1>4, <1>5, <2>2, <3>1, <3>2
  <2>4. CASE Failed
    BY <1>0, <2>2, <2>4
  <2> QED BY <2>1, <2>3, <2>4 DEF writeServiceEnvironment
<1>6. CASE k = 2 /\ x = "requestStop"
  <2>1. RequestStop /\ env = "current"
    BY <1>0, <1>6 DEF RefreshAt
  <2>2. PICK y \in {"stopSent", "stopRefused"} : Then(<<y>>) /\ (y = "stopSent" => svc = "running")
    BY <2>1 DEF RequestStop
  <2>3. y \in Stops /\ y # "requestStop"
    BY DEF Stops
  <2>4. todo' = From(RefreshWith(y), 2) /\ cmd' = cmd
    BY <1>0, <1>6, <2>2, <2>3
  <2>5. Still /\ faults' = faults /\ env' = env /\ (y = "stopSent" => svc' = "stopPending")
    BY <2>1, <2>2 DEF RequestStop, SendStop, Still, host
  <2>6. RefreshAt(2, y)'
    BY <2>1, <2>3, <2>4, <2>5 DEF RefreshAt
  <2>7. Keeps'
    BY <2>5, StillKeeps
  <2> QED BY <2>3, <2>4, <2>6, <2>7
<1>7. CASE k = 2 /\ x # "requestStop"
  <2>1. StopSettled /\ env = "current" /\ ("slow" \notin faults /\ x = "stopSent" => svc \in {"stopPending", "stopped", "absent"})
    BY <1>0, <1>7 DEF RefreshAt
  <2>2. Still /\ faults \subseteq faults' /\ UNCHANGED <<svc, env>> /\ ("slow" \notin faults' => svc \in {"stopped", "absent", "running"})
    BY <1>2, <2>1 DEF StopSettled, Settles, NoFault, Still, host, svcVars
  <2>3. Keeps'
    BY <2>2, StillKeeps
  <2>4. CASE Done /\ ~(x = "stopRefused" /\ svc = "running")
    <3>1. todo' = From(RefreshWith(x), 3) /\ cmd' = cmd
      BY <1>0, <1>7, <2>4
    <3>2. "slow" \notin faults' => NoProcess'
      BY <1>7, <2>1, <2>2, <2>4 DEF NoProcess, Stops
    <3>3. RefreshAt(3, x)'
      BY <2>1, <2>2, <3>1, <3>2 DEF RefreshAt
    <3> QED BY <1>4, <1>7, <2>3, <3>1, <3>3
  <2>5. CASE Failed
    BY <1>0, <2>3, <2>5
  <2> QED BY <1>0, <1>7, <2>1, <2>4, <2>5 DEF StopSettled
<1>8. CASE k = 3
  <2>1. startService /\ env = "current" /\ ("slow" \notin faults => NoProcess)
    BY <1>0, <1>8 DEF RefreshAt
  <2>2. Still /\ faults' = faults /\ UNCHANGED env
    BY <2>1 DEF startService, SendStart, CanStart, NoFault, Still, host
  <2>3. Keeps'
    BY <2>2, StillKeeps
  <2>4. CASE Done /\ (CanStart \/ svc = "running")
    <3>1. todo' = From(RefreshWith(x), 4) /\ cmd' = cmd
      BY <1>0, <1>8, <2>4
    <3>2. "slow" \notin faults' => penv' = "current"
      BY <2>1, <2>2, <2>4 DEF startService, SendStart, NoProcess
    <3>3. RefreshAt(4, x)'
      BY <2>1, <2>2, <3>1, <3>2 DEF RefreshAt
    <3> QED BY <1>4, <1>8, <2>3, <3>1, <3>3
  <2>5. CASE Failed
    BY <1>0, <2>3, <2>5
  <2> QED BY <2>1, <2>4, <2>5 DEF startService
<1>9. CASE k = 4
  <2>1. waitRunning /\ env = "current" /\ ("slow" \notin faults => penv = "current")
    BY <1>0, <1>9 DEF RefreshAt
  <2>2. Still /\ faults \subseteq faults' /\ UNCHANGED <<env, penv>>
    BY <1>2, <2>1 DEF waitRunning, NoFault, Still, host, svcVars
  <2>3. Keeps'
    BY <2>2, StillKeeps
  <2>4. CASE Done
    <3>1. todo' = From(RefreshWith(x), 5) /\ cmd' = cmd
      BY <1>0, <1>9, <2>4
    <3>2. RefreshAt(5, x)'
      BY <2>1, <2>2, <3>1 DEF RefreshAt
    <3> QED BY <1>4, <1>9, <2>3, <3>1, <3>2
  <2>5. CASE Failed
    BY <1>0, <2>3, <2>5
  <2> QED BY <2>1, <2>4, <2>5 DEF waitRunning
<1> QED BY <1>5, <1>6, <1>7, <1>8, <1>9

\* A removal follows its plan.
LEMMA RemoveMoves ==
  ASSUME Operate, TypeOK, ServiceFits, kind = "runner", Keeps, NEW k \in 1..5, RemoveAt(k)
  PROVE  /\ cmd' = cmd
         /\ (todo' = <<>> /\ result' # "ok") \/ \E l \in 1..6 : RemoveAt(l)'
         /\ Keeps'
<1>00. RemoveRunner = RemovePlan
  BY Commanded
<1>0. /\ UNCHANGED laneVars
      /\ k = 1 => Stop
      /\ k = 2 => WaitStopped
      /\ k = 3 => Delete
      /\ k = 4 => KillAgents
      /\ k = 5 => RemoveTree
      /\ Done => todo' = From(RemoveRunner, k + 1) /\ cmd' = cmd
      /\ Failed => cmd' = cmd /\ todo' = <<>> /\ result' = "error"
  BY <1>00, RemoveStep DEF RemoveAt
<1>1. svc \in {"absent", "stopped", "running", "startPending", "stopPending"} /\ (NoProcess => ~doomed)
  BY DEF TypeOK, ScmTypeOK, Pending, ServiceFits
<1>2. \A f : Fault(f) => faults \subseteq faults' /\ f \in faults'
  BY FaultsGrow
<1>4. ASSUME cmd' = cmd, RemoveAt(k + 1)', k + 1 \in 1..6, Keeps'
      PROVE  /\ cmd' = cmd
             /\ (todo' = <<>> /\ result' # "ok") \/ \E l \in 1..6 : RemoveAt(l)'
             /\ Keeps'
  BY <1>4
<1>5. CASE k = 1
  <2>1. Stop /\ todo' = From(RemoveRunner, 2) /\ cmd' = cmd
    BY <1>0, <1>5 DEF Stop
  <2>2. Still /\ faults' = faults
    BY <1>1, <2>1 DEF Stop, SendStop, Still, host
  <2>3. RemoveAt(2)'
    BY <1>5, <2>1 DEF RemoveAt
  <2> QED BY <1>4, <1>5, <2>1, <2>2, <2>3, StillKeeps
<1>6. CASE k = 2
  <2>1. WaitStopped /\ todo' = From(RemoveRunner, 3) /\ cmd' = cmd
    BY <1>0, <1>6 DEF WaitStopped
  <2>2. Still /\ faults \subseteq faults'
    BY <1>2, <2>1 DEF WaitStopped, Settles, NoFault, Still, host, svcVars
  <2>3. RemoveAt(3)'
    BY <1>6, <2>1 DEF RemoveAt
  <2> QED BY <1>4, <1>6, <2>1, <2>2, <2>3, StillKeeps
<1>7. CASE k = 3
  <2>1. Delete /\ todo' = From(RemoveRunner, 4) /\ cmd' = cmd
    BY <1>0, <1>7 DEF Delete
  <2>2. Still /\ faults' = faults /\ (svc' = "absent" \/ doomed')
    BY <2>1 DEF Delete, Still, host
  <2>3. RemoveAt(4)'
    BY <1>7, <2>1, <2>2 DEF RemoveAt
  <2> QED BY <1>4, <1>7, <2>1, <2>2, <2>3, StillKeeps
<1>8. CASE k = 4
  <2>1. KillAgents /\ todo' = From(RemoveRunner, 5) /\ cmd' = cmd
    BY <1>0, <1>8 DEF KillAgents
  <2>2. svc = "absent" \/ doomed
    BY <1>8 DEF RemoveAt
  <2>3. Still /\ faults \subseteq faults' /\ ("kill" \notin faults' => svc' = "absent" /\ agents' = {})
    BY <1>1, <1>2, <2>1, <2>2 DEF KillAgents, ProcessGone, Pending, NoFault, NoProcess, Still
  <2>4. RemoveAt(5)'
    BY <1>8, <2>1, <2>3 DEF RemoveAt
  <2> QED BY <1>4, <1>8, <2>1, <2>3, <2>4, StillKeeps
<1>9. CASE k = 5
  <2>1. RemoveTree /\ faults' = faults /\ UNCHANGED <<svc, agents, kind>>
    BY <1>0, <1>9 DEF RemoveTree, NoFault, svcVars
  <2>2. "kill" \notin faults => svc = "absent" /\ agents = {}
    BY <1>9 DEF RemoveAt
  <2>3. Keeps'
    BY <2>1, <2>2 DEF Keeps, Sound
  <2>4. CASE Done /\ tree' = "absent"
    <3>1. todo' = From(RemoveRunner, 6) /\ cmd' = cmd
      BY <1>0, <1>9, <2>4
    <3>2. RemoveAt(6)'
      BY <1>9, <2>1, <2>2, <2>4, <3>1 DEF RemoveAt
    <3> QED BY <1>4, <1>9, <2>3, <3>1, <3>2
  <2>5. CASE Failed
    BY <1>0, <2>3, <2>5
  <2> QED BY <2>1, <2>4, <2>5 DEF RemoveTree
<1> QED BY <1>5, <1>6, <1>7, <1>8, <1>9

\* So does a bounce, which leaves the payload alone.
LEMMA BounceMoves ==
  ASSUME Operate, TypeOK, kind = "runner", Keeps, NEW k \in 1..3, BounceAt(k)
  PROVE  cmd' = cmd /\ (todo' = <<>> \/ \E l \in 1..4 : BounceAt(l)') /\ Keeps'
<1>00. Steps("bounce") = BouncePlan
  BY DEF Steps, BouncePlan
<1>0. /\ k = 1 => Stop
      /\ k = 2 => WaitStopped
      /\ k = 3 => TryStart
      /\ Done => todo' = From(Steps("bounce"), k + 1) /\ cmd' = cmd
  BY <1>00, BounceStep DEF BounceAt
<1>1. Done => cmd' = cmd /\ \E l \in 1..4 : BounceAt(l)'
  BY <1>0 DEF BounceAt
<1>2. Done /\ Still /\ faults \subseteq faults'
  <2>1. CASE k = 1
    BY <1>0, <2>1 DEF Stop, SendStop, Still, host
  <2>2. CASE k = 2
    BY <1>0, <2>2, FaultsGrow DEF WaitStopped, Settles, NoFault, Still, host, svcVars
  <2>3. CASE k = 3
    BY <1>0, <2>3 DEF TryStart, SendStart, CanStart, Still, host
  <2> QED BY <2>1, <2>2, <2>3
<1> QED BY <1>1, <1>2, StillKeeps

\* Where the plan of an upgrade ends, and what remains of it before.
LEMMA UpgradeEnds ==
  /\ \A x \in Stops : UpgradeWith(x) = From(UpgradeWith(x), 1) /\ \A k \in 1..4 : From(UpgradeWith(x), k) # <<>>
  /\ Swap = From(Swap, 1) /\ From(Swap, 5) = <<>> /\ \A k \in 1..4 : From(Swap, k) # <<>>
  /\ Rollback = From(Rollback, 1) /\ From(Rollback, 6) = <<>> /\ \A k \in 1..5 : From(Rollback, k) # <<>>
  /\ <<"tryStart">> = From(Rollback, 5)
<1>1. ASSUME NEW x \in Stops
      PROVE  UpgradeWith(x) = From(UpgradeWith(x), 1) /\ \A k \in 1..4 : From(UpgradeWith(x), k) # <<>>
  <2>1. UpgradeWith(x) \in Seq(StepNames) /\ Len(UpgradeWith(x)) = 4
    BY Plans
  <2> QED BY <2>1, FromFits, FromEnds
<1>2. Swap = From(Swap, 1) /\ From(Swap, 5) = <<>> /\ \A k \in 1..4 : From(Swap, k) # <<>>
  <2>1. Swap \in Seq(StepNames) /\ Len(Swap) = 4
    BY Plans
  <2>2. Len(Swap) + 1 = 5
    BY <2>1
  <2> QED BY <2>1, <2>2, FromFits, FromEnds
<1>3. /\ Rollback = From(Rollback, 1) /\ From(Rollback, 6) = <<>> /\ \A k \in 1..5 : From(Rollback, k) # <<>>
      /\ Len(From(Rollback, 5)) = 1 /\ From(Rollback, 5)[1] = "tryStart" /\ From(Rollback, 5) \in Seq(StepNames)
  <2>1. Rollback \in Seq(StepNames) /\ Len(Rollback) = 5
    BY Plans
  <2>2. Len(Rollback) + 1 = 6 /\ 5 \in 1..Len(Rollback) /\ 4 \in 1..Len(Rollback) /\ 1 \in 1..Len(Rollback) - 5 + 1
        /\ Len(Rollback) - 5 + 1 = 1
    BY <2>1
  <2>3. From(Rollback, 5)[1] = Rollback[5 + 1 - 1] /\ Len(From(Rollback, 5)) = 1
    BY <2>1, <2>2, FromFits
  <2>4. From(Rollback, 4 + 1) \in Seq(StepNames)
    BY <2>1, <2>2, FromFits
  <2>5. Rollback[5] = "tryStart"
    BY DEF Rollback
  <2>6. Rollback = From(Rollback, 1) /\ From(Rollback, 6) = <<>>
    BY <2>1, <2>2, FromEnds
  <2>7. \A k \in 1..5 : From(Rollback, k) # <<>>
    BY <2>1, FromFits
  <2> QED BY <2>3, <2>4, <2>5, <2>6, <2>7
<1>4. <<"tryStart">> = From(Rollback, 5)
  <2>1. <<"tryStart">> \in Seq(StepNames) /\ Len(<<"tryStart">>) = 1 /\ <<"tryStart">>[1] = "tryStart"
    BY DEF StepNames
  <2>2. \A i \in 1..1 : <<"tryStart">>[i] = From(Rollback, 5)[i]
    BY <1>3, <2>1
  <2> QED BY <1>3, <2>1, <2>2, SeqEqual
<1> QED BY <1>1, <1>2, <1>3, <1>4

\* A service that is there has a payload.
Pays == Sound /\ svc # "absent" => HasPayload

\* Soundness only gets lost.
LEMMA SoundBefore ==
  ASSUME faults \subseteq faults', Sound'
  PROVE  Sound
BY DEF Sound

\* An upgrade follows its plan up to the swap.
LEMMA UpgradeMoves ==
  ASSUME Operate, TypeOK, ServiceFits, kind = "runner", cmd = "upgrade", NEW x \in Stops, NEW k \in 1..4, UpgradeAt(k, x)
  PROVE  cmd' = cmd /\ Upgrades' /\ Pays'
<1>0. /\ k = 1 => Recover
      /\ k = 2 => IF x = "requestStop" THEN RequestStop ELSE StopSettled
      /\ k = 3 => KillAgents
      /\ k = 4 => Snapshot
      /\ Done => /\ todo' = From(UpgradeWith(x), k + 1) /\ cmd' = cmd
                 /\ result' = IF todo' = <<>> /\ result = "none" THEN "ok" ELSE result
      /\ \A y \in Stops : k = 2 /\ Then(<<y>>) => todo' = From(UpgradeWith(y), 2) /\ cmd' = cmd
      /\ Failed => cmd' = cmd /\ todo' = <<>> /\ result' = "error"
  BY UpgradeStep DEF UpgradeAt
<1>1. svc \in {"absent", "stopped", "running", "startPending", "stopPending"} /\ (NoProcess => ~doomed)
  BY DEF TypeOK, ScmTypeOK, Pending, ServiceFits
<1>2. \A f : Fault(f) => faults \subseteq faults' /\ f \in faults'
  BY FaultsGrow
<1>3. Sound => result = "none" /\ (k = 1 => tree = "old" \/ (tree = "absent" /\ snap = "old")) /\ (k > 1 => tree = "old")
  BY DEF UpgradeAt
<1>4. CASE k = 1
  <2>1. Recover /\ todo' = From(UpgradeWith(x), 2) /\ cmd' = cmd /\ todo' # <<>> /\ faults' = faults
    BY <1>0, <1>4, UpgradeEnds DEF Recover
  <2>2. result' = result
    BY <1>0, <1>4, <2>1 DEF Recover
  <2>3. Sound' => result' = "none" /\ tree' = "old"
    BY <1>3, <1>4, <2>1, <2>2, SoundBefore DEF Recover
  <2>4. UpgradeAt(2, x)'
    BY <2>1, <2>3 DEF UpgradeAt
  <2> QED BY <2>1, <2>3, <2>4 DEF Upgrades, Pays, HasPayload
<1>5. CASE k = 2 /\ x = "requestStop"
  <2>1. RequestStop
    BY <1>0, <1>5
  <2>2. PICK y \in {"stopSent", "stopRefused"} : Then(<<y>>)
    BY <2>1 DEF RequestStop
  <2>3. y \in Stops
    BY DEF Stops
  <2>4. todo' = From(UpgradeWith(y), 2) /\ cmd' = cmd /\ todo' # <<>>
    BY <1>0, <1>5, <2>2, <2>3, UpgradeEnds
  <2>5. UNCHANGED <<tree, faults, result>>
    BY <2>1, <2>2, <2>4 DEF RequestStop, host, Then
  <2>6. Sound' => result' = "none" /\ tree' = "old"
    BY <1>3, <1>5, <2>5, SoundBefore
  <2>7. UpgradeAt(2, y)'
    BY <2>4, <2>6 DEF UpgradeAt
  <2> QED BY <2>3, <2>4, <2>6, <2>7 DEF Upgrades, Pays, HasPayload
<1>6. CASE k = 2 /\ x # "requestStop"
  <2>1. StopSettled
    BY <1>0, <1>6
  <2>2. faults \subseteq faults' /\ UNCHANGED tree
    BY <1>2, <2>1 DEF StopSettled, Settles, NoFault, host
  <2>3. Sound' => result = "none" /\ tree' = "old"
    BY <1>3, <1>6, <2>2, SoundBefore
  <2>4. CASE Done
    <3>1. todo' = From(UpgradeWith(x), 3) /\ cmd' = cmd /\ todo' # <<>> /\ result' = result
      BY <1>0, <1>6, <2>4, UpgradeEnds
    <3>2. UpgradeAt(3, x)'
      BY <2>3, <3>1 DEF UpgradeAt
    <3> QED BY <2>3, <3>1, <3>2 DEF Upgrades, Pays, HasPayload
  <2>5. CASE Failed
    BY <1>0, <2>3, <2>5 DEF Upgrades, Pays, HasPayload
  <2> QED BY <2>1, <2>4, <2>5 DEF StopSettled
<1>7. CASE k = 3
  <2>1. KillAgents /\ todo' = From(UpgradeWith(x), 4) /\ cmd' = cmd /\ todo' # <<>> /\ result' = result
    BY <1>0, <1>7, UpgradeEnds DEF KillAgents
  <2>2. faults \subseteq faults' /\ UNCHANGED tree /\ ("kill" \notin faults' => agents' = {} /\ NoProcess')
    BY <1>1, <1>2, <2>1 DEF KillAgents, ProcessGone, Pending, NoFault, NoProcess
  <2>3. Sound' => result' = "none" /\ tree' = "old" /\ agents' = {} /\ NoProcess'
    BY <1>3, <1>7, <2>1, <2>2, SoundBefore DEF Sound
  <2>4. UpgradeAt(4, x)'
    BY <2>1, <2>3 DEF UpgradeAt
  <2> QED BY <2>1, <2>3, <2>4 DEF Upgrades, Pays, HasPayload
<1>8. CASE k = 4
  <2>1. Snapshot /\ cmd' = cmd /\ UNCHANGED <<faults, agents, svc>>
    BY <1>0, <1>8 DEF Snapshot, svcVars
  <2>2. Sound => agents = {} /\ NoProcess
    BY <1>8 DEF UpgradeAt
  <2>3. CASE agents = {}
    <3>1. tree' = "absent" /\ snap' = tree /\ todo' = From(Swap, 1) /\ UNCHANGED result
      BY <2>1, <2>3, UpgradeEnds DEF Snapshot
    <3>2. Sound' => snap' = "old" /\ result' = "none" /\ agents' = {} /\ NoProcess'
      BY <1>3, <1>8, <2>1, <2>2, <3>1, SoundBefore DEF NoProcess
    <3>3. SwapAt(1)'
      BY <3>1, <3>2 DEF SwapAt
    <3> QED BY <2>1, <3>1, <3>2, <3>3 DEF Upgrades, Pays, HasPayload
  <2>4. CASE agents # {}
    <3>1. todo' = From(Rollback, 5) /\ ~Sound'
      BY <2>1, <2>2, <2>4, UpgradeEnds, SoundBefore DEF Snapshot
    <3>2. RollbackAt(5)'
      BY <3>1 DEF RollbackAt
    <3> QED BY <2>1, <3>1, <3>2 DEF Upgrades, Pays
  <2> QED BY <2>3, <2>4
<1> QED BY <1>4, <1>5, <1>6, <1>7, <1>8

\* A swap follows its plan, or fails into the rollback.
LEMMA SwapMoves ==
  ASSUME Operate, TypeOK, kind = "runner", cmd = "upgrade", NEW k \in 1..4, SwapAt(k)
  PROVE  cmd' = cmd /\ Upgrades' /\ Pays'
<1>0. /\ k = 1 => Extract
      /\ k = 2 => startService
      /\ k = 3 => waitRunning
      /\ k = 4 => Discard
      /\ Done => /\ todo' = From(Swap, k + 1) /\ cmd' = cmd
                 /\ result' = IF todo' = <<>> /\ result = "none" THEN "ok" ELSE result
      /\ Failed => cmd' = cmd /\ todo' = Rollback /\ result' = "rolledBack"
  BY SwapStep DEF SwapAt
<1>1. svc \in {"absent", "stopped", "running", "startPending", "stopPending"}
  BY DEF TypeOK, ScmTypeOK, Pending
<1>2. \A f : Fault(f) => faults \subseteq faults' /\ f \in faults'
  BY FaultsGrow
<1>3. Sound => /\ snap = "old" /\ result = "none" /\ (k <= 2 => agents = {} /\ NoProcess)
               /\ (k > 1 => tree = "new")
  BY DEF SwapAt
<1>4. ASSUME Failed, Sound' => snap' = "old" /\ (tree' = "new" \/ (tree' = "partial" /\ "extract" \in faults'))
      PROVE  cmd' = cmd /\ Upgrades' /\ Pays'
  <2>1. cmd' = cmd /\ todo' = From(Rollback, 1) /\ result' = "rolledBack"
    BY <1>0, <1>4, UpgradeEnds
  <2>2. RollbackAt(1)'
    BY <1>4, <2>1 DEF RollbackAt
  <2>3. Rolling'
    BY <2>1 DEF Rolling
  <2> QED BY <1>4, <2>1, <2>2, <2>3 DEF Upgrades, Pays, HasPayload
<1>5. CASE k = 1
  <2>1. Extract /\ faults \subseteq faults' /\ UNCHANGED <<svc, agents, snap>>
    BY <1>0, <1>2, <1>5 DEF Extract, NoFault, svcVars
  <2>2. Sound' => snap' = "old" /\ result = "none" /\ agents' = {} /\ NoProcess'
    BY <1>3, <1>5, <2>1, SoundBefore DEF NoProcess
  <2>3. CASE NoFault /\ tree' = "new" /\ Done
    <3>1. todo' = From(Swap, 2) /\ cmd' = cmd /\ result' = result
      BY <1>0, <1>5, <2>3, UpgradeEnds
    <3>2. SwapAt(2)'
      BY <2>2, <2>3, <3>1 DEF SwapAt
    <3> QED BY <2>3, <3>1, <3>2 DEF Upgrades, Pays, HasPayload
  <2>4. CASE Fault("extract") /\ tree' = "partial" /\ Failed
    BY <1>2, <1>4, <2>2, <2>4
  <2> QED BY <2>1, <2>3, <2>4 DEF Extract
<1>6. CASE k = 2
  <2>1. startService /\ faults' = faults /\ UNCHANGED <<snap, tree>>
    BY <1>0, <1>6 DEF startService, NoFault, host
  <2>2. Sound' => snap' = "old" /\ result = "none" /\ tree' = "new"
    BY <1>3, <1>6, <2>1, SoundBefore
  <2>3. CASE Done
    <3>1. todo' = From(Swap, 3) /\ cmd' = cmd /\ result' = result
      BY <1>0, <1>6, <2>3, UpgradeEnds
    <3>2. SwapAt(3)'
      BY <2>2, <3>1 DEF SwapAt
    <3> QED BY <2>2, <3>1, <3>2 DEF Upgrades, Pays, HasPayload
  <2>4. CASE Failed
    BY <1>4, <2>2, <2>4
  <2> QED BY <2>1, <2>3, <2>4 DEF startService
<1>7. CASE k = 3
  <2>1. waitRunning /\ faults \subseteq faults' /\ UNCHANGED <<snap, tree>>
    BY <1>0, <1>2, <1>7 DEF waitRunning, NoFault, host
  <2>2. Sound' => snap' = "old" /\ result = "none" /\ tree' = "new"
    BY <1>3, <1>7, <2>1, SoundBefore
  <2>3. CASE Done
    <3>1. todo' = From(Swap, 4) /\ cmd' = cmd /\ result' = result
      BY <1>0, <1>7, <2>3, UpgradeEnds
    <3>2. SwapAt(4)'
      BY <2>2, <3>1 DEF SwapAt
    <3> QED BY <2>2, <3>1, <3>2 DEF Upgrades, Pays, HasPayload
  <2>4. CASE Failed
    BY <1>4, <2>2, <2>4
  <2> QED BY <2>1, <2>3, <2>4 DEF waitRunning
<1>8. CASE k = 4
  <2>1. Discard /\ faults' = faults /\ tree' = tree
    BY <1>0, <1>8 DEF Discard
  <2>2. todo' = From(Swap, 5) /\ cmd' = cmd /\ todo' = <<>>
        /\ result' = IF todo' = <<>> /\ result = "none" THEN "ok" ELSE result
    BY <1>0, <1>8, <2>1, UpgradeEnds DEF Discard
  <2>3. Sound' => tree' = "new" /\ result' = "ok"
    BY <1>3, <1>8, <2>1, <2>2, SoundBefore
  <2>4. SwapAt(5)'
    BY <2>2, <2>3 DEF SwapAt
  <2> QED BY <2>2, <2>3, <2>4 DEF Upgrades, Pays, HasPayload
<1> QED BY <1>5, <1>6, <1>7, <1>8

\* A rollback follows its plan and puts back what was moved aside.
LEMMA RollbackMoves ==
  ASSUME Operate, TypeOK, ServiceFits, kind = "runner", cmd = "upgrade", NEW k \in 1..5, RollbackAt(k)
  PROVE  cmd' = cmd /\ Upgrades' /\ Pays'
<1>0. /\ k = 1 => Stop
      /\ k = 2 => WaitStopped
      /\ k = 3 => KillAgents
      /\ k = 4 => Restore
      /\ k = 5 => TryStart
      /\ Done => /\ todo' = From(Rollback, k + 1) /\ cmd' = cmd
                 /\ result' = IF todo' = <<>> /\ result = "none" THEN "ok" ELSE result
  BY RollbackStep DEF RollbackAt
<1>01. Tail(todo) = From(Rollback, k + 1)
  <2>1. Rollback \in Seq(StepNames) /\ k \in 1..Len(Rollback)
    BY Plans
  <2> QED BY <2>1, PlanStep DEF RollbackAt
<1>1. svc \in {"absent", "stopped", "running", "startPending", "stopPending"} /\ (NoProcess => ~doomed)
  BY DEF TypeOK, ScmTypeOK, Pending, ServiceFits
<1>2. \A f : Fault(f) => faults \subseteq faults' /\ f \in faults'
  BY FaultsGrow
<1>3. Sound => /\ result = "rolledBack"
               /\ k <= 4 => snap = "old" /\ (tree = "new" \/ (tree = "partial" /\ "extract" \in faults))
               /\ k > 4 => tree = "old"
  BY DEF RollbackAt
<1>4. ASSUME k < 4, Done, faults \subseteq faults', UNCHANGED <<snap, tree>>,
             k = 3 /\ Sound' => agents' = {} /\ NoProcess'
      PROVE  cmd' = cmd /\ Upgrades' /\ Pays'
  <2>1. todo' = From(Rollback, k + 1) /\ cmd' = cmd /\ k + 1 \in 1..5 /\ k + 1 \in 1..4
    BY <1>0, <1>4
  <2>2. todo' # <<>>
    BY <2>1, UpgradeEnds
  <2>3. result' = result
    BY <1>0, <1>4, <2>2
  <2>4. Sound' => /\ result' = "rolledBack" /\ snap' = "old"
                  /\ tree' = "new" \/ (tree' = "partial" /\ "extract" \in faults')
    BY <1>3, <1>4, <2>3, SoundBefore
  <2>5. RollbackAt(k + 1)'
    BY <1>4, <2>1, <2>4 DEF RollbackAt
  <2>6. Rolling'
    BY <2>1 DEF Rolling
  <2> QED BY <2>1, <2>4, <2>5, <2>6 DEF Upgrades, Pays, HasPayload
<1>5. CASE k = 1
  BY <1>0, <1>4, <1>5 DEF Stop, host
<1>6. CASE k = 2
  BY <1>0, <1>2, <1>4, <1>6 DEF WaitStopped, Settles, NoFault, host
<1>7. CASE k = 3
  <2>1. KillAgents
    BY <1>0, <1>7
  <2>2. Done /\ faults \subseteq faults' /\ UNCHANGED <<snap, tree>> /\ ("kill" \notin faults' => agents' = {} /\ NoProcess')
    BY <1>1, <1>2, <2>1 DEF KillAgents, ProcessGone, Pending, NoFault, NoProcess
  <2> QED BY <1>4, <1>7, <2>2 DEF Sound
<1>8. CASE k = 4
  <2>0. Tail(todo) = From(Rollback, 5) /\ Restore
    BY <1>0, <1>01, <1>8
  <2>1. Restore /\ todo' = From(Rollback, 5) /\ cmd' = cmd /\ faults' = faults
    BY <2>0 DEF Restore
  <2>2. Sound => agents = {}
    BY <1>8 DEF RollbackAt
  <2>3. Sound' => result' = "rolledBack" /\ tree' = "old"
    BY <1>3, <1>8, <2>1, <2>2, SoundBefore DEF Restore
  <2>4. RollbackAt(5)'
    BY <2>1, <2>3 DEF RollbackAt
  <2> QED BY <2>1, <2>3, <2>4 DEF Upgrades, Pays, HasPayload
<1>9. CASE k = 5
  <2>1. TryStart /\ todo' = From(Rollback, 6) /\ cmd' = cmd /\ faults' = faults /\ tree' = tree
    BY <1>0, <1>9 DEF TryStart, host
  <2>2. result' = IF todo' = <<>> /\ result = "none" THEN "ok" ELSE result
    BY <1>0, <1>9, <2>1 DEF TryStart
  <2>3. Sound' => result' = "rolledBack" /\ tree' = "old"
    BY <1>3, <1>9, <2>1, <2>2, SoundBefore
  <2>4. RollbackAt(6)'
    BY <2>1, <2>3 DEF RollbackAt
  <2> QED BY <2>1, <2>3, <2>4 DEF Upgrades, Pays, HasPayload
<1> QED BY <1>5, <1>6, <1>7, <1>8, <1>9

-----------------------------------------------------------------------------
(* What the commands deliver: who else moves.                              *)

\* What a runner's plan is at.
RunnerPlans ==
  \/ \E k \in 1..13, x \in Stops : CreateAt(k, x)
  \/ \E k \in 1..5, x \in Stops : RefreshAt(k, x)
  \/ \E k \in 1..6 : RemoveAt(k)
  \/ \E k \in 1..4 : BounceAt(k)
  \/ \E k \in 1..4, x \in Stops : UpgradeAt(k, x)
  \/ \E k \in 1..5 : SwapAt(k)
  \/ \E k \in 1..6 : RollbackAt(k)

\* The plans end where nothing is left to do.
LEMMA PlansEnd ==
  /\ \A x \in Stops : /\ From(CreateWith(x), 13) = <<>> /\ \A k \in 1..12 : From(CreateWith(x), k) # <<>>
                      /\ From(RefreshWith(x), 5) = <<>> /\ \A k \in 1..4 : From(RefreshWith(x), k) # <<>>
                      /\ From(CreateWith(x), 1) = CreateWith(x) /\ From(RefreshWith(x), 1) = RefreshWith(x)
  /\ From(RemoveRunner, 6) = <<>> /\ \A k \in 1..5 : From(RemoveRunner, k) # <<>>
  /\ From(Steps("bounce"), 4) = <<>> /\ \A k \in 1..3 : From(Steps("bounce"), k) # <<>>
  /\ From(DestroyPlan, 10) = <<>> /\ \A k \in 1..9 : From(DestroyPlan, k) # <<>>
  /\ From(RemoveRunner, 1) = RemoveRunner /\ From(Steps("bounce"), 1) = Steps("bounce")
  /\ From(DestroyPlan, 1) = DestroyPlan
<1>1. ASSUME NEW p \in Seq(StepNames), NEW n \in Nat, Len(p) = n
      PROVE  From(p, 1) = p /\ From(p, n + 1) = <<>> /\ \A k \in 1..n : From(p, k) # <<>>
  <2>1. From(p, 1) = p /\ From(p, n + 1) = <<>>
    BY <1>1, FromEnds
  <2>2. ASSUME NEW k \in 1..n PROVE From(p, k) # <<>>
    BY <1>1, FromFits
  <2> QED BY <2>1, <2>2
<1>2. ASSUME NEW x \in Stops
      PROVE  /\ From(CreateWith(x), 13) = <<>> /\ \A k \in 1..12 : From(CreateWith(x), k) # <<>>
             /\ From(RefreshWith(x), 5) = <<>> /\ \A k \in 1..4 : From(RefreshWith(x), k) # <<>>
             /\ From(CreateWith(x), 1) = CreateWith(x) /\ From(RefreshWith(x), 1) = RefreshWith(x)
  <2>1. CreateWith(x) \in Seq(StepNames) /\ Len(CreateWith(x)) = 12
    BY Plans
  <2>2. RefreshWith(x) \in Seq(StepNames) /\ Len(RefreshWith(x)) = 4
    BY Plans
  <2>3. From(CreateWith(x), 1) = CreateWith(x) /\ From(CreateWith(x), 12 + 1) = <<>> /\ \A k \in 1..12 : From(CreateWith(x), k) # <<>>
    BY <1>1, <2>1
  <2>4. From(RefreshWith(x), 1) = RefreshWith(x) /\ From(RefreshWith(x), 4 + 1) = <<>> /\ \A k \in 1..4 : From(RefreshWith(x), k) # <<>>
    BY <1>1, <2>2
  <2> QED BY <2>3, <2>4
<1>3. From(RemoveRunner, 1) = RemoveRunner /\ From(RemoveRunner, 5 + 1) = <<>> /\ \A k \in 1..5 : From(RemoveRunner, k) # <<>>
  <2>1. From(RemovePlan, 1) = RemovePlan /\ From(RemovePlan, 5 + 1) = <<>> /\ \A k \in 1..5 : From(RemovePlan, k) # <<>>
    BY <1>1, Commanded
  <2> QED BY <2>1, Commanded
<1>4. Steps("bounce") = BouncePlan
  BY DEF Steps, BouncePlan
<1>5. /\ From(Steps("bounce"), 1) = Steps("bounce") /\ From(Steps("bounce"), 3 + 1) = <<>>
      /\ \A k \in 1..3 : From(Steps("bounce"), k) # <<>>
  <2>1. From(BouncePlan, 1) = BouncePlan /\ From(BouncePlan, 3 + 1) = <<>> /\ \A k \in 1..3 : From(BouncePlan, k) # <<>>
    BY <1>1, Commanded
  <2> QED BY <1>4, <2>1
<1>6. From(DestroyPlan, 1) = DestroyPlan /\ From(DestroyPlan, 9 + 1) = <<>> /\ \A k \in 1..9 : From(DestroyPlan, k) # <<>>
  BY <1>1, Plans
<1> QED BY <1>2, <1>3, <1>5, <1>6

\* A command of a runner leaves the lane's state alone.
LEMMA PlansStayOutside ==
  ASSUME Operate, todo # <<>>, RunnerPlans
  PROVE  UNCHANGED laneVars
<1>1. ASSUME NEW k \in 1..13, NEW x \in Stops, CreateAt(k, x) PROVE UNCHANGED laneVars
  <2>1. k \in 1..12 /\ todo = From(CreateWith(x), k)
    BY <1>1, PlansEnd DEF CreateAt
  <2> QED BY <2>1, CreateStep
<1>2. ASSUME NEW k \in 1..5, NEW x \in Stops, RefreshAt(k, x) PROVE UNCHANGED laneVars
  <2>1. k \in 1..4 /\ todo = From(RefreshWith(x), k)
    BY <1>2, PlansEnd DEF RefreshAt
  <2> QED BY <2>1, RefreshStep
<1>3. ASSUME NEW k \in 1..6, RemoveAt(k) PROVE UNCHANGED laneVars
  <2>1. k \in 1..5 /\ todo = From(RemoveRunner, k)
    BY <1>3, PlansEnd DEF RemoveAt
  <2>2. todo = From(RemovePlan, k)
    BY <2>1, Commanded
  <2> QED BY <2>1, <2>2, RemoveStep
<1>4. ASSUME NEW k \in 1..4, BounceAt(k) PROVE UNCHANGED laneVars
  <2>1. k \in 1..3 /\ todo = From(Steps("bounce"), k)
    BY <1>4, PlansEnd DEF BounceAt
  <2>2. Steps("bounce") = BouncePlan
    BY DEF Steps, BouncePlan
  <2>3. todo = From(BouncePlan, k)
    BY <2>1, <2>2
  <2> QED BY <2>1, <2>3, BounceStep
<1>5. ASSUME NEW k \in 1..4, NEW x \in Stops, UpgradeAt(k, x) PROVE UNCHANGED laneVars
  BY <1>5, UpgradeStep DEF UpgradeAt
<1>6. ASSUME NEW k \in 1..5, SwapAt(k) PROVE UNCHANGED laneVars
  <2>1. k \in 1..4 /\ todo = From(Swap, k)
    BY <1>6, UpgradeEnds DEF SwapAt
  <2> QED BY <2>1, SwapStep
<1>7. ASSUME NEW k \in 1..6, RollbackAt(k) PROVE UNCHANGED laneVars
  <2>1. k \in 1..5 /\ todo = From(Rollback, k)
    BY <1>7, UpgradeEnds DEF RollbackAt
  <2> QED BY <2>1, RollbackStep
<1> QED BY <1>1, <1>2, <1>3, <1>4, <1>5, <1>6, <1>7 DEF RunnerPlans

\* What a runner's command leaves of the invariant.
LEMMA PlansMove ==
  ASSUME Operate, todo # <<>>, TypeOK, ServiceFits, RunnerInv, kind = "runner", kind' = kind
  PROVE  RunnerInv' /\ UNCHANGED laneVars
<1>0. cmd \in {"create", "refresh", "upgrade", "remove", "bounce"}
  BY DEF ServiceFits, Commands
<1>1. Pays
  BY DEF RunnerInv, Pays
<1>2. cmd # "upgrade" => Keeps
  BY <1>1 DEF Pays, HasPayload, Keeps, Rolling
<1>3. ASSUME Keeps' PROVE Pays'
  BY <1>3 DEF Keeps, Pays, HasPayload
<1>4. RunnerPlans
  BY <1>0 DEF RunnerInv, RunnerPlans, Upgrades
<1>5. UNCHANGED laneVars
  BY <1>4, PlansStayOutside
<1>6. CASE cmd = "create"
  <2>1. PICK k \in 1..13, x \in Stops : CreateAt(k, x)
    BY <1>6 DEF RunnerInv
  <2>2. k \in 1..12
    BY <2>1, PlansEnd DEF CreateAt
  <2>3. /\ cmd' = cmd /\ Keeps'
        /\ (todo' = <<>> /\ result' # "ok") \/ \E l \in 1..13, y \in Stops : CreateAt(l, y)'
    BY <1>2, <1>6, <2>1, <2>2, CreateMoves
  <2> QED BY <1>3, <1>5, <1>6, <2>3 DEF RunnerInv, Pays
<1>7. CASE cmd = "refresh"
  <2>1. PICK k \in 1..5, x \in Stops : RefreshAt(k, x)
    BY <1>7 DEF RunnerInv
  <2>2. k \in 1..4
    BY <2>1, PlansEnd DEF RefreshAt
  <2>3. /\ cmd' = cmd /\ Keeps'
        /\ (todo' = <<>> /\ result' # "ok") \/ \E l \in 1..5, y \in Stops : RefreshAt(l, y)'
    BY <1>2, <1>7, <2>1, <2>2, RefreshMoves
  <2> QED BY <1>3, <1>5, <1>7, <2>3 DEF RunnerInv, Pays
<1>8. CASE cmd = "remove"
  <2>1. PICK k \in 1..6 : RemoveAt(k)
    BY <1>8 DEF RunnerInv
  <2>2. k \in 1..5
    BY <2>1, PlansEnd DEF RemoveAt
  <2>3. /\ cmd' = cmd /\ Keeps'
        /\ (todo' = <<>> /\ result' # "ok") \/ \E l \in 1..6 : RemoveAt(l)'
    BY <1>2, <1>8, <2>1, <2>2, RemoveMoves
  <2> QED BY <1>3, <1>5, <1>8, <2>3 DEF RunnerInv, Pays
<1>9. CASE cmd = "bounce"
  <2>1. PICK k \in 1..4 : BounceAt(k)
    BY <1>9 DEF RunnerInv
  <2>2. k \in 1..3
    BY <2>1, PlansEnd DEF BounceAt
  <2>3. cmd' = cmd /\ (todo' = <<>> \/ \E l \in 1..4 : BounceAt(l)') /\ Keeps'
    BY <1>2, <1>9, <2>1, <2>2, BounceMoves
  <2> QED BY <1>3, <1>5, <1>9, <2>3 DEF RunnerInv, Pays
<1>10. CASE cmd = "upgrade"
  <2>1. cmd' = cmd /\ Upgrades' /\ Pays'
    <3>1. ASSUME NEW k \in 1..4, NEW x \in Stops, UpgradeAt(k, x) PROVE cmd' = cmd /\ Upgrades' /\ Pays'
      BY <1>10, <3>1, UpgradeMoves
    <3>2. ASSUME NEW k \in 1..5, SwapAt(k) PROVE cmd' = cmd /\ Upgrades' /\ Pays'
      <4>1. k \in 1..4
        BY <3>2, UpgradeEnds DEF SwapAt
      <4> QED BY <1>10, <3>2, <4>1, SwapMoves
    <3>3. ASSUME NEW k \in 1..6, RollbackAt(k) PROVE cmd' = cmd /\ Upgrades' /\ Pays'
      <4>1. k \in 1..5
        BY <3>3, UpgradeEnds DEF RollbackAt
      <4> QED BY <1>10, <3>3, <4>1, RollbackMoves
    <3>4. Upgrades
      BY <1>10 DEF RunnerInv
    <3> QED BY <3>1, <3>2, <3>3, <3>4 DEF Upgrades
  <2> QED BY <1>5, <1>10, <2>1 DEF RunnerInv, Pays
<1> QED BY <1>0, <1>6, <1>7, <1>8, <1>9, <1>10

\* A command of a runner begins at the head of its plan.
LEMMA PlansBegin ==
  ASSUME RunnerInv, kind = "runner", NEW c \in Commands, Begin(c)
  PROVE  RunnerInv'
<1>1. /\ todo = <<>> /\ cmd' = c /\ todo' = Steps(c) /\ result' = "none" /\ kind' = kind
      /\ c \in {"refresh", "upgrade"} => svc # "absent"
      /\ tree' = IF c = "upgrade" /\ tree = "new" THEN "old" ELSE tree
      /\ UNCHANGED <<svc, snap, faults>>
      /\ c \in {"create", "refresh", "upgrade", "remove", "bounce"}
  BY DEF Begin, svcVars, Commands
<1>2. ~Rolling
  <2>1. \A k \in 1..4 : todo # From(Rollback, k)
    BY <1>1, UpgradeEnds
  <2> QED BY <2>1 DEF Rolling
<1>3. Sound /\ svc # "absent" => tree \in {"old", "new"} \/ (snap = "old" /\ tree = "absent")
  BY <1>2 DEF RunnerInv, HasPayload
<1>4. Sound' <=> Sound
  BY <1>1 DEF Sound
<1>5. Pays'
  BY <1>1, <1>3, <1>4 DEF Pays, HasPayload
<1>6. "requestStop" \in Stops
  BY DEF Stops
<1>7. CASE c = "create"
  <2>1. todo' = From(CreateWith("requestStop"), 1)
    BY <1>1, <1>6, <1>7, Commanded, PlansEnd DEF Steps
  <2>2. CreateAt(1, "requestStop")'
    BY <2>1 DEF CreateAt
  <2> QED BY <1>1, <1>5, <1>6, <1>7, <2>2 DEF RunnerInv, Pays
<1>8. CASE c = "refresh"
  <2>1. todo' = From(RefreshWith("requestStop"), 1)
    BY <1>1, <1>6, <1>8, Commanded, PlansEnd DEF Steps
  <2>2. RefreshAt(1, "requestStop")'
    BY <2>1 DEF RefreshAt
  <2> QED BY <1>1, <1>5, <1>6, <1>8, <2>2 DEF RunnerInv, Pays
<1>9. CASE c = "remove"
  <2>1. todo' = From(RemoveRunner, 1)
    BY <1>1, <1>9, PlansEnd DEF Steps
  <2>2. RemoveAt(1)'
    BY <2>1 DEF RemoveAt
  <2> QED BY <1>1, <1>5, <1>9, <2>2 DEF RunnerInv, Pays
<1>10. CASE c = "bounce"
  <2>1. todo' = From(Steps("bounce"), 1)
    BY <1>1, <1>10, PlansEnd
  <2>2. BounceAt(1)'
    BY <2>1 DEF BounceAt, Steps
  <2> QED BY <1>1, <1>5, <1>10, <2>2 DEF RunnerInv, Pays
<1>11. CASE c = "upgrade"
  <2>1. todo' = From(UpgradeWith("requestStop"), 1)
    BY <1>1, <1>6, <1>11, Commanded, UpgradeEnds DEF Steps
  <2>2. UpgradeAt(1, "requestStop")'
    BY <1>1, <1>3, <1>4, <1>11, <2>1 DEF UpgradeAt
  <2>3. Upgrades'
    BY <1>6, <2>2 DEF Upgrades
  <2> QED BY <1>1, <1>5, <1>11, <2>3 DEF RunnerInv, Pays
<1> QED BY <1>1, <1>7, <1>8, <1>9, <1>10, <1>11

\* What the SCM and the processes of a runner do beside a command: a start that was
\* owed ends, a stop ends, and a deletion with it; agents only come to a service that runs.
Beside ==
  /\ UNCHANGED <<kind, env, penv, tree, snap, cmd, todo, result>> /\ faults \subseteq faults'
  /\ agents' \subseteq agents \/ svc = "running"
  /\ \/ svc' = svc /\ doomed' = doomed
     \/ svc = "startPending" /\ svc' = "running" /\ doomed' = doomed
     \/ svc \in {"running", "stopPending"} /\ svc' = (IF doomed THEN "absent" ELSE "stopped")

\* Nothing else happens to a runner.
LEMMA RunnerBeside ==
  ASSUME Runner
  PROVE  Beside /\ kind = "runner"
<1>1. CASE kind = "runner" /\ ScmReady
  BY <1>1 DEF ScmReady, host, Beside
<1>2. CASE ScmStopped
  BY <1>2 DEF ScmStopped, ProcessGone, host, Beside
<1>3. CASE ServiceDies
  BY <1>3, FaultsGrow DEF ServiceDies, ProcessGone, host, Beside
<1>4. ASSUME NEW p \in Ids, SpawnAgent(p) \/ AgentExits(p)
      PROVE  Beside /\ kind = "runner"
  BY <1>4 DEF SpawnAgent, AgentExits, svcVars, Beside
<1> QED BY <1>1, <1>2, <1>3, <1>4 DEF Runner

\* None of it disturbs a command.
LEMMA BesideKept ==
  ASSUME RunnerInv, kind = "runner", Beside
  PROVE  RunnerInv'
<1>1. /\ kind' = kind /\ cmd' = cmd /\ todo' = todo /\ result' = result /\ UNCHANGED <<env, penv, tree, snap>>
      /\ faults \subseteq faults'
      /\ svc' # "absent" => svc # "absent"
  BY DEF Beside
<1>2. /\ svc = "absent" \/ doomed => svc' = "absent" \/ doomed'
      /\ svc = "absent" /\ agents = {} => svc' = "absent" /\ agents' = {}
      /\ NoProcess /\ agents = {} => NoProcess' /\ agents' = {}
      /\ NoProcess => NoProcess'
      /\ svc \in {"running", "stopped", "absent"} => svc' \in {"running", "stopped", "absent"}
      /\ svc \in {"stopPending", "stopped", "absent"} => svc' \in {"stopPending", "stopped", "absent"}
  BY DEF Beside, NoProcess
<1>3. Sound' => Sound
  BY <1>1, SoundBefore
<1>4. ASSUME NEW k \in 1..13, NEW x \in Stops, CreateAt(k, x) PROVE CreateAt(k, x)'
  BY <1>1, <1>2, <1>4 DEF CreateAt
<1>5. ASSUME NEW k \in 1..5, NEW x \in Stops, RefreshAt(k, x) PROVE RefreshAt(k, x)'
  BY <1>1, <1>2, <1>5 DEF RefreshAt
<1>6. ASSUME NEW k \in 1..6, RemoveAt(k) PROVE RemoveAt(k)'
  BY <1>1, <1>2, <1>6 DEF RemoveAt
<1>7. ASSUME NEW k \in 1..4, BounceAt(k) PROVE BounceAt(k)'
  BY <1>1, <1>7 DEF BounceAt, Steps
<1>8. ASSUME NEW k \in 1..4, NEW x \in Stops, UpgradeAt(k, x) PROVE UpgradeAt(k, x)'
  BY <1>1, <1>2, <1>3, <1>8 DEF UpgradeAt
<1>9. ASSUME NEW k \in 1..5, SwapAt(k) PROVE SwapAt(k)'
  BY <1>1, <1>2, <1>3, <1>9 DEF SwapAt
<1>10. ASSUME NEW k \in 1..6, RollbackAt(k) PROVE RollbackAt(k)'
  BY <1>1, <1>2, <1>3, <1>10 DEF RollbackAt
<1>11. Upgrades => Upgrades'
  BY <1>1, <1>3, <1>8, <1>9, <1>10 DEF Upgrades
<1>12. Rolling => Rolling'
  BY <1>1 DEF Rolling
<1>13. Sound /\ svc # "absent" => HasPayload
  BY DEF RunnerInv
<1>14. Sound' /\ svc' # "absent" => HasPayload'
  BY <1>1, <1>3, <1>12, <1>13 DEF HasPayload
<1> QED BY <1>1, <1>4, <1>5, <1>6, <1>7, <1>11, <1>14 DEF RunnerInv

\* A boot ends the command and leaves the payload where it is.
LEMMA BootKept ==
  ASSUME RunnerInv, BootHost
  PROVE  RunnerInv'
<1> SUFFICES ASSUME kind' = "runner" PROVE RunnerInv'
  BY DEF RunnerInv
<1>1. /\ kind = "runner" /\ todo' = <<>> /\ result' = "none" /\ UNCHANGED <<cmd, tree, snap>>
      /\ faults \subseteq faults' /\ "boot" \in faults'
      /\ svc' # "absent" => svc # "absent"
  BY FaultsGrow DEF BootHost, Boot
<1>2. Sound' => Sound /\ "extract" \notin faults
  BY <1>1, SoundBefore DEF Sound
<1>3. Sound /\ svc # "absent" => HasPayload
  BY <1>1 DEF RunnerInv
<1>4. Sound' /\ svc' # "absent" => HasPayload'
  BY <1>1, <1>2, <1>3 DEF HasPayload
<1>5. cmd' = "upgrade" => Upgrades'
  BY <1>1 DEF Upgrades
<1> QED BY <1>1, <1>4, <1>5 DEF RunnerInv

\* The lane's own steps are a lane's.
LEMMA LaneIsLane ==
  ASSUME TreeInv, ServiceFits, Lane
  PROVE  kind = "lane" /\ kind' = kind
<1>1. CASE Supervisor
  <2>1. sup # "none" /\ kind' = kind
    BY <1>1 DEF Supervisor, superviseLoop, ReapStale, ClearStale, MintJIT, RecordJIT, UndoMint, ResetWorkspace,
                runConfinedJob, assignPidToJob, RunCmdSpawns, cmdWait, Settle, SettleDelete, SettleClear,
                backoffSleep, ops
  <2> QED BY <2>1, SupervisorRuns
<1>2. CASE StartSupervisor
  BY <1>2 DEF StartSupervisor, ScmReady, host
<1>3. CASE SupervisorDies
  BY <1>3, SupervisorRuns DEF SupervisorDies
<1>4. CASE Recovers
  BY <1>4 DEF Recovers, ServiceFits, host
<1>5. ASSUME NEW i \in Ids, AgentConnects(i) \/ AgentTakesJob(i) \/ AgentLeaves(i)
      PROVE  kind = "lane" /\ kind' = kind
  BY <1>5 DEF AgentConnects, AgentTakesJob, AgentLeaves, scmVars
<1> QED BY <1>1, <1>2, <1>3, <1>4, <1>5 DEF Lane

\* A runner's commands keep to their plans whatever happens.
LEMMA RunnerInvKept ==
  ASSUME TreeInv, TreeInv', ServiceFits, RunnerInv, Next, kind' = kind
  PROVE  RunnerInv'
<1> SUFFICES ASSUME kind = "runner" PROVE RunnerInv'
  BY DEF RunnerInv
<1>0. TypeOK
  BY DEF TreeInv
<1>1. CASE Operate
  <2>1. CASE todo = <<>>
    <3>1. PICK c \in Commands : Begin(c)
      BY <1>1, <2>1, StepNamed DEF Operate, ScmSteps, At
    <3> QED BY <3>1, PlansBegin
  <2>2. CASE todo # <<>>
    BY <1>0, <1>1, <2>2, PlansMove
  <2> QED BY <2>1, <2>2
<1>2. CASE Runner
  BY <1>2, RunnerBeside, BesideKept
<1>3. CASE Lane
  BY <1>3, LaneIsLane
<1>4. CASE BootHost
  BY <1>4, BootKept
<1> QED BY <1>1, <1>2, <1>3, <1>4 DEF Next

\* A command that is at work stays the same until it ends.
LEMMA OperateFaults ==
  ASSUME Operate, todo # <<>>
  PROVE  cmd' = cmd /\ faults \subseteq faults' /\ kind' = kind
<1>0. /\ \A f : Fault(f) => faults \subseteq faults'
      /\ NoFault => faults \subseteq faults'
  BY FaultsGrow
<1>01. /\ Done => cmd' = cmd
       /\ Failed => cmd' = cmd
       /\ \A s : Then(s) => cmd' = cmd
  BY DEF Done, Then, Failed
<1>1. (ScmSteps /\ UNCHANGED laneVars) \/ ReadPending \/ Deregister \/ WipeControl \/ WriteParams \/ installSupervisorService
  BY DEF Operate, Begin
<1>2. CASE ReadPending \/ Deregister \/ WipeControl \/ WriteParams \/ installSupervisorService
  BY <1>0, <1>01, <1>2 DEF ReadPending, Deregister, WipeControl, WriteParams, installSupervisorService, host
<1>3. CASE Stop \/ WaitStopped \/ WaitGone \/ Delete \/ RequestStop \/ StopSettled \/ startService \/ TryStart \/ waitRunning
           \/ waitServiceRunning
  BY <1>0, <1>01, <1>3
     DEF Stop, WaitStopped, WaitGone, Delete, RequestStop, StopSettled, startService, TryStart, waitRunning,
         waitServiceRunning, Settles, host
<1>4. CASE KillAgents \/ RemoveTree \/ Extract \/ Configure \/ writeServiceEnvironment
  BY <1>0, <1>01, <1>4 DEF KillAgents, RemoveTree, Extract, Configure, writeServiceEnvironment
<1>5. CASE Recover \/ Snapshot \/ Discard \/ Restore
  BY <1>0, <1>01, <1>5 DEF Recover, Snapshot, Discard, Restore
<1> QED BY <1>1, <1>2, <1>3, <1>4, <1>5 DEF ScmSteps

-----------------------------------------------------------------------------
(* What the commands deliver: a lane.                                      *)

\* So does calm.
LEMMA CalmBefore ==
  ASSUME faults \subseteq faults', Calm'
  PROVE  Calm
BY DEF Calm

\* The destroy of a lane follows its plan.
LEMMA DestroyMoves ==
  ASSUME Operate, TypeOK, ServiceFits, kind = "lane", Calm', NEW k \in 1..9, DestroyAt(k)
  PROVE  cmd' = cmd /\ ((todo' = <<>> /\ result' # "ok") \/ \E l \in 1..10 : DestroyAt(l)')
<1>0. /\ k = 1 => ReadPending
      /\ k = 2 => Deregister
      /\ k = 3 => Stop
      /\ k = 4 => WaitStopped
      /\ k = 5 => Delete
      /\ k = 6 => WaitGone
      /\ k = 7 => KillAgents
      /\ k = 8 => WipeControl
      /\ k = 9 => RemoveTree
      /\ Done => todo' = From(DestroyPlan, k + 1) /\ cmd' = cmd
      /\ Failed => cmd' = cmd /\ todo' = <<>> /\ result' = "error"
  BY DestroyStep DEF DestroyAt
<1>1. svc \in {"absent", "stopped", "running", "startPending", "stopPending"} /\ (NoProcess => ~doomed)
  BY DEF TypeOK, ScmTypeOK, Pending, ServiceFits
<1>2. ~Fault("slow") /\ ~Fault("kill")
  BY FaultsGrow DEF Calm
<1>3. ASSUME Done, DestroyAt(k + 1)'
      PROVE  cmd' = cmd /\ ((todo' = <<>> /\ result' # "ok") \/ \E l \in 1..10 : DestroyAt(l)')
  BY <1>0, <1>3
<1>4. CASE k = 1
  BY <1>0, <1>3, <1>4 DEF ReadPending, DestroyAt
<1>5. CASE k = 2
  <2>1. Done \/ Failed
    BY <1>0, <1>5 DEF Deregister
  <2>2. Done => DestroyAt(3)'
    BY <1>0, <1>5 DEF DestroyAt
  <2> QED BY <1>0, <1>3, <1>5, <2>1, <2>2
<1>6. CASE k = 3
  BY <1>0, <1>3, <1>6 DEF Stop, DestroyAt
<1>7. CASE k = 4
  <2>1. Done /\ svc' = svc /\ svc \in {"stopped", "absent", "running"}
    BY <1>0, <1>2, <1>7 DEF WaitStopped, Settles, svcVars
  <2>2. DestroyAt(5)'
    BY <1>0, <1>7, <2>1 DEF DestroyAt
  <2> QED BY <1>3, <1>7, <2>1, <2>2
<1>8. CASE k = 5
  <2>1. Delete /\ svc \in {"stopped", "absent", "running"}
    BY <1>0, <1>8 DEF DestroyAt
  <2>2. Done /\ (svc' = "absent" \/ (svc' = "running" /\ doomed'))
    BY <2>1 DEF Delete
  <2>3. DestroyAt(6)'
    BY <1>0, <1>8, <2>2 DEF DestroyAt
  <2> QED BY <1>3, <1>8, <2>2, <2>3
<1>9. CASE k = 6
  <2>1. Done /\ svc' = svc /\ doomed' = doomed /\ (svc = "absent" \/ (svc = "running" /\ doomed))
    BY <1>0, <1>9 DEF WaitGone, svcVars, DestroyAt
  <2>2. DestroyAt(7)'
    BY <1>0, <1>9, <2>1 DEF DestroyAt
  <2> QED BY <1>3, <1>9, <2>1, <2>2
<1>10. CASE k = 7
  <2>1. KillAgents /\ (svc = "absent" \/ (svc = "running" /\ doomed))
    BY <1>0, <1>10 DEF DestroyAt
  <2>2. Done /\ agents' = {} /\ svc' = svc /\ doomed' = doomed
    BY <1>2, <2>1 DEF KillAgents
  <2>3. DestroyAt(8)'
    BY <1>0, <1>10, <2>1, <2>2 DEF DestroyAt
  <2> QED BY <1>3, <1>10, <2>2, <2>3
<1>11. CASE k = 8
  <2>1. /\ WipeControl /\ (svc = "absent" \/ (svc = "running" /\ doomed))
        /\ svc = "absent" => agents = {}
    BY <1>0, <1>11 DEF DestroyAt
  <2>2. Done /\ ctl' = "absent" /\ agents' = agents /\ svc' = svc /\ doomed' = doomed
    BY <2>1 DEF WipeControl, svcVars, host
  <2>3. DestroyAt(9)'
    BY <1>0, <1>11, <2>1, <2>2 DEF DestroyAt
  <2> QED BY <1>3, <1>11, <2>2, <2>3
<1>12. CASE k = 9
  <2>1. /\ RemoveTree /\ (svc = "absent" \/ (svc = "running" /\ doomed))
        /\ svc = "absent" => agents = {} /\ ctl = "absent"
    BY <1>0, <1>12 DEF DestroyAt
  <2>2. svc' = svc /\ doomed' = doomed /\ agents' = agents
    BY <2>1 DEF RemoveTree, svcVars
  <2>3. ctl' = ctl
    <3>1. At("removeTree")
      BY <2>1 DEF RemoveTree
    <3>2. todo # <<>> /\ \A s : At(s) <=> s = "removeTree"
      BY <3>1 DEF At
    <3>3. UNCHANGED laneVars
      BY <3>2, WhichStep
    <3> QED BY <3>3 DEF laneVars
  <2>4. CASE tree' = "absent" /\ Done
    <3>1. DestroyAt(10)'
      BY <1>0, <1>12, <2>1, <2>2, <2>3, <2>4 DEF DestroyAt
    <3> QED BY <1>3, <1>12, <2>4, <3>1
  <2>5. CASE Failed
    BY <1>0, <2>5
  <2> QED BY <2>1, <2>4, <2>5 DEF RemoveTree
<1> QED BY <1>4, <1>5, <1>6, <1>7, <1>8, <1>9, <1>10, <1>11, <1>12

\* While nothing crashes a lane's own steps leave a service alone that is gone, and one
\* that runs and was not told to stop.
Apart ==
  /\ UNCHANGED <<kind, cmd, todo, result>> /\ faults \subseteq faults'
  /\ Calm' => /\ svc' = svc \/ svc \in {"startPending", "stopPending"}
              /\ doomed' = doomed \/ svc = "stopPending"
              /\ svc = "absent" => svc' = "absent" /\ agents' \subseteq agents /\ ctl' = ctl /\ tree' = tree

\* So do a lane's supervisor and agents.
LEMMA LaneApart ==
  ASSUME TreeInv, ServiceFits, Lane
  PROVE  Apart
<1>0. \A f : (Fault(f) => faults \subseteq faults' /\ f \in faults') /\ (NoFault => faults' = faults)
  BY FaultsGrow
<1>1. CASE Supervisor
  <2>1. svc # "absent" /\ sup # "none"
    <3>1. sup # "none"
      BY <1>1 DEF Supervisor, superviseLoop, ReapStale, ClearStale, MintJIT, RecordJIT, UndoMint, ResetWorkspace,
                  runConfinedJob, assignPidToJob, RunCmdSpawns, cmdWait, Settle, SettleDelete, SettleClear, backoffSleep
    <3> QED BY <3>1, SupervisorRuns
  <2>2. UNCHANGED <<kind, cmd, todo, result>>
    BY <1>1 DEF Supervisor, superviseLoop, ReapStale, ClearStale, MintJIT, RecordJIT, UndoMint, ResetWorkspace,
                runConfinedJob, assignPidToJob, RunCmdSpawns, cmdWait, Settle, SettleDelete, SettleClear, backoffSleep, ops
  <2>3. faults \subseteq faults'
    BY <1>0, <1>1 DEF Supervisor, superviseLoop, ReapStale, ClearStale, MintJIT, RecordJIT, UndoMint, ResetWorkspace,
                runConfinedJob, assignPidToJob, RunCmdSpawns, cmdWait, Settle, SettleDelete, SettleClear, backoffSleep,
                Aborted
  <2>4. UNCHANGED <<svc, doomed>> \/ svc = "stopPending"
    BY <1>1 DEF Supervisor, superviseLoop, ReapStale, ClearStale, MintJIT, RecordJIT, UndoMint, ResetWorkspace,
                runConfinedJob, assignPidToJob, RunCmdSpawns, cmdWait, Settle, SettleDelete, SettleClear, backoffSleep,
                cancelled
  <2> QED BY <2>1, <2>2, <2>3, <2>4 DEF Apart
<1>2. CASE StartSupervisor
  BY <1>2 DEF StartSupervisor, ScmReady, host, Apart
<1>3. CASE SupervisorDies
  <2>1. faults \subseteq faults' /\ ~Calm' /\ UNCHANGED <<kind, cmd, todo, result>>
    BY <1>0, <1>3 DEF SupervisorDies, Calm
  <2> QED BY <2>1 DEF Apart
<1>4. CASE Recovers
  <2>1. UNCHANGED <<kind, cmd, todo, result, faults>> /\ ~Calm
    BY <1>4 DEF Recovers, ServiceFits, Calm, host
  <2> QED BY <2>1, CalmBefore DEF Apart
<1>5. ASSUME NEW i \in Ids, AgentConnects(i) \/ AgentTakesJob(i) \/ AgentLeaves(i)
      PROVE  Apart
  BY <1>5 DEF AgentConnects, AgentTakesJob, AgentLeaves, scmVars, svcVars, gitHub, Apart
<1> QED BY <1>1, <1>2, <1>3, <1>4, <1>5 DEF Lane

\* A destroy keeps to its plan whatever happens.
LEMMA LaneInvKept ==
  ASSUME TreeInv, ServiceFits, LaneInv, Next, kind' = kind
  PROVE  LaneInv'
<1> SUFFICES ASSUME kind = "lane", cmd' = "destroy", Calm'
             PROVE  (todo' = <<>> /\ result' # "ok") \/ \E k \in 1..10 : DestroyAt(k)'
  BY DEF LaneInv
<1>0. TypeOK
  BY DEF TreeInv
<1>1. CASE Operate
  <2>1. CASE todo = <<>>
    <3>1. Begin("destroy")
      BY <1>1, <2>1, StepNamed DEF Operate, ScmSteps, At, Begin
    <3>2. todo' = From(DestroyPlan, 1)
      BY <3>1, Commanded, PlansEnd DEF Begin, Steps
    <3>3. DestroyAt(1)'
      BY <3>2 DEF DestroyAt
    <3> QED BY <3>3
  <2>2. CASE todo # <<>>
    <3>1. cmd' = cmd /\ faults \subseteq faults'
      BY <1>1, <2>2, OperateFaults
    <3>2. PICK k \in 1..10 : DestroyAt(k)
      BY <2>2, <3>1, CalmBefore DEF LaneInv
    <3>3. k \in 1..9
      BY <2>2, <3>2, PlansEnd DEF DestroyAt
    <3> QED BY <1>0, <1>1, <3>2, <3>3, DestroyMoves
  <2> QED BY <2>1, <2>2
<1>2. CASE Runner
  BY <1>2, RunnerBeside
<1>3. CASE Lane
  <2>1. Apart
    BY <1>3, LaneApart
  <2>2. cmd = "destroy" /\ Calm /\ todo' = todo /\ result' = result
    BY <2>1, CalmBefore DEF Apart
  <2>3. ASSUME NEW k \in 1..10, DestroyAt(k) PROVE DestroyAt(k)'
    BY <2>1, <2>3 DEF Apart, DestroyAt
  <2> QED BY <2>2, <2>3 DEF LaneInv
<1>4. CASE BootHost
  BY <1>4 DEF BootHost, Boot
<1> QED BY <1>1, <1>2, <1>3, <1>4 DEF Next

-----------------------------------------------------------------------------
(* What the commands deliver: the theorem.                                 *)

\* A step of a command owes no deletion without a process, restarts nobody, and keeps
\* a runner out of the control directory.
LEMMA FitsOperate ==
  ASSUME TypeOK, ServiceFits, RunnerInv, Operate
  PROVE  ServiceFits'
<1>0. svc \in {"absent", "stopped", "running", "startPending", "stopPending"} /\ (NoProcess => ~doomed)
  BY DEF TypeOK, ScmTypeOK, Pending, ServiceFits
<1>1. CASE todo = <<>>
  <2>1. PICK c \in Commands : Begin(c) /\ UNCHANGED laneVars
    BY <1>1, StepNamed DEF Operate, ScmSteps, At
  <2>2. /\ UNCHANGED <<svc, doomed, kind, faults, restart, ctl>> /\ cmd' = c /\ c # "none"
    BY <2>1 DEF Begin, svcVars, laneVars, Commands
  <2>3. Commands' = Commands
    BY <2>2 DEF Commands
  <2> QED BY <2>2, <2>3 DEF ServiceFits, NoProcess
<1>2. CASE todo # <<>>
  <2>1. cmd' = cmd /\ faults \subseteq faults' /\ kind' = kind
    BY <1>2, OperateFaults
  <2>2. Commands' = Commands /\ cmd # "none"
    BY <1>2, <2>1 DEF Commands, ServiceFits
  <2>3. (ScmSteps /\ UNCHANGED laneVars) \/ ReadPending \/ Deregister \/ WipeControl \/ WriteParams \/ installSupervisorService
    BY <1>2 DEF Operate, Begin
  <2>4. restart' = restart
    BY <2>3 DEF ReadPending, Deregister, WipeControl, WriteParams, installSupervisorService, laneVars
  <2>5. kind = "runner" => ctl' = ctl
    BY <1>2, <2>1, PlansMove DEF laneVars
  <2>6. NoProcess' => ~doomed'
    <3>1. CASE ReadPending \/ Deregister \/ WipeControl \/ WriteParams \/ installSupervisorService
      BY <1>0, <3>1 DEF ReadPending, Deregister, WipeControl, WriteParams, installSupervisorService,
           svcVars, NoProcess
    <3>2. CASE Stop \/ RequestStop
      BY <1>0, <3>2 DEF Stop, RequestStop, SendStop, NoProcess
    <3>3. CASE WaitStopped \/ WaitGone \/ StopSettled \/ waitRunning \/ waitServiceRunning
      BY <1>0, <3>3 DEF WaitStopped, WaitGone, StopSettled, waitRunning, waitServiceRunning, svcVars, NoProcess
    <3>4. CASE Delete
      BY <1>0, <3>4 DEF Delete, NoProcess
    <3>5. CASE KillAgents
      BY <1>0, <3>5 DEF KillAgents, ProcessGone, NoProcess
    <3>6. CASE Configure
      BY <1>0, <3>6 DEF Configure, NoProcess
    <3>7. CASE startService \/ TryStart
      BY <1>0, <3>7 DEF startService, TryStart, SendStart, CanStart, NoProcess
    <3>8. CASE RemoveTree \/ Extract \/ writeServiceEnvironment \/ Recover \/ Snapshot \/ Discard \/ Restore
      BY <1>0, <3>8 DEF RemoveTree, Extract, writeServiceEnvironment, Recover, Snapshot, Discard, Restore,
           svcVars, NoProcess
    <3> QED BY <2>3, <3>1, <3>2, <3>3, <3>4, <3>5, <3>6, <3>7, <3>8 DEF ScmSteps
  <2> QED BY <2>1, <2>2, <2>4, <2>5, <2>6 DEF ServiceFits
<1> QED BY <1>1, <1>2

\* Nor does a step of a lane owe a deletion without a process.
LEMMA FitsLane ==
  ASSUME TreeInv, ServiceFits, Lane
  PROVE  ServiceFits'
<1>0. svc \in {"absent", "stopped", "running", "startPending", "stopPending"} /\ (NoProcess => ~doomed)
  BY DEF TreeInv, TypeOK, ScmTypeOK, Pending, ServiceFits
<1>1. kind = "lane" /\ kind' = kind /\ UNCHANGED <<cmd, todo, result>> /\ faults \subseteq faults'
  BY LaneIsLane, LaneApart DEF Apart
<1>2. Commands' = Commands
  BY <1>1 DEF Commands
<1>3. (NoProcess' => ~doomed') /\ (restart' => restart \/ "crash" \in faults')
  <2>1. CASE Supervisor
    <3>1. (UNCHANGED <<svc, doomed>> \/ ProcessGone) /\ restart' = restart
      BY <2>1 DEF Supervisor, superviseLoop, ReapStale, ClearStale, MintJIT, RecordJIT, UndoMint, ResetWorkspace,
                  runConfinedJob, assignPidToJob, RunCmdSpawns, cmdWait, Settle, SettleDelete, SettleClear, backoffSleep,
                  ops
    <3> QED BY <1>0, <3>1 DEF ProcessGone, NoProcess
  <2>2. CASE StartSupervisor
    BY <1>0, <2>2 DEF StartSupervisor, ScmReady, NoProcess
  <2>3. CASE SupervisorDies
    BY <2>3, FaultsGrow DEF SupervisorDies, ProcessGone
  <2>4. CASE Recovers
    BY <1>0, <2>4 DEF Recovers, NoProcess
  <2>5. ASSUME NEW i \in Ids, AgentConnects(i) \/ AgentTakesJob(i) \/ AgentLeaves(i)
        PROVE  UNCHANGED <<svc, doomed, restart>>
    BY <2>5 DEF AgentConnects, AgentTakesJob, AgentLeaves, scmVars, svcVars, gitHub
  <2> QED BY <1>0, <2>1, <2>2, <2>3, <2>4, <2>5 DEF Lane, NoProcess
<1> QED BY <1>1, <1>2, <1>3 DEF ServiceFits

\* Nor does any step.
LEMMA FitsKept ==
  ASSUME TreeInv, ServiceFits, RunnerInv, Next
  PROVE  ServiceFits' /\ kind' = kind
<1>0. TypeOK
  BY DEF TreeInv
<1>1. CASE Operate
  <2>1. kind' = kind
    BY <1>1, OperateFaults, StepNamed DEF Operate, ScmSteps, At, Begin
  <2> QED BY <1>0, <1>1, <2>1, FitsOperate
<1>2. CASE Runner
  <2>1. Beside /\ UNCHANGED laneVars
    BY <1>2, RunnerBeside DEF Runner
  <2>2. Commands' = Commands /\ kind' = kind
    BY <2>1 DEF Beside, Commands
  <2>3. NoProcess' => ~doomed'
    BY <1>2 DEF Runner, ScmReady, ScmStopped, ServiceDies, ProcessGone, SpawnAgent, AgentExits, svcVars,
         ServiceFits, NoProcess
  <2> QED BY <2>1, <2>2, <2>3 DEF Beside, ServiceFits, laneVars
<1>3. CASE Lane
  BY <1>3, FitsLane, LaneIsLane
<1>4. CASE BootHost
  <2>1. kind' = kind /\ doomed' = FALSE /\ restart' = FALSE /\ ctl' = ctl /\ cmd' = cmd /\ todo' = <<>> /\ result' = "none"
    BY <1>4 DEF BootHost, Boot
  <2>2. Commands' = Commands
    BY <2>1 DEF Commands
  <2> QED BY <2>1, <2>2 DEF ServiceFits
<1> QED BY <1>1, <1>2, <1>3, <1>4 DEF Next

\* The invariant holds at first,
LEMMA DeliverInit == Init => DeliverInv
<1> SUFFICES ASSUME Init PROVE DeliverInv
  OBVIOUS
<1>1. ServiceFits
  BY DEF Init, InitRunner, InitLane, ServiceFits, Commands
<1>2. RunnerInv /\ LaneInv
  BY DEF Init, InitRunner, InitLane, RunnerInv, LaneInv
<1> QED BY <1>1, <1>2 DEF DeliverInv

\* is kept by every step,
LEMMA DeliverStep ==
  ASSUME TreeInv, TreeInv', DeliverInv, [Next]_vars
  PROVE  DeliverInv'
<1>1. CASE Next
  <2>1. ServiceFits' /\ kind' = kind
    BY <1>1, FitsKept DEF DeliverInv
  <2>2. RunnerInv' /\ LaneInv'
    BY <1>1, <2>1, RunnerInvKept, LaneInvKept DEF DeliverInv
  <2> QED BY <2>1, <2>2 DEF DeliverInv
<1>2. CASE UNCHANGED vars
  <2>1. UNCHANGED <<kind, svc, doomed, env, penv, agents, tree, snap, cmd, todo, result, faults, ctl, restart>>
    BY <1>2 DEF vars, scmVars, laneVars
  <2>2. ServiceFits'
    BY <2>1 DEF DeliverInv, ServiceFits, NoProcess, Commands
  <2>3. Beside
    BY <2>1 DEF Beside
  <2>4. RunnerInv'
    BY <2>1, <2>3, BesideKept DEF DeliverInv, RunnerInv
  <2>5. \A k \in 1..10 : DestroyAt(k) => DestroyAt(k)'
    BY <2>1 DEF DestroyAt
  <2>6. LaneInv'
    BY <2>1, <2>5 DEF DeliverInv, LaneInv, Calm
  <2> QED BY <2>2, <2>4, <2>6 DEF DeliverInv
<1> QED BY <1>1, <1>2

\* and implies what the commands promise.
LEMMA DeliverInvDelivers ==
  ASSUME TypeOK, DeliverInv
  PROVE  CommandsDeliver
<1>0. kind \in {"runner", "lane"} /\ cmd \in Commands \cup {"none"} /\ (cmd = "none" => result = "none")
  BY DEF TypeOK, ScmTypeOK, DeliverInv, ServiceFits
<1>1. EnvReachesAgent
  <2>1. SUFFICES ASSUME todo = <<>>, result = "ok", cmd = "create" \/ (cmd = "refresh" /\ "slow" \notin faults)
                 PROVE  penv = "current"
    BY DEF EnvReachesAgent
  <2>2. kind = "runner"
    BY <1>0, <2>1 DEF Commands
  <2>3. CASE cmd = "create"
    <3>1. PICK k \in 1..13, x \in Stops : CreateAt(k, x)
      BY <2>1, <2>2, <2>3 DEF DeliverInv, RunnerInv
    <3>2. k = 13
      BY <2>1, <3>1, PlansEnd DEF CreateAt
    <3> QED BY <3>1, <3>2 DEF CreateAt
  <2>4. CASE cmd = "refresh" /\ "slow" \notin faults
    <3>1. PICK k \in 1..5, x \in Stops : RefreshAt(k, x)
      BY <2>1, <2>2, <2>4 DEF DeliverInv, RunnerInv
    <3>2. k = 5
      BY <2>1, <3>1, PlansEnd DEF RefreshAt
    <3> QED BY <2>4, <3>1, <3>2 DEF RefreshAt
  <2> QED BY <2>1, <2>3, <2>4
<1>2. UpgradeKeepsPayload
  <2>1. SUFFICES ASSUME cmd = "upgrade", todo = <<>>, result \in {"ok", "rolledBack", "error"}, Sound
                 PROVE  tree = IF result = "ok" THEN "new" ELSE "old"
    BY DEF UpgradeKeepsPayload, Sound
  <2>2. Upgrades
    BY <1>0, <2>1 DEF Commands, DeliverInv, RunnerInv
  <2>3. ASSUME NEW k \in 1..4, NEW x \in Stops, UpgradeAt(k, x) PROVE FALSE
    BY <2>1, <2>3, UpgradeEnds DEF UpgradeAt
  <2>4. ASSUME NEW k \in 1..5, SwapAt(k) PROVE tree = IF result = "ok" THEN "new" ELSE "old"
    <3>1. k = 5
      BY <2>1, <2>4, UpgradeEnds DEF SwapAt
    <3> QED BY <2>1, <2>4, <3>1 DEF SwapAt
  <2>5. ASSUME NEW k \in 1..6, RollbackAt(k) PROVE tree = IF result = "ok" THEN "new" ELSE "old"
    <3>1. k = 6
      BY <2>1, <2>5, UpgradeEnds DEF RollbackAt
    <3> QED BY <2>1, <2>5, <3>1 DEF RollbackAt
  <2> QED BY <2>1, <2>2, <2>3, <2>4, <2>5 DEF Upgrades
<1>3. RemovedIsGone
  <2>1. SUFFICES ASSUME cmd \in {"remove", "destroy"}, todo = <<>>, result = "ok", Calm
                 PROVE  Gone \/ (kind = "lane" /\ doomed)
    BY DEF RemovedIsGone, Calm
  <2>2. CASE kind = "runner"
    <3>1. cmd = "remove" /\ ctl = "absent" /\ "kill" \notin faults
      BY <1>0, <2>1, <2>2 DEF Commands, DeliverInv, ServiceFits, Calm
    <3>2. PICK k \in 1..6 : RemoveAt(k)
      BY <2>1, <2>2, <3>1 DEF DeliverInv, RunnerInv
    <3>3. k = 6
      BY <2>1, <3>2, PlansEnd DEF RemoveAt
    <3> QED BY <3>1, <3>2, <3>3 DEF RemoveAt, Gone
  <2>3. CASE kind = "lane"
    <3>1. cmd = "destroy"
      BY <1>0, <2>1, <2>3 DEF Commands
    <3>2. PICK k \in 1..10 : DestroyAt(k)
      BY <2>1, <2>3, <3>1 DEF DeliverInv, LaneInv
    <3>3. k = 10
      BY <2>1, <3>2, PlansEnd DEF DestroyAt
    <3> QED BY <2>3, <3>2, <3>3 DEF DestroyAt, Gone
  <2> QED BY <1>0, <2>2, <2>3
<1> QED BY <1>1, <1>2, <1>3 DEF CommandsDeliver

\* What a command of srm reports of a Windows service is so when it returns: a runner
\* that was made or refreshed runs with the environment just written, an upgrade leaves
\* the whole payload it names, a removal has removed (windows.go, windows_ephemeral.go).
THEOREM CommandsAlwaysDeliver == Spec => []CommandsDeliver
<1>1. Spec => [](TreeInv /\ DeliverInv)
  <2>1. Init => TreeInv /\ DeliverInv
    BY InitInv, DeliverInit
  <2>2. TreeInv /\ DeliverInv /\ [Next]_vars => (TreeInv /\ DeliverInv)'
    BY NextKept, DeliverStep
  <2> QED BY <2>1, <2>2, PTL DEF Spec
<1>2. TreeInv /\ DeliverInv => CommandsDeliver
  BY DeliverInvDelivers DEF TreeInv
<1> QED BY <1>1, <1>2, PTL
=============================================================================
