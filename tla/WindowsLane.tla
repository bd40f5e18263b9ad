---------------------------- MODULE WindowsLane ----------------------------
(***************************************************************************)
(* An ephemeral lane on Windows: one service whose process, the            *)
(* supervisor, runs job cycles in a loop until the SCM stops it.  A stop   *)
(* cancels the cycle wherever it is; the job runs in a job object that     *)
(* ends with the cycle only when the lane has caps.  Beside it the other   *)
(* service of WindowsScm, a persistent runner's; a behaviour is about one. *)
(***************************************************************************)
EXTENDS WindowsScm

CONSTANT Capped   \* whether the lane has resource limits

ASSUME LaneAssumption == Capped \subseteq BOOLEAN

VARIABLES
  sup,        \* the step the supervisor is at, "none" without its process
  cur,        \* the registration its cycle works on
  capped,     \* the limits its configuration carries
  job,        \* the agents inside the open job object
  restart,    \* the SCM owes the service a recovery restart
  reg,        \* GitHub: every registration
  jitId,      \* the lane's jit-id file
  ctl,        \* its control directory: absent, without or with the mint parameters
  slate,      \* the per-job layer of its tree
  opId        \* the registration a destroy has read

laneVars == <<sup, cur, capped, job, restart, reg, jitId, ctl, slate, opId>>
vars     == <<scmVars, laneVars>>

\* Everything but the supervisor's own step.
ops == <<cmd, todo, result, opId, restart, capped, kind, env, penv, snap>>

SupSteps == {"none", "loop", "reap", "reapClear", "mint", "record", "undo", "reset",
             "start", "assign", "wait", "settle", "settleDelete", "settleClear", "pause"}

cancelled == svc = "stopPending"
Alive(p)  == p \in agents
Running(p) == Alive(p) /\ reg[p] = "busy"

InitRunner ==
  /\ kind = "runner" /\ svc = "absent" /\ env = "absent" /\ penv = "absent" /\ tree = "absent"
  /\ ctl = "absent" /\ capped = FALSE

InitLane ==
  /\ kind = "lane" /\ svc = "absent" /\ env = "absent" /\ penv = "absent" /\ tree = "absent"
  /\ ctl = "absent" /\ capped \in Capped

Init ==
  /\ InitRunner \/ InitLane
  /\ doomed = FALSE /\ own = NoId /\ agents = {} /\ snap = "absent"
  /\ cmd = "none" /\ todo = <<>> /\ result = "none" /\ faults = {}
  /\ sup = "none" /\ cur = NoId /\ job = {} /\ restart = FALSE
  /\ reg = [i \in Ids |-> "none"] /\ jitId = NoId /\ slate = "clean" /\ opId = NoId

---------------------------------------------------------------------------
(* RunCycle in the supervisor's loop                                       *)

Goto(s) == sup' = s

\* An id that is deregistered and named nowhere stands for a new one.
Fresh(i) == reg[i] = "none" /\ i \notin agents \cup {jitId, cur, opId}

\* DELETE of a registration: GitHub refuses while its job runs.
Deletes(i) == IF Running(i) THEN UNCHANGED reg ELSE reg' = [reg EXCEPT ![i] = "none"]

\* A call of the supervisor: with its context cancelled it comes back with an
\* error, carried out or not.
Aborted == (cancelled /\ NoFault) \/ Fault("api")

\* Every cycle ends with a line in the lane's log and its counter, which bring
\* the control directory back.
Logged == ctl' = IF ctl = "absent" THEN "empty" ELSE ctl

\* The loop ends when its context is cancelled, and the process with it.
superviseLoop ==
  /\ sup = "loop" /\ Logged /\ NoFault
  /\ IF cancelled
     THEN sup' = "none" /\ ProcessGone /\ UNCHANGED cur
     ELSE /\ cur' = jitId /\ Goto(IF jitId = NoId THEN "mint" ELSE "reap")
          /\ UNCHANGED <<svc, doomed, own>>
  /\ UNCHANGED <<agents, job, reg, jitId, slate, tree, ops>>

ReapStale ==
  /\ sup = "reap" /\ Goto("reapClear")
  /\ \/ ~cancelled /\ NoFault /\ Deletes(cur)
     \/ Aborted /\ (UNCHANGED reg \/ Deletes(cur))
  /\ UNCHANGED <<svc, doomed, own, cur, agents, job, jitId, ctl, slate, tree, ops>>

ClearStale ==
  /\ sup = "reapClear" /\ jitId' = NoId /\ cur' = NoId /\ Goto("mint") /\ NoFault
  /\ UNCHANGED <<svc, doomed, own, agents, job, reg, ctl, slate, tree, ops>>

MintJIT ==
  /\ sup = "mint"
  /\ \/ /\ ctl = "params" /\ ~cancelled /\ NoFault
        /\ \E i \in Ids : Fresh(i) /\ reg' = [reg EXCEPT ![i] = "offline"] /\ cur' = i
        /\ Goto("record")
     \/ ctl # "params" /\ NoFault /\ Goto("pause") /\ UNCHANGED <<reg, cur>>
     \/ /\ ctl = "params" /\ Aborted /\ Goto("pause") /\ UNCHANGED cur
        /\ \/ UNCHANGED reg
           \/ \E i \in Ids : Fresh(i) /\ reg' = [reg EXCEPT ![i] = "offline"]
  /\ UNCHANGED <<svc, doomed, own, agents, job, jitId, ctl, slate, tree, ops>>

\* RecordJIT makes the control directory itself.
RecordJIT ==
  /\ sup = "record" /\ Logged
  /\ \/ NoFault /\ jitId' = cur /\ Goto("reset")
     \/ Fault("record") /\ jitId' \in {jitId, NoId} /\ Goto("undo")
  /\ UNCHANGED <<svc, doomed, own, cur, agents, job, reg, slate, tree, ops>>

UndoMint ==
  /\ sup = "undo" /\ Goto("pause")
  /\ \/ ~cancelled /\ NoFault /\ Deletes(cur)
     \/ Aborted /\ (UNCHANGED reg \/ Deletes(cur))
  /\ UNCHANGED <<svc, doomed, own, cur, agents, job, jitId, ctl, slate, tree, ops>>

ResetPastLocks ==
  /\ sup = "reset" /\ NoFault /\ slate' = "clean" /\ Goto("start")
  /\ UNCHANGED <<svc, doomed, own, cur, agents, job, reg, jitId, ctl, tree, ops>>

ResetNothing ==
  /\ sup = "reset" /\ NoFault
  /\ Goto(IF agents = {} /\ ~cancelled THEN "start" ELSE "settle")
  /\ UNCHANGED <<svc, doomed, own, cur, agents, job, reg, jitId, ctl, slate, tree, ops>>

\* RunJob wipes the per-job layer and makes it anew; the files of an agent that
\* still lives in the tree stay and fail the cycle, and so does icacls once
\* cancelled.  A tree that is gone comes back as an empty one.
ResetWorkspace ==
  /\ sup = "reset" /\ NoFault
  /\ IF agents = {} THEN slate' = "clean" ELSE UNCHANGED slate
  /\ tree' = IF agents = {} /\ tree = "absent" THEN "partial" ELSE tree
  /\ Goto(IF agents = {} /\ ~cancelled THEN "start" ELSE "settle")
  /\ UNCHANGED <<svc, doomed, own, cur, agents, job, reg, jitId, ctl, ops>>

\* runConfinedJob: without limits cmd.Run; with them cmd.Start, then the job.
runConfinedJob ==
  /\ sup = "start" /\ NoFault
  /\ Goto(IF cancelled \/ tree \notin {"old", "new"} THEN "settle" ELSE IF capped THEN "assign" ELSE "wait")
  /\ own' = NoId
  /\ UNCHANGED <<svc, doomed, cur, agents, job, reg, jitId, ctl, slate, tree, ops>>

\* assignPidToJob: a failure is logged and the job runs uncapped.
assignPidToJob ==
  /\ sup = "assign" /\ Goto("wait")
  /\ \/ NoFault /\ job' = IF own = NoId THEN {cur} ELSE {}
     \/ Fault("assign") /\ job' = {}
  /\ UNCHANGED <<svc, doomed, own, cur, agents, reg, jitId, ctl, slate, tree, ops>>

\* run.cmd starts the listener, once; it lives in the job if run.cmd did.
RunCmdSpawns ==
  /\ sup \in {"assign", "wait"} /\ own = NoId /\ NoFault
  /\ own' = cur /\ agents' = agents \cup {cur}
  /\ UNCHANGED <<svc, doomed, sup, cur, job, reg, jitId, ctl, slate, tree, ops>>

\* run.cmd returns with its listener, or is killed when the context is; then the
\* handle of the job object is closed, which kills who is in it.
cmdWait ==
  /\ sup = "wait" /\ NoFault
  /\ cancelled \/ (own = cur /\ cur \notin agents)
  /\ agents' = agents \ job /\ job' = {} /\ own' = NoId /\ Goto("settle")
  /\ UNCHANGED <<svc, doomed, cur, reg, jitId, ctl, slate, tree, ops>>

Settle ==
  /\ sup = "settle"
  /\ \/ ~cancelled /\ NoFault /\ Goto(IF reg[cur] = "none" THEN "settleClear" ELSE "settleDelete")
     \/ Aborted /\ Goto("pause")
  /\ UNCHANGED <<svc, doomed, own, cur, agents, job, reg, jitId, ctl, slate, tree, ops>>

SettleDelete ==
  /\ sup = "settleDelete"
  /\ \/ ~cancelled /\ NoFault /\ Deletes(cur) /\ Goto(IF Running(cur) THEN "pause" ELSE "settleClear")
     \/ Aborted /\ (UNCHANGED reg \/ Deletes(cur)) /\ Goto("pause")
  /\ UNCHANGED <<svc, doomed, own, cur, agents, job, jitId, ctl, slate, tree, ops>>

SettleClear ==
  /\ sup = "settleClear" /\ jitId' = NoId /\ Goto("pause") /\ NoFault
  /\ UNCHANGED <<svc, doomed, own, cur, agents, job, reg, ctl, slate, tree, ops>>

\* backoffSleep ends early when cancelled; the next cycle has no id yet.
backoffSleep ==
  /\ sup = "pause" /\ cur' = NoId /\ Goto("loop") /\ NoFault
  /\ UNCHANGED <<svc, doomed, own, agents, job, reg, jitId, ctl, slate, tree, ops>>

Supervisor ==
  \/ superviseLoop \/ ReapStale \/ ClearStale \/ MintJIT \/ RecordJIT \/ UndoMint \/ ResetWorkspace
  \/ runConfinedJob \/ assignPidToJob \/ RunCmdSpawns \/ cmdWait
  \/ Settle \/ SettleDelete \/ SettleClear \/ backoffSleep

---------------------------------------------------------------------------
(* GitHub and the agents                                                   *)

gitHub == <<sup, cur, capped, job, restart, jitId, ctl, opId>>

AgentConnects(i) ==
  /\ kind = "lane" /\ Alive(i) /\ reg[i] = "offline" /\ reg' = [reg EXCEPT ![i] = "idle"]
  /\ UNCHANGED <<scmVars, gitHub, slate>>

AgentTakesJob(i) ==
  /\ kind = "lane" /\ Alive(i) /\ reg[i] = "idle" /\ reg' = [reg EXCEPT ![i] = "busy"]
  /\ slate' = "dirty"
  /\ UNCHANGED <<scmVars, gitHub>>

AgentLeaves(i) ==
  /\ kind = "lane" /\ Alive(i) /\ agents' = agents \ {i}
  /\ \/ reg[i] = "busy" /\ reg' = [reg EXCEPT ![i] = "none"]
     \/ reg' = [reg EXCEPT ![i] = IF @ = "none" THEN @ ELSE "offline"]
  /\ UNCHANGED <<svcVars, env, tree, snap, kind, cmd, todo, result, faults, gitHub, slate>>

---------------------------------------------------------------------------
(* The lane's side of the SCM and of the commands                          *)

StartSupervisor ==
  /\ kind = "lane" /\ ScmReady /\ sup' = "loop"
  /\ UNCHANGED <<cur, capped, job, restart, reg, jitId, ctl, slate, opId>>

\* The supervisor crashes: its job object goes with it, and the SCM restarts it.
SupervisorDies ==
  /\ sup # "none" /\ Fault("crash") /\ ProcessGone
  /\ sup' = "none" /\ cur' = NoId /\ restart' = (svc' = "stopped")
  /\ agents' = agents \ job /\ job' = {}
  /\ UNCHANGED <<penv, env, tree, snap, kind, cmd, todo, result, capped, reg, jitId, ctl, slate, opId>>

Recovers ==
  /\ restart /\ restart' = FALSE
  /\ svc' = IF svc = "stopped" THEN "startPending" ELSE svc
  /\ penv' = IF svc = "stopped" THEN env ELSE penv
  /\ UNCHANGED <<doomed, own, host, cmd, todo, result, faults,
                 sup, cur, capped, job, reg, jitId, ctl, slate, opId>>

BootHost ==
  /\ Boot /\ sup' = "none" /\ cur' = NoId /\ job' = {} /\ restart' = FALSE /\ opId' = NoId
  /\ UNCHANGED <<capped, reg, jitId, ctl, slate>>

\* PendingJIT, then the DELETE whose failure ends the command; without a client
\* it is left out.
ReadPending ==
  /\ At("readPending") /\ opId' = jitId /\ Done
  /\ UNCHANGED <<svcVars, host, faults, sup, cur, capped, job, restart, reg, jitId, ctl, slate>>

Deregister ==
  /\ At("deregister") /\ opId' = NoId
  /\ \/ opId = NoId /\ NoFault /\ UNCHANGED reg /\ Done
     \/ opId # NoId /\ ~Running(opId) /\ NoFault /\ Deletes(opId) /\ Done
     \/ opId # NoId /\ Running(opId) /\ NoFault /\ UNCHANGED reg /\ Failed
     \/ opId # NoId /\ Fault("api") /\ UNCHANGED reg /\ (Failed \/ Done)
  /\ UNCHANGED <<svcVars, host, sup, cur, capped, job, restart, jitId, ctl, slate>>

WipeControl ==
  /\ At("wipeControl") /\ ctl' = "absent" /\ jitId' = NoId /\ Done
  /\ UNCHANGED <<svcVars, host, faults, sup, cur, capped, job, restart, reg, slate, opId>>

WriteParams ==
  /\ At("writeParams") /\ ctl' = "params" /\ Done
  /\ UNCHANGED <<svcVars, host, faults, sup, cur, capped, job, restart, reg, jitId, slate, opId>>

\* CreateService refuses a name that exists, or whose deletion is still owed.
installSupervisorService ==
  /\ At("install") /\ NoFault
  /\ IF svc = "absent" THEN svc' = "stopped" /\ env' = "absent" /\ Done
                       ELSE UNCHANGED <<svc, env>> /\ Failed
  /\ UNCHANGED <<doomed, own, penv, agents, tree, snap, kind, laneVars>>

Commands == IF kind = "runner" THEN {"create", "refresh", "upgrade", "remove", "bounce"}
                               ELSE {"ensure", "destroy", "bounce"}

Operate ==
  \/ (\E c \in Commands : Begin(c)) /\ UNCHANGED laneVars
  \/ ScmSteps /\ UNCHANGED laneVars
  \/ ReadPending \/ Deregister \/ WipeControl \/ WriteParams \/ installSupervisorService

Runner ==
  /\ \/ kind = "runner" /\ ScmReady
     \/ ScmStopped \/ ServiceDies
     \/ \E p \in Ids : SpawnAgent(p) \/ AgentExits(p)
  /\ UNCHANGED laneVars

Lane ==
  \/ Supervisor \/ StartSupervisor \/ SupervisorDies \/ Recovers
  \/ \E i \in Ids : AgentConnects(i) \/ AgentTakesJob(i) \/ AgentLeaves(i)

Next == Operate \/ Runner \/ Lane \/ BootHost
Spec == Init /\ [][Next]_vars

---------------------------------------------------------------------------
(* Properties                                                              *)

\* Service, tree, processes and files have values of their kind, and a
\* supervisor is alive only in a service that runs (windows.go,
\* windows_ephemeral.go, supervisor_windows.go).
TypeOK ==
  /\ ScmTypeOK
  /\ sup \in SupSteps /\ cur \in Ids \cup {NoId} /\ capped \in BOOLEAN /\ job \subseteq Ids
  /\ restart \in BOOLEAN /\ reg \in [Ids -> {"none", "offline", "idle", "busy"}]
  /\ jitId \in Ids \cup {NoId} /\ ctl \in {"absent", "empty", "params"}
  /\ slate \in {"clean", "dirty"} /\ opId \in Ids \cup {NoId}
  /\ sup # "none" => svc \in {"running", "stopPending"}

\* Two agents never live in one lane's tree: what a stop or a crash leaves
\* alive keeps its files, and the next cycle's wipe fails on them (RunJob).
OneAgentInTree == kind = "lane" => Cardinality(agents) <= 1

\* Service, supervisor and agents agree on who is alive in the tree (Execute,
\* superviseLoop).
TreeSound == TypeOK /\ OneAgentInTree

\* A runner that was created runs with the environment just written, however
\* slow the SCM is, and so does one that was refreshed when its service did not
\* hang in a start: their restart is what makes the SCM read it (CreateRunner,
\* which waits before it stops, and RefreshUnit, which does not).
EnvReachesAgent ==
  /\ todo = <<>> /\ result = "ok"
  /\ cmd = "create" \/ (cmd = "refresh" /\ "slow" \notin faults)
  => penv = "current"

\* An upgrade that returns leaves a whole payload, the new one on success and
\* the prior one after a rollback, unless it says that the runner is down or an
\* agent survived its kill (UpgradeRunnerAgent on locked directories), or the host went
\* down over an extraction: the next upgrade takes what lies there for the payload and
\* drops its snapshot (recoverAgentSnapshot).
UpgradeKeepsPayload ==
  /\ cmd = "upgrade" /\ todo = <<>> /\ result \in {"ok", "rolledBack", "error"}
  /\ "kill" \notin faults /\ ~({"extract", "boot"} \subseteq faults)
  => tree = (IF result = "ok" THEN "new" ELSE "old")

Gone == svc = "absent" /\ agents = {} /\ tree = "absent" /\ ctl = "absent"

\* A removal that reports success has removed service, agents, tree and control
\* directory, whatever the supervisor was doing, when nothing crashed, hung or
\* survived its kill.  Of a lane whose service could not be stopped because it
\* was still starting, the SCM holds at least the mark (RemoveEphemeralSlot,
\* RemoveRunner).
RemovedIsGone ==
  /\ cmd \in {"remove", "destroy"} /\ todo = <<>> /\ result = "ok"
  /\ faults \cap {"slow", "kill", "crash"} = {}
  => Gone \/ (kind = "lane" /\ doomed)

\* What a command reports is so when it returns, however slow the SCM is and whatever
\* its supervisor was doing (CreateRunner, UpgradeRunnerAgent, RemoveEphemeralSlot).
CommandsDeliver == EnvReachesAgent /\ UpgradeKeepsPayload /\ RemovedIsGone

stage == IF kind = "lane" /\ \E i \in Ids : Running(i) THEN "working"
         ELSE IF kind = "lane" /\ slate = "clean" /\ \E i \in agents : reg[i] = "idle" THEN "ready"
         ELSE "empty"
Promise == INSTANCE JobLane WITH Lanes <- {"lane"}, stage <- [l \in {"lane"} |-> stage]

\* The lane promises what the Linux lane does: a fresh registration and a clean
\* workspace before every job (JobLane), in a loop that is never re-executed.
OneCleanJob == Promise!Spec
=============================================================================
