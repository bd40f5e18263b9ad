----------------------------- MODULE WindowsScm -----------------------------
(***************************************************************************)
(* One Windows service of an srm host, the agent processes in its tree and *)
(* the steps srm's elevated commands take against both: sc.exe verbs that  *)
(* return before they took effect, waits that give up, a tree that cannot  *)
(* be changed while a process runs from it.                                *)
(*                                                                         *)
(* A command is the sequence of its steps; a step that fails ends it, or   *)
(* sends an upgrade to its rollback.                                       *)
(***************************************************************************)
EXTENDS Naturals, Sequences, FiniteSets

CONSTANTS
  Ids,       \* agent processes; in a lane, the registrations they serve
  NoId,
  Faults,    \* the faults that may happen, each at most once
  MaxFaults  \* and the most that happen in one behaviour

FaultKinds == {"slow", "kill", "extract", "config", "unhealthy", "api", "record", "assign", "crash", "boot"}

ASSUME ScmAssumption == NoId \notin Ids /\ Faults \subseteq FaultKinds /\ MaxFaults \in Nat

VARIABLES
  kind,      \* "runner": a persistent runner; "lane": an ephemeral lane's supervisor
  svc,       \* the service's state
  doomed,    \* the SCM holds it as marked for deletion
  own,       \* the agent the running service process has started, or NoId
  env, penv, \* the Environment value of the service, and what its process read
  agents,    \* the agent processes alive in the tree
  tree,      \* the agent payload in the tree
  snap,      \* what the snapshot beside it holds, "absent" without one
  cmd, todo, result,
  faults     \* the faults that happened

scmVars == <<kind, svc, doomed, own, env, penv, agents, tree, snap, cmd, todo, result, faults>>
svcVars == <<svc, doomed, own, penv>>

Fault(k) ==
  k \in Faults \ faults /\ Cardinality(faults) < MaxFaults /\ faults' = faults \cup {k}
NoFault  == UNCHANGED faults

Pending  == {"startPending", "stopPending"}
Payloads == {"absent", "half", "partial", "old", "new"}

ScmTypeOK ==
  /\ kind \in {"runner", "lane"}
  /\ svc \in {"absent", "stopped", "running"} \cup Pending /\ doomed \in BOOLEAN
  /\ own \in Ids \cup {NoId} /\ agents \subseteq Ids
  /\ env \in {"absent", "stale", "current"} /\ penv \in {"absent", "stale", "current"}
  /\ tree \in Payloads /\ snap \in Payloads
  /\ result \in {"none", "ok", "error", "rolledBack", "down"} /\ faults \subseteq Faults

---------------------------------------------------------------------------
(* Commands as sequences of steps                                          *)

teardownService == <<"stop", "waitStopped", "delete">>
stopService     == <<"requestStop">>

CreateRunner ==
  teardownService \o <<"kill", "removeTree", "extract", "configure", "setEnv", "awaitRunning">>
  \o stopService \o <<"startService", "selfTest">>

RefreshUnit  == <<"setEnv">> \o stopService \o <<"startService", "selfTest">>
RemoveRunner == teardownService \o <<"kill", "removeTree">>

UpgradeWithoutKill == <<"recover">> \o stopService \o <<"snapshot">>

UpgradeRunnerAgent == <<"recover">> \o stopService \o <<"kill", "snapshot">>

Swap     == <<"extract", "startService", "selfTest", "discard">>
Rollback == <<"stop", "waitStopped", "kill", "restore", "tryStart">>

teardownEphemeralService == <<"stop", "waitStopped", "delete", "waitGone">>

RemoveEphemeralSlot == teardownEphemeralService \o <<"kill", "wipeControl", "removeTree">>

EnsureEphemeralSlot ==
  teardownEphemeralService
  \o <<"kill", "removeTree", "extract", "writeParams", "install", "setEnv", "startService", "awaitRunning">>

\* DestroyEphemeralSlot of the service layer; RecreateEphemeralSlot is a destroy
\* and, when that succeeded, an ensure.
DestroySlot == <<"readPending", "deregister">> \o RemoveEphemeralSlot

Steps(c) == CASE c = "create"   -> CreateRunner
              [] c = "refresh"  -> RefreshUnit
              [] c = "upgrade"  -> UpgradeRunnerAgent
              [] c = "remove"   -> RemoveRunner
              [] c = "ensure"   -> EnsureEphemeralSlot
              [] c = "destroy"  -> DestroySlot
              [] c = "bounce"   -> <<"stop", "waitStopped", "tryStart">>

At(s) == todo # <<>> /\ Head(todo) = s

Then(steps) ==
  /\ todo' = steps \o Tail(todo)
  /\ result' = IF todo' = <<>> /\ result = "none" THEN "ok" ELSE result
  /\ UNCHANGED cmd

Done == Then(<<>>)

\* A step of a swap fails into the rollback, another one ends the command.
Failed ==
  /\ UNCHANGED cmd
  /\ IF "discard" \in {todo[i] : i \in 1..Len(todo)}
     THEN todo' = Rollback /\ result' = "rolledBack"
     ELSE todo' = <<>> /\ result' = "error"

Begin(c) ==
  /\ todo = <<>> /\ cmd' = c /\ todo' = Steps(c) /\ result' = "none"
  /\ c \in {"refresh", "upgrade"} => svc # "absent"
  /\ tree' = IF c = "upgrade" /\ tree = "new" THEN "old" ELSE tree
  /\ UNCHANGED <<kind, svcVars, env, agents, snap, faults>>

---------------------------------------------------------------------------
(* The steps                                                               *)

host == <<env, agents, tree, snap, kind>>

\* The service process is gone: the SCM finishes a deletion it owes.
ProcessGone ==
  /\ svc' = IF doomed THEN "absent" ELSE "stopped"
  /\ doomed' = FALSE /\ own' = NoId

\* sc stop sends a control; only a running service takes it.
SendStop == svc' = IF svc = "running" THEN "stopPending" ELSE svc

Stop ==
  /\ At("stop") /\ SendStop /\ Done
  /\ UNCHANGED <<doomed, own, penv, host, faults>>

\* waitStopped, and the poll after a deletion: until then or until it gives up,
\* at once on a service that runs on, on a pending one only if that is slow.
Settles(states) ==
  \/ svc \in states \cup {"running"} /\ NoFault
  \/ svc \in Pending /\ Fault("slow")

WaitStopped ==
  /\ At("waitStopped") /\ Settles({"stopped", "absent"}) /\ Done
  /\ UNCHANGED <<svcVars, host>>

WaitGone ==
  /\ At("waitGone") /\ Settles({"stopped", "absent"}) /\ Done
  /\ UNCHANGED <<svcVars, host>>

\* sc delete: a service with a process is only marked.
Delete ==
  /\ At("delete") /\ Done
  /\ IF svc \in {"stopped", "absent"} THEN svc' = "absent" /\ UNCHANGED doomed
                                    ELSE doomed' = TRUE /\ UNCHANGED svc
  /\ UNCHANGED <<own, penv, host, faults>>

\* killAgentProcesses: what runs from the tree, a persistent runner's service
\* process included; a supervisor's image lies elsewhere.
KillAgents ==
  /\ At("kill") /\ Done
  /\ \/ NoFault /\ agents' = {}
     \/ Fault("kill") /\ UNCHANGED agents
  /\ IF kind = "runner" /\ svc \in {"running"} \cup Pending /\ agents' = {}
     THEN ProcessGone ELSE UNCHANGED <<svc, doomed, own>>
  /\ UNCHANGED <<penv, env, tree, snap, kind>>

\* removeRunnerTree retries, but not past a process that stays.
RemoveTree ==
  /\ At("removeTree") /\ NoFault
  /\ IF agents = {} THEN tree' = "absent" /\ snap' = "absent" /\ Done
     ELSE UNCHANGED <<tree, snap>> /\ Failed
  /\ UNCHANGED <<svcVars, env, agents, kind>>

\* extractZip and grantServiceAccess.
Extract ==
  /\ At("extract")
  /\ \/ NoFault /\ tree' = "new" /\ Done
     \/ Fault("extract") /\ tree' = "partial" /\ Failed
  /\ UNCHANGED <<svcVars, env, agents, snap, kind>>

\* config.cmd --runasservice: the name must be free; the service starts at once.
Configure ==
  /\ At("configure")
  /\ \/ /\ svc = "absent" /\ NoFault /\ svc' = "startPending" /\ env' = "absent" /\ penv' = "absent"
        /\ Done
     \/ /\ svc # "absent" /\ NoFault /\ UNCHANGED <<svc, env, penv>> /\ Failed
     \/ Fault("config") /\ UNCHANGED <<svc, env, penv>> /\ Failed
  /\ UNCHANGED <<doomed, own, agents, tree, snap, kind>>

writeServiceEnvironment ==
  /\ At("setEnv") /\ NoFault
  /\ IF svc = "absent" THEN UNCHANGED env /\ Failed ELSE env' = "current" /\ Done
  /\ UNCHANGED <<svcVars, agents, tree, snap, kind>>

\* waitServiceRunning: about ten seconds for a service to be up.
waitServiceRunning ==
  /\ At("awaitRunning")
  /\ \/ svc = "running" /\ NoFault /\ Done
     \/ svc \in {"absent", "stopped"} /\ NoFault /\ Failed
     \/ svc \in Pending /\ Fault("slow") /\ Failed
  /\ UNCHANGED <<svcVars, host>>

\* stopService: whether sc stop was refused matters when the wait is over.
RequestStop ==
  /\ At("requestStop") /\ SendStop
  /\ Then(<<IF svc = "running" THEN "stopSent" ELSE "stopRefused">>)
  /\ UNCHANGED <<doomed, own, penv, host, faults>>

StopSettled ==
  /\ At("stopSent") \/ At("stopRefused")
  /\ Settles({"stopped", "absent"})
  /\ IF At("stopRefused") /\ svc = "running" THEN Failed ELSE Done
  /\ UNCHANGED <<svcVars, host>>

\* sc start: its process reads the Environment value; a persistent runner's
\* image lies in the tree, so it starts only from a whole one.
CanStart  == svc = "stopped" /\ ~doomed /\ (kind = "runner" => tree \in {"old", "new"})
SendStart == IF CanStart THEN svc' = "startPending" /\ penv' = env ELSE UNCHANGED <<svc, penv>>

\* startService: a refusal is fine when the service runs.
startService ==
  /\ At("startService") /\ NoFault /\ SendStart
  /\ IF CanStart \/ svc = "running" THEN Done ELSE Failed
  /\ UNCHANGED <<doomed, own, host>>

TryStart ==
  /\ At("tryStart") /\ SendStart /\ Done
  /\ UNCHANGED <<doomed, own, host, faults>>

\* waitRunning: up and staying up for the whole window.
waitRunning ==
  /\ At("selfTest")
  /\ \/ svc = "running" /\ NoFault /\ Done
     \/ svc \in {"absent", "stopped"} /\ NoFault /\ Failed
     \/ svc \in Pending /\ Fault("slow") /\ Failed
  /\ UNCHANGED <<svcVars, host>>

\* recoverAgentSnapshot: a directory that was renamed aside comes back, beside
\* one that exists its snapshot goes.
Recover ==
  /\ At("recover") /\ Done
  /\ tree' = IF snap # "absent" /\ tree \in {"absent", "half"} THEN snap ELSE tree
  /\ snap' = "absent"
  /\ UNCHANGED <<svcVars, env, agents, kind, faults>>

\* snapshotAgentPayload renames bin and externals; a directory with an open file
\* stays, and when it is the second one the first is not brought back.
Snapshot ==
  /\ At("snapshot") /\ UNCHANGED cmd
  /\ IF agents = {}
     THEN tree' = "absent" /\ snap' = tree /\ todo' = Swap /\ UNCHANGED result
     ELSE /\ tree' \in {tree, "half"} /\ snap' = (IF tree' = "half" THEN tree ELSE "absent")
          /\ todo' = <<"tryStart">> /\ result' = "error"
  /\ UNCHANGED <<svcVars, env, agents, kind, faults>>

Discard ==
  /\ At("discard") /\ snap' = "absent" /\ Done
  /\ UNCHANGED <<svcVars, env, agents, tree, kind, faults>>

\* restoreAgentPayload, under the same locks.
Restore ==
  /\ At("restore") /\ todo' = Tail(todo) /\ UNCHANGED cmd
  /\ IF agents = {} THEN tree' = (IF snap = "absent" THEN tree ELSE snap) /\ snap' = "absent" /\ UNCHANGED result
     ELSE tree' = "partial" /\ UNCHANGED snap /\ result' = "down"
  /\ UNCHANGED <<svcVars, env, agents, kind, faults>>

---------------------------------------------------------------------------
(* The SCM and the processes                                               *)

ScmReady ==
  /\ svc = "startPending" /\ svc' = "running" /\ own' = NoId
  /\ UNCHANGED <<doomed, penv, host, cmd, todo, result, faults>>

\* A persistent runner's service process ends when it was told to; what it has
\* started may take longer.
ScmStopped ==
  /\ svc = "stopPending" /\ kind = "runner" /\ ProcessGone
  /\ UNCHANGED <<penv, host, cmd, todo, result, faults>>

SpawnAgent(p) ==
  /\ kind = "runner" /\ svc = "running" /\ own = NoId /\ p \notin agents
  /\ own' = p /\ agents' = agents \cup {p}
  /\ UNCHANGED <<svc, doomed, penv, env, tree, snap, kind, cmd, todo, result, faults>>

AgentExits(p) ==
  /\ kind = "runner" /\ p \in agents /\ p # own
  /\ agents' = agents \ {p}
  /\ UNCHANGED <<svcVars, env, tree, snap, kind, cmd, todo, result, faults>>

\* The runner's service dies: a release that does not work, or a kill.
ServiceDies ==
  /\ kind = "runner" /\ svc = "running" /\ Fault("crash") /\ ProcessGone
  /\ UNCHANGED <<penv, host, cmd, todo, result>>

\* The host goes down, a command with it, and starts its services again.
Boot ==
  /\ Fault("boot") /\ agents' = {} /\ own' = NoId
  /\ todo' = <<>> /\ result' = "none" /\ UNCHANGED cmd
  /\ svc' = IF doomed \/ svc = "absent" THEN "absent"
            ELSE IF kind = "runner" /\ tree \notin {"old", "new"} THEN "stopped" ELSE "startPending"
  /\ doomed' = FALSE /\ penv' = env
  /\ UNCHANGED <<env, tree, snap, kind>>

ScmSteps ==
  \/ Stop \/ WaitStopped \/ WaitGone \/ Delete \/ KillAgents \/ RemoveTree \/ Extract
  \/ Configure \/ writeServiceEnvironment \/ waitServiceRunning \/ RequestStop \/ StopSettled
  \/ startService \/ TryStart \/ waitRunning \/ Recover \/ Snapshot \/ Discard \/ Restore
=============================================================================
