---------------------------- MODULE EphemeralLane ----------------------------
(***************************************************************************)
(* The ephemeral runner lanes of srm, and everything that writes their     *)
(* state.                                                                  *)
(*                                                                         *)
(* A lane is one slot of one host: a systemd unit (Restart=always) whose   *)
(* ExecStart runs Manager.RunCycle once.  A cycle reaps the registration   *)
(* an earlier cycle left behind, mints a fresh single-use JIT registration *)
(* on GitHub, records its id in the lane's jit-id file, wipes the          *)
(* workspace, runs the GitHub agent for one job and settles the            *)
(* registration.  Operators on the same host concurrently create, destroy  *)
(* and recreate lanes and reap ghosts (srm reconcile --reap-ephemeral).    *)
(*                                                                         *)
(* Steps are cut where another process can be seen to interleave: at every *)
(* GitHub call, every systemctl call and every access to jit-id.           *)
(***************************************************************************)
EXTENDS Integers, FiniteSets

CONSTANTS
  Lanes,      \* the lanes of the fleet: one slot of one host each
  Ids,        \* the registration ids GitHub hands out
  NoId,       \* PendingJIT's 0: no id recorded
  NoLane,     \* an operator that works on no lane
  Owner,      \* [Ids -> Lanes]: ids are opaque, so the lane an id is handed
              \* to is fixed beforehand
  HostOf,     \* [Lanes -> host]
  SlotOf,     \* [Lanes -> slot number]: the slot part of the unit's name and
              \* of every registration name the lane mints (no host in either)
  Operators,  \* srm command invocations; each may run one command after another
  OpHost,     \* [Operators -> host]
  Kinds,      \* the commands operators run
  Faults,     \* the kinds of fault the environment injects
  MaxFaults   \* how many faults one behaviour may contain

FaultKinds == {"crash", "api", "record", "clear", "reset"}
OpKinds    == {"create", "destroy", "recreate", "reap"}

ASSUME LaneConstants ==
  /\ NoId \notin Ids
  /\ NoLane \notin Lanes
  /\ Owner \in [Ids -> Lanes]
  /\ DOMAIN HostOf = Lanes
  /\ SlotOf \in [Lanes -> Nat]
  /\ DOMAIN OpHost = Operators
  /\ Kinds \subseteq OpKinds
  /\ Faults \subseteq FaultKinds
  /\ MaxFaults \in Nat

VARIABLES
  reg,      \* GitHub: the state of every registration
  jitId,    \* the jit-id file of every lane (NoId: absent or empty)
  params,   \* does the lane's jit-params file exist?
  unit,     \* the lane's unit file and its enablement
  slate,    \* the per-job layer of the lane's tree (_work, _home, _diag, ...)
  pc,       \* the step a lane's RunCycle process is at ("down": no process)
  cur,      \* the id that process works on
  opPc,     \* the step an operator is at
  opKind, opLane,
  opId,     \* the registration id an operator has read
  opRows,   \* the offline rows of a reap's GitHub listing still to be handled
  faults    \* faults injected so far

laneVars == <<reg, jitId, params, unit, slate, pc, cur>>
opVars   == <<opPc, opKind, opLane, opId, opRows>>
vars     == <<laneVars, opVars, faults>>

CyclePcs == {"down", "begin", "reap", "reapClear", "mint", "record", "undo",
             "reset", "agent", "settle", "settleDelete", "settleClear"}
OpPcs    == {"idle", "delete", "disable", "unlink", "wipe", "download",
             "tree", "enable", "inspect", "pending", "reap"}

\* Registrations, files, units and the steps of cycles and operators (RunCycle,
\* maybeReapGhost) have values of their kind.
TypeOK ==
  /\ reg    \in [Ids -> {"none", "offline", "idle", "busy"}]
  /\ jitId  \in [Lanes -> Ids \cup {NoId}]
  /\ params \in [Lanes -> BOOLEAN]
  /\ unit   \in [Lanes -> {"absent", "disabled", "enabled"}]
  /\ slate  \in [Lanes -> {"clean", "dirty"}]
  /\ pc     \in [Lanes -> CyclePcs]
  /\ cur    \in [Lanes -> Ids \cup {NoId}]
  /\ opPc   \in [Operators -> OpPcs]
  /\ opKind \in [Operators -> OpKinds \cup {"none"}]
  /\ opLane \in [Operators -> Lanes \cup {NoLane}]
  /\ opId   \in [Operators -> Ids \cup {NoId}]
  /\ opRows \in [Operators -> SUBSET Ids]
  /\ faults \in 0..MaxFaults

-----------------------------------------------------------------------------
(* The environment *)

\* A fault of kind k happens in this step; without it the step is fault-free.
Fault(k) ==
  /\ k \in Faults
  /\ faults < MaxFaults
  /\ faults' = faults + 1

NoFault == UNCHANGED faults

\* GitHub never issues an id twice.  An id that is deregistered and that no
\* process or file refers to cannot be told from one never issued, so it
\* stands for a new one and the id space stays finite.
Fresh(id) ==
  /\ reg[id] = "none"
  /\ \A l \in Lanes : id # jitId[l] /\ id # cur[l]
  /\ \A o \in Operators : id # opId[o] /\ id \notin opRows[o]

\* DELETE /actions/runners/{id} succeeds, or answers 404: either way it is gone.
DeletedRunner(id) == reg' = [reg EXCEPT ![id] = "none"]

\* The call fails for the caller (a 5xx, a timeout, a refusal because the
\* runner is busy); a timed-out request may still have been carried out.
DeleteRunnerFails(id) == UNCHANGED reg \/ DeletedRunner(id)

\* DeleteRunner from a caller that treats success, 404 and error alike.
DeleteRunnerIgnored(id) ==
  \/ NoFault /\ DeletedRunner(id)
  \/ Fault("api") /\ DeleteRunnerFails(id)

\* Mutant: KillMode=process, which would leave the agent running.
KillCycleMainOnly(l) ==
  /\ pc'  = [pc EXCEPT ![l] = "down"]
  /\ cur' = [cur EXCEPT ![l] = NoId]
  /\ UNCHANGED reg

\* The lane's process group is gone (KillMode=mixed: the srm main process has
\* no SIGTERM handler, and what it leaves in the cgroup is killed with it).  A
\* connected agent's registration goes offline; nothing deregisters it.
KillCycle(l) ==
  /\ pc'  = [pc EXCEPT ![l] = "down"]
  /\ cur' = [cur EXCEPT ![l] = NoId]
  /\ reg' = [id \in Ids |->
               IF pc[l] = "agent" /\ id = cur[l] /\ reg[id] \in {"idle", "busy"}
               THEN "offline" ELSE reg[id]]

\* The process exits by itself: systemd will start the next cycle.
EndCycle(l) ==
  /\ pc'  = [pc EXCEPT ![l] = "down"]
  /\ cur' = [cur EXCEPT ![l] = NoId]

Goto(l, step) == pc[l] # step /\ pc' = [pc EXCEPT ![l] = step]

-----------------------------------------------------------------------------
(* RunCycle: one job cycle of a lane *)

\* systemd starts the cycle of an enabled lane: enable --now, a boot, or
\* Restart=always RestartSec=3 after the previous cycle's process ended.
StartCycle(l) ==
  /\ pc[l] = "down"
  /\ unit[l] = "enabled"
  /\ Goto(l, "begin")
  /\ NoFault
  /\ UNCHANGED <<reg, jitId, params, unit, slate, cur, opVars>>

\* Mutant: a cycle gives up when it finds a ghost.
ReadPendingBailsOut(l) ==
  /\ pc[l] = "begin"
  /\ \/ jitId[l] = NoId /\ NoFault /\ Goto(l, "mint") /\ UNCHANGED cur
     \/ jitId[l] # NoId /\ NoFault /\ EndCycle(l)
     \/ Fault("api") /\ EndCycle(l)
  /\ UNCHANGED <<reg, jitId, params, unit, slate, opVars>>

\* requireOrg and client, then PendingJIT: is there a ghost to reap?
ReadPending(l) ==
  /\ pc[l] = "begin"
  /\ \/ /\ NoFault
        /\ cur' = [cur EXCEPT ![l] = jitId[l]]
        /\ Goto(l, IF jitId[l] = NoId THEN "mint" ELSE "reap")
     \/ Fault("api") /\ EndCycle(l)
  /\ UNCHANGED <<reg, jitId, params, unit, slate, opVars>>

\* _ = c.DeleteRunner(ctx, org, stale)
ReapStale(l) ==
  /\ pc[l] = "reap"
  /\ DeleteRunnerIgnored(cur[l])
  /\ Goto(l, "reapClear")
  /\ UNCHANGED <<jitId, params, unit, slate, cur, opVars>>

\* _ = orch.ClearJIT(org, slot)
ClearStale(l) ==
  /\ pc[l] = "reapClear"
  /\ \/ NoFault /\ jitId' = [jitId EXCEPT ![l] = NoId]
     \/ Fault("clear") /\ UNCHANGED jitId
  /\ cur' = [cur EXCEPT ![l] = NoId]
  /\ Goto(l, "mint")
  /\ UNCHANGED <<reg, params, unit, slate, opVars>>

\* EphemeralMintParams and GenerateJITConfig.  Either may fail, which ends the
\* cycle; a mint whose answer is lost has still created the registration.
MintJIT(l) ==
  /\ pc[l] = "mint"
  /\ \/ /\ params[l]
        /\ NoFault
        /\ \E id \in Ids :
             /\ Owner[id] = l
             /\ Fresh(id)
             /\ reg' = [reg EXCEPT ![id] = "offline"]
             /\ cur' = [cur EXCEPT ![l] = id]
        /\ Goto(l, "record")
     \/ ~params[l] /\ NoFault /\ EndCycle(l) /\ UNCHANGED reg
     \/ /\ params[l]
        /\ Fault("api")
        /\ EndCycle(l)
        /\ \/ UNCHANGED reg
           \/ \E id \in Ids : /\ Owner[id] = l
                              /\ Fresh(id)
                              /\ reg' = [reg EXCEPT ![id] = "offline"]
  /\ UNCHANGED <<jitId, params, unit, slate, opVars>>

\* RecordJIT: truncate, write, fsync.  A failing one leaves the file as it
\* was, truncated, or written but not synced.
RecordJIT(l) ==
  /\ pc[l] = "record"
  /\ \/ /\ NoFault
        /\ jitId' = [jitId EXCEPT ![l] = cur[l]]
        /\ Goto(l, "reset")
     \/ /\ Fault("record")
        /\ \E left \in {jitId[l], NoId, cur[l]} : jitId' = [jitId EXCEPT ![l] = left]
        /\ Goto(l, "undo")
  /\ UNCHANGED <<reg, params, unit, slate, cur, opVars>>

\* The id could not be recorded: give the registration up and fail the cycle.
UndoMint(l) ==
  /\ pc[l] = "undo"
  /\ DeleteRunnerIgnored(cur[l])
  /\ EndCycle(l)
  /\ UNCHANGED <<jitId, params, unit, slate, opVars>>

\* Mutant: the workspace of the last job is kept.
ResetNothing(l) ==
  /\ pc[l] = "reset"
  /\ NoFault
  /\ Goto(l, "agent")
  /\ UNCHANGED <<reg, jitId, params, unit, slate, cur, opVars>>

\* RunJob up to run.sh: wipe the per-job layer of the tree, then start the
\* agent; a wipe or a set-up step that fails returns before any job ran.
ResetWorkspace(l) ==
  /\ pc[l] = "reset"
  /\ \/ NoFault /\ slate' = [slate EXCEPT ![l] = "clean"] /\ Goto(l, "agent")
     \/ Fault("reset") /\ UNCHANGED slate /\ Goto(l, "settle")
  /\ UNCHANGED <<reg, jitId, params, unit, cur, opVars>>

\* run.sh --jitconfig connects to GitHub.
AgentConnects(l) ==
  /\ pc[l] = "agent"
  /\ reg[cur[l]] = "offline"
  /\ reg' = [reg EXCEPT ![cur[l]] = "idle"]
  /\ NoFault
  /\ UNCHANGED <<jitId, params, unit, slate, pc, cur, opVars>>

\* GitHub dispatches a job to the lane, which dirties its workspace.
AgentTakesJob(l) ==
  /\ pc[l] = "agent"
  /\ reg[cur[l]] = "idle"
  /\ reg' = [reg EXCEPT ![cur[l]] = "busy"]
  /\ slate' = [slate EXCEPT ![l] = "dirty"]
  /\ NoFault
  /\ UNCHANGED <<jitId, params, unit, pc, cur, opVars>>

\* The job ends: a JIT registration is good for one job and removes itself.
AgentFinishesJob(l) ==
  /\ pc[l] = "agent"
  /\ reg[cur[l]] = "busy"
  /\ reg' = [reg EXCEPT ![cur[l]] = "none"]
  /\ Goto(l, "settle")
  /\ NoFault
  /\ UNCHANGED <<jitId, params, unit, slate, cur, opVars>>

\* run.sh exits without that: never configured, cut off by a deregistration,
\* or dead in the middle of a job.
AgentExits(l) ==
  /\ pc[l] = "agent"
  /\ reg' = [reg EXCEPT ![cur[l]] = IF @ = "none" THEN "none" ELSE "offline"]
  /\ Goto(l, "settle")
  /\ NoFault
  /\ UNCHANGED <<jitId, params, unit, slate, cur, opVars>>

\* Mutant: the exit of run.sh is trusted and the record cleared.
SettleTrustsExit(l) ==
  /\ pc[l] = "settle"
  /\ NoFault
  /\ Goto(l, "settleClear")
  /\ UNCHANGED <<reg, jitId, params, unit, slate, cur, opVars>>

\* GetRunner decides the registration's fate: 404, still there, or no answer.
Settle(l) ==
  /\ pc[l] = "settle"
  /\ \/ NoFault /\ reg[cur[l]] = "none" /\ Goto(l, "settleClear") /\ UNCHANGED cur
     \/ NoFault /\ reg[cur[l]] # "none" /\ Goto(l, "settleDelete") /\ UNCHANGED cur
     \/ Fault("api") /\ EndCycle(l)
  /\ UNCHANGED <<reg, jitId, params, unit, slate, opVars>>

\* Still registered: deregister it, and clear the record only if that worked.
SettleDelete(l) ==
  /\ pc[l] = "settleDelete"
  /\ \/ NoFault /\ DeletedRunner(cur[l]) /\ Goto(l, "settleClear") /\ UNCHANGED cur
     \/ Fault("api") /\ DeleteRunnerFails(cur[l]) /\ EndCycle(l)
  /\ UNCHANGED <<jitId, params, unit, slate, opVars>>

SettleClear(l) ==
  /\ pc[l] = "settleClear"
  /\ \/ NoFault /\ jitId' = [jitId EXCEPT ![l] = NoId]
     \/ Fault("clear") /\ UNCHANGED jitId
  /\ EndCycle(l)
  /\ UNCHANGED <<reg, params, unit, slate, opVars>>

\* The cycle dies anywhere: OOM kill, power loss, systemctl kill.
Crash(l) ==
  /\ pc[l] # "down"
  /\ Fault("crash")
  /\ KillCycle(l)
  /\ UNCHANGED <<jitId, params, unit, slate, opVars>>

CycleStep(l) ==
  \/ ReadPending(l) \/ ReapStale(l) \/ ClearStale(l) \/ MintJIT(l)
  \/ RecordJIT(l) \/ UndoMint(l) \/ ResetWorkspace(l)
  \/ Settle(l) \/ SettleDelete(l) \/ SettleClear(l)

AgentStep(l) ==
  AgentConnects(l) \/ AgentTakesJob(l) \/ AgentFinishesJob(l) \/ AgentExits(l)

-----------------------------------------------------------------------------
(* Operator commands *)

OpGoto(o, step) == opPc' = [opPc EXCEPT ![o] = step]

Begin(o, kind, l, step) ==
  /\ kind \in Kinds
  /\ opPc[o] = "idle"
  /\ OpGoto(o, step)
  /\ opKind' = [opKind EXCEPT ![o] = kind]
  /\ opLane' = [opLane EXCEPT ![o] = l]

\* The command returns.
EndOp(o) ==
  /\ OpGoto(o, "idle")
  /\ opKind' = [opKind EXCEPT ![o] = "none"]
  /\ opLane' = [opLane EXCEPT ![o] = NoLane]
  /\ opId'   = [opId EXCEPT ![o] = NoId]
  /\ opRows' = [opRows EXCEPT ![o] = {}]

LocalLanes(o) == {l \in Lanes : HostOf[l] = OpHost[o]}

\* CreateEphemeralRunners: occupiedEphemeralSlots lists the host's units, and
\* allocateEphemeralSlots takes the lowest free slot number.
CreateLane(o) ==
  /\ LET free == {l \in LocalLanes(o) : unit[l] = "absent"}
     IN \E l \in free : /\ \A m \in free : SlotOf[l] <= SlotOf[m]
                        /\ Begin(o, "create", l, "disable")
  /\ NoFault
  /\ UNCHANGED <<laneVars, opId, opRows>>

\* DestroyEphemeralSlot, and RecreateEphemeralSlot which begins with it: read
\* PendingJIT; an id means there is a registration to remove first.
DestroyLane(o) ==
  /\ \E l \in LocalLanes(o), kind \in {"destroy", "recreate"} :
       /\ Begin(o, kind, l, IF jitId[l] = NoId THEN "disable" ELSE "delete")
       /\ opId' = [opId EXCEPT ![o] = jitId[l]]
  /\ NoFault
  /\ UNCHANGED <<laneVars, opRows>>

\* Deregister it: no client skips the call, an error other than 404 aborts.
DestroyDeregister(o) ==
  /\ opPc[o] = "delete"
  /\ \/ /\ NoFault
        /\ DeletedRunner(opId[o])
        /\ OpGoto(o, "disable")
        /\ UNCHANGED <<opKind, opLane, opId, opRows>>
     \/ /\ Fault("api")
        /\ UNCHANGED reg
        /\ OpGoto(o, "disable")
        /\ UNCHANGED <<opKind, opLane, opId, opRows>>
     \/ Fault("api") /\ DeleteRunnerFails(opId[o]) /\ EndOp(o)
  /\ UNCHANGED <<jitId, params, unit, slate, pc, cur>>

\* Mutant: systemctl stop leaves the unit enabled.
StopUnit(o) ==
  /\ opPc[o] = "disable"
  /\ KillCycle(opLane[o])
  /\ OpGoto(o, "unlink")
  /\ NoFault
  /\ UNCHANGED <<jitId, params, unit, slate, opKind, opLane, opId, opRows>>

\* teardownEphemeral: systemctl disable --now stops the running cycle ...
DisableUnit(o) ==
  /\ opPc[o] = "disable"
  /\ LET l == opLane[o] IN
       /\ KillCycle(l)
       /\ unit' = [unit EXCEPT ![l] = IF @ = "absent" THEN "absent" ELSE "disabled"]
  /\ OpGoto(o, "unlink")
  /\ NoFault
  /\ UNCHANGED <<jitId, params, slate, opKind, opLane, opId, opRows>>

\* ... and the unit file goes.  Ensure goes on to rebuild the tree, Remove to
\* wipe the control directory.
UnlinkUnit(o) ==
  /\ opPc[o] = "unlink"
  /\ unit' = [unit EXCEPT ![opLane[o]] = "absent"]
  /\ OpGoto(o, IF opKind[o] = "create" THEN "tree" ELSE "wipe")
  /\ NoFault
  /\ UNCHANGED <<reg, jitId, params, slate, pc, cur, opKind, opLane, opId, opRows>>

\* RemoveEphemeralSlot: the control directory (jit-id, jit-params) and the
\* tree go.  A recreate then fetches the agent and goes on as a create does.
WipeLane(o) ==
  /\ opPc[o] = "wipe"
  /\ LET l == opLane[o] IN
       /\ jitId'  = [jitId EXCEPT ![l] = NoId]
       /\ params' = [params EXCEPT ![l] = FALSE]
       /\ slate'  = [slate EXCEPT ![l] = "clean"]
  /\ IF opKind[o] = "recreate"
     THEN OpGoto(o, "download") /\ UNCHANGED <<opKind, opLane, opId, opRows>>
     ELSE EndOp(o)
  /\ NoFault
  /\ UNCHANGED <<reg, unit, pc, cur>>

\* agentDownload for a recreate: its failure ends the command with the lane gone.
FetchAgent(o) ==
  /\ opPc[o] = "download"
  /\ \/ /\ NoFault
        /\ OpGoto(o, "disable")
        /\ opKind' = [opKind EXCEPT ![o] = "create"]
        /\ UNCHANGED <<opLane, opId, opRows>>
     \/ Fault("api") /\ EndOp(o)
  /\ UNCHANGED laneVars

\* EnsureEphemeralSlot: a new tree, then jit-params ...
BuildTree(o) ==
  /\ opPc[o] = "tree"
  /\ slate'  = [slate EXCEPT ![opLane[o]] = "clean"]
  /\ params' = [params EXCEPT ![opLane[o]] = TRUE]
  /\ OpGoto(o, "enable")
  /\ NoFault
  /\ UNCHANGED <<reg, jitId, unit, pc, cur, opKind, opLane, opId, opRows>>

\* ... and the unit, enabled and started.
EnableUnit(o) ==
  /\ opPc[o] = "enable"
  /\ unit' = [unit EXCEPT ![opLane[o]] = "enabled"]
  /\ EndOp(o)
  /\ NoFault
  /\ UNCHANGED <<reg, jitId, params, slate, pc, cur>>

\* Reconcile with reapEphemeral: ListAllRunners, of which the offline ephemeral
\* rows are candidates.
ListGhosts(o) ==
  /\ LET rows == {id \in Ids : reg[id] = "offline"} IN
       /\ rows # {}
       /\ Begin(o, "reap", NoLane, "inspect")
       /\ opRows' = [opRows EXCEPT ![o] = rows]
  /\ NoFault
  /\ UNCHANGED <<laneVars, opId>>

\* The row is dealt with: go on to the next, or return.
NextRow(o, id) ==
  IF opRows[o] = {id} THEN EndOp(o)
  ELSE /\ OpGoto(o, "inspect")
       /\ opRows' = [opRows EXCEPT ![o] = @ \ {id}]
       /\ opId'   = [opId EXCEPT ![o] = NoId]
       /\ opLane' = [opLane EXCEPT ![o] = NoLane]
       /\ UNCHANGED opKind

\* maybeReapGhost: does this host have the slot the row's name carries, and is
\* its cycle running?
InspectGhost(o) ==
  /\ opPc[o] = "inspect"
  /\ \E id \in opRows[o] :
       LET here == {l \in LocalLanes(o) : /\ SlotOf[l] = SlotOf[Owner[id]]
                                          /\ unit[l] # "absent"}
       IN \/ here = {} /\ NextRow(o, id)
          \/ \E l \in here :
               /\ opLane' = [opLane EXCEPT ![o] = l]
               /\ opId'   = [opId EXCEPT ![o] = id]
               /\ OpGoto(o, IF pc[l] = "down" THEN "reap" ELSE "pending")
               /\ UNCHANGED <<opKind, opRows>>
  /\ NoFault
  /\ UNCHANGED laneVars

\* Mutant: an absent record does not spare the row.
CheckPendingRecordedOnly(o) ==
  /\ opPc[o] = "pending"
  /\ IF jitId[opLane[o]] = opId[o]
     THEN NextRow(o, opId[o])
     ELSE OpGoto(o, "reap") /\ UNCHANGED <<opKind, opLane, opId, opRows>>
  /\ NoFault
  /\ UNCHANGED laneVars

\* A running cycle: spare its recorded id, and every row while none is recorded.
CheckPending(o) ==
  /\ opPc[o] = "pending"
  /\ IF jitId[opLane[o]] \in {NoId, opId[o]}
     THEN NextRow(o, opId[o])
     ELSE OpGoto(o, "reap") /\ UNCHANGED <<opKind, opLane, opId, opRows>>
  /\ NoFault
  /\ UNCHANGED laneVars

\* reapGhost: the one GitHub delete of a reconcile.
ReapGhost(o) ==
  /\ opPc[o] = "reap"
  /\ DeleteRunnerIgnored(opId[o])
  /\ NextRow(o, opId[o])
  /\ UNCHANGED <<jitId, params, unit, slate, pc, cur>>

\* The command ends between two steps: interrupted (Ctrl-C, a lost session), or
\* returning the error of a local step (mkdir, tar, chown, systemctl).
AbortOp(o) ==
  /\ opPc[o] # "idle"
  /\ Fault("crash")
  /\ EndOp(o)
  /\ UNCHANGED laneVars

OperatorStep(o) ==
  \/ CreateLane(o) \/ DestroyLane(o) \/ DestroyDeregister(o) \/ DisableUnit(o)
  \/ UnlinkUnit(o) \/ WipeLane(o) \/ FetchAgent(o) \/ BuildTree(o) \/ EnableUnit(o)
  \/ ListGhosts(o) \/ InspectGhost(o) \/ CheckPending(o) \/ ReapGhost(o)
  \/ AbortOp(o)

-----------------------------------------------------------------------------
\* Every lane is freshly created: its unit enabled, its first cycle not begun.
Init ==
  /\ reg    = [id \in Ids |-> "none"]
  /\ jitId  = [l \in Lanes |-> NoId]
  /\ params = [l \in Lanes |-> TRUE]
  /\ unit   = [l \in Lanes |-> "enabled"]
  /\ slate  = [l \in Lanes |-> "clean"]
  /\ pc     = [l \in Lanes |-> "down"]
  /\ cur    = [l \in Lanes |-> NoId]
  /\ opPc   = [o \in Operators |-> "idle"]
  /\ opKind = [o \in Operators |-> "none"]
  /\ opLane = [o \in Operators |-> NoLane]
  /\ opId   = [o \in Operators |-> NoId]
  /\ opRows = [o \in Operators |-> {}]
  /\ faults = 0

Next ==
  \/ \E l \in Lanes : StartCycle(l) \/ CycleStep(l) \/ AgentStep(l) \/ Crash(l)
  \/ \E o \in Operators : OperatorStep(o)

Spec == Init /\ [][Next]_vars

-----------------------------------------------------------------------------
(* Properties *)

\* The registration a cycle has minted and still means to run, or is running.
Live(id) ==
  /\ cur[Owner[id]] = id
  /\ pc[Owner[id]] \in {"record", "reset", "agent"}

\* maybeReapGhost: "a false positive here would kill an in-flight CI job".  A
\* reap that is about to deregister a row never has the registration of a
\* cycle in flight in its hands, however old its listing has become.
ReapSafe ==
  \A o \in Operators : opPc[o] = "reap" => ~Live(opId[o])

\* A registration GitHub shows online belongs to a running agent of its lane:
\* no crash, teardown, undo or settlement leaves one that would be given a
\* job nobody runs.
OnlineHasAgent ==
  \A id \in Ids :
    reg[id] \in {"idle", "busy"} =>
      pc[Owner[id]] = "agent" /\ cur[Owner[id]] = id

\* Uninstall: "disables before stopping, so systemd can't respawn the cycle
\* mid-teardown".  From the disable to the end of the wipe or the rebuild the
\* lane has no process whose files could be pulled from under it.
DownWhileTornDown ==
  \A o \in Operators :
    opPc[o] \in {"unlink", "wipe", "tree", "enable"} => pc[opLane[o]] = "down"

\* Registrations that exist on GitHub while neither the lane's jit-id file nor
\* its process knows their id: nothing on the host will ever settle them.
Orphans ==
  {id \in Ids : /\ reg[id] # "none"
                /\ jitId[Owner[id]] # id
                /\ cur[Owner[id]] # id}

\* RecordJIT: "a crash/reboot mid-job leaves a reapable id".  Every orphan has
\* cost at least one fault of its own (a crash or a lost answer in the mint
\* window, a failed undo, a failed reap); a faultless history leaves none, and
\* no single fault leaves two.  A destroy may leave one without any fault.
OrphansBounded == Cardinality(Orphans) <= faults

\* RunCycle: "clearing now would orphan the ghost".  The record of an id goes away
\* only once the registration is gone, or a newer id is written over it.
ClearsOnlyWhenGone ==
  \A l \in Lanes : jitId[l] # NoId /\ jitId'[l] = NoId => reg[jitId[l]] = "none"

\* What a lane promises to the jobs it is given (module JobLane).
Stage(l) ==
  CASE pc[l] = "agent" /\ cur[l] # NoId /\ reg[cur[l]] = "busy" -> "working"
    [] pc[l] = "agent" /\ cur[l] # NoId /\ reg[cur[l]] = "idle" /\ slate[l] = "clean" -> "ready"
    [] OTHER -> "empty"

Job == INSTANCE JobLane WITH stage <- [l \in Lanes |-> Stage(l)]

\* Every lane serves jobs as JobLane says: each from a clean workspace, one
\* per registration and per cycle, crashes and operators included.
OneCleanJob == Job!Spec
=============================================================================
