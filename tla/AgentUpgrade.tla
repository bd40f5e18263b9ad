----------------------------- MODULE AgentUpgrade -----------------------------
(***************************************************************************)
(* UpgradeRunnerAgent: the in-place swap of a persistent runner's agent.   *)
(*                                                                         *)
(* The payload of an agent is two directories, bin and externals.  An      *)
(* upgrade stops the unit, renames both aside (<dir>.srm-prev), extracts   *)
(* the new ones, starts the unit and watches it; a failure renames the     *)
(* snapshot back.  The swap is a sequence of renames and removals on two   *)
(* directories, any of which may fail, and srm itself may be killed        *)
(* between any two of them or inside one; the next upgrade of the runner   *)
(* begins by recovering what such a crash left.                            *)
(***************************************************************************)
EXTENDS Integers, Sequences

CONSTANTS
  Versions,   \* agent versions
  Healthy,    \* those whose agent stays up when it is started
  First,      \* the version the runner was created with
  Faults,     \* the kinds of fault that may happen
  MaxFaults   \* how many faults one behaviour may contain

FaultKinds == {"crash", "fetch", "stop", "rename", "extract", "start", "selftest"}

ASSUME UpgradeConstants ==
  /\ Healthy \subseteq Versions
  /\ First \in Healthy
  /\ Versions \cap {"absent", "torn"} = {}
  /\ Faults \subseteq FaultKinds
  /\ MaxFaults \in Nat

agentPayloadDirs == <<"bin", "externals">>
Dirs     == {"bin", "externals"}
Contents == Versions \cup {"absent", "torn"}   \* torn: partly written or removed

VARIABLES
  live,     \* the contents of every payload directory
  bak,      \* the contents of its snapshot, <dir>.srm-prev
  svc,      \* has systemd the unit started?
  pc,       \* the step the upgrade is at ("idle": none runs)
  idx,      \* the directory a loop over agentPayloadDirs is at
  target,   \* the version being installed
  prior,    \* history: the payload when the upgrade was requested
  result,   \* what the last upgrade returned
  faults    \* faults injected so far

vars == <<live, bak, svc, pc, idx, target, prior, result, faults>>

Pcs == {"idle", "fetch", "recover", "stop", "snapshot", "bringBack", "extract",
        "start", "selftest", "rollback", "restore", "restart", "restartDown",
        "discard"}

\* Payloads and snapshots of known versions, a step of the upgrade, a counted fault
\* (UpgradeRunnerAgent).
TypeOK ==
  /\ live   \in [Dirs -> Contents]
  /\ bak    \in [Dirs -> Contents]
  /\ svc    \in {"stopped", "started"}
  /\ pc     \in Pcs
  /\ idx    \in 1..2
  /\ target \in Versions
  /\ prior  \in [Dirs -> Contents]
  /\ result \in {"none", "upgraded", "rolledBack", "down", "crashed"}
  /\ faults \in 0..MaxFaults

Dir == agentPayloadDirs[idx]

All(v) == [d \in Dirs |-> v]

Whole == \E v \in Versions : live = All(v)

Fault(k) ==
  /\ k \in Faults
  /\ faults < MaxFaults
  /\ faults' = faults + 1

NoFault == UNCHANGED faults

\* A loop over agentPayloadDirs goes on with the next directory, or ends.
NextDir(end) ==
  IF idx = 1 THEN idx' = 2 /\ UNCHANGED pc ELSE idx' = 1 /\ pc' = end

Goto(step) == pc' = step /\ idx' = 1

\* UpgradeRunnerAgent returns: "upgraded" (nil), "down" (an error that wraps
\* ErrRunnerDown) or "rolledBack" (any other error: res.RolledBack is set from
\* the absence of the sentinel alone).
Return(r) == Goto("idle") /\ result' = r

-----------------------------------------------------------------------------
\* An upgrade, or a rollback to an older version, of this runner is requested.
Request(v) ==
  /\ pc = "idle"
  /\ Goto("fetch")
  /\ target' = v
  /\ prior' = live
  /\ result' = "none"
  /\ NoFault
  /\ UNCHANGED <<live, bak, svc>>

\* The unit, .runner and checksum checks and ensureTarball, all before the tree
\* is touched.
Fetch ==
  /\ pc = "fetch"
  /\ \/ NoFault /\ Goto("recover") /\ UNCHANGED result
     \/ Fault("fetch") /\ Return("rolledBack")
  /\ UNCHANGED <<live, bak, svc, target, prior>>

\* Mutant: a leftover snapshot is always discarded.
RecoverDiscards ==
  /\ pc = "recover"
  /\ NoFault
  /\ bak' = [bak EXCEPT ![Dir] = "absent"]
  /\ NextDir("stop")
  /\ UNCHANGED <<live, svc, target, prior, result>>

\* recoverAgentSnapshot, one directory: a missing one gets its snapshot back
\* (the rename's error is ignored), any other leftover snapshot is removed.
RecoverDir ==
  /\ pc = "recover"
  /\ \/ /\ bak[Dir] = "absent"
        /\ NoFault
        /\ UNCHANGED <<live, bak>>
     \/ /\ bak[Dir] # "absent"
        /\ live[Dir] = "absent"
        /\ \/ /\ NoFault
              /\ live' = [live EXCEPT ![Dir] = bak[Dir]]
              /\ bak' = [bak EXCEPT ![Dir] = "absent"]
           \/ Fault("rename") /\ UNCHANGED <<live, bak>>
     \/ /\ bak[Dir] # "absent"
        /\ live[Dir] # "absent"
        /\ NoFault
        /\ bak' = [bak EXCEPT ![Dir] = "absent"]
        /\ UNCHANGED live
  /\ NextDir("stop")
  /\ UNCHANGED <<svc, target, prior, result>>

\* Mutant: the running agent is not stopped before its files are moved.
StopUnitSkipped ==
  /\ pc = "stop"
  /\ NoFault
  /\ Goto("snapshot")
  /\ UNCHANGED <<live, bak, svc, target, prior, result>>

\* systemctl stop, so that the running agent releases its binaries.
StopUnit ==
  /\ pc = "stop"
  /\ \/ NoFault /\ svc' = "stopped" /\ Goto("snapshot") /\ UNCHANGED result
     \/ Fault("stop") /\ Return("rolledBack") /\ UNCHANGED svc
  /\ UNCHANGED <<live, bak, target, prior>>

\* snapshotAgentPayload, one directory: clear a stale leftover, rename aside.
\* A rename that fails ends the loop and the upgrade.
SnapshotDir ==
  /\ pc = "snapshot"
  /\ \/ /\ NoFault
        /\ bak'  = [bak EXCEPT ![Dir] = live[Dir]]
        /\ live' = [live EXCEPT ![Dir] = "absent"]
        /\ NextDir("extract")
     \/ /\ live[Dir] # "absent"
        /\ Fault("rename")
        /\ bak' = [bak EXCEPT ![Dir] = "absent"]
        /\ Goto("bringBack")
        /\ UNCHANGED live
  /\ UNCHANGED <<svc, target, prior, result>>

\* The failed snapshot's way out: _ = systemctl start, then an error return.
BringBack ==
  /\ pc = "bringBack"
  /\ \/ NoFault /\ svc' = "started"
     \/ Fault("start") /\ UNCHANGED svc
  /\ Return("rolledBack")
  /\ UNCHANGED <<live, bak, target, prior>>

\* extractTarGz and chown: a failure leaves each directory missing, torn or new.
Extract ==
  /\ pc = "extract"
  /\ \/ NoFault /\ live' = All(target) /\ Goto("start")
     \/ /\ Fault("extract")
        /\ live' \in [Dirs -> {"absent", "torn", target}]
        /\ Goto("rollback")
  /\ UNCHANGED <<bak, svc, target, prior, result>>

\* writeHardening and systemctl start.
StartUnit ==
  /\ pc = "start"
  /\ \/ NoFault /\ svc' = "started" /\ Goto("selftest")
     \/ Fault("start") /\ UNCHANGED svc /\ Goto("rollback")
  /\ UNCHANGED <<live, bak, target, prior, result>>

\* Mutant: one is-active sample, which a unit passes the instant it forks.
SelfTestOneSample ==
  /\ pc = "selftest"
  /\ NoFault
  /\ Goto("discard")
  /\ UNCHANGED <<live, bak, svc, target, prior, result>>

\* waitActive: the unit has to stay up, without a restart, for the window.
SelfTest ==
  /\ pc = "selftest"
  /\ \/ NoFault /\ target \in Healthy /\ Goto("discard")
     \/ NoFault /\ target \notin Healthy /\ Goto("rollback")
     \/ Fault("selftest") /\ Goto("rollback")
  /\ UNCHANGED <<live, bak, svc, target, prior, result>>

\* The failed swap: _ = systemctl stop ...
RollbackStop ==
  /\ pc = "rollback"
  /\ Goto("restore")
  /\ \/ NoFault /\ svc' = "stopped"
     \/ Fault("stop") /\ UNCHANGED svc
  /\ UNCHANGED <<live, bak, target, prior, result>>

\* Mutant: rename onto a directory that is still there, which fails silently.
RestoreWithoutRemove ==
  /\ pc = "restore"
  /\ NoFault
  /\ IF live[Dir] = "absent"
     THEN live' = [live EXCEPT ![Dir] = bak[Dir]] /\ bak' = [bak EXCEPT ![Dir] = "absent"]
     ELSE UNCHANGED <<live, bak>>
  /\ NextDir("restart")
  /\ UNCHANGED <<svc, target, prior, result>>

\* ... restoreAgentPayload, one directory: a snapshot replaces what the swap
\* left; a rename that fails ends the loop with the directory removed ...
RestoreDir ==
  /\ pc = "restore"
  /\ \/ /\ bak[Dir] = "absent"
        /\ NoFault
        /\ NextDir("restart")
        /\ UNCHANGED <<live, bak>>
     \/ /\ bak[Dir] # "absent"
        /\ NoFault
        /\ live' = [live EXCEPT ![Dir] = bak[Dir]]
        /\ bak'  = [bak EXCEPT ![Dir] = "absent"]
        /\ NextDir("restart")
     \/ /\ bak[Dir] # "absent"
        /\ Fault("rename")
        /\ live' = [live EXCEPT ![Dir] = "absent"]
        /\ Goto("restartDown")
        /\ UNCHANGED bak
  /\ UNCHANGED <<svc, target, prior, result>>

\* ... and _ = systemctl start.  Only a failed restore is told as ErrRunnerDown.
Restart ==
  /\ pc \in {"restart", "restartDown"}
  /\ \/ NoFault /\ svc' = "started"
     \/ Fault("start") /\ UNCHANGED svc
  /\ Return(IF pc = "restartDown" THEN "down" ELSE "rolledBack")
  /\ UNCHANGED <<live, bak, target, prior>>

\* discardAgentSnapshot, one directory.
DiscardDir ==
  /\ pc = "discard"
  /\ bak' = [bak EXCEPT ![Dir] = "absent"]
  /\ IF idx = 1 THEN idx' = 2 /\ UNCHANGED <<pc, result>> ELSE Return("upgraded")
  /\ NoFault
  /\ UNCHANGED <<live, svc, target, prior>>

\* What a step that is cut in the middle leaves in the tree: an extraction any
\* part of the new payload, a removal a torn directory, a rename nothing.
CutShort ==
  \/ UNCHANGED <<live, bak>>
  \/ /\ pc = "extract"
     /\ live' \in [Dirs -> {"absent", "torn", target}]
     /\ UNCHANGED bak
  \/ /\ pc \in {"recover", "discard"}
     /\ bak[Dir] # "absent"
     /\ live[Dir] # "absent"
     /\ bak' = [bak EXCEPT ![Dir] = "torn"]
     /\ UNCHANGED live
  \/ /\ pc = "snapshot"
     /\ bak[Dir] # "absent"
     /\ \E b \in {"torn", "absent"} : bak' = [bak EXCEPT ![Dir] = b]
     /\ UNCHANGED live
  \/ /\ pc = "restore"
     /\ bak[Dir] # "absent"
     /\ \E l \in {"torn", "absent"} : live' = [live EXCEPT ![Dir] = l]
     /\ UNCHANGED bak

\* srm is killed (or the host goes down) between two steps or inside one.
Crash ==
  /\ pc # "idle"
  /\ Fault("crash")
  /\ CutShort
  /\ Return("crashed")
  /\ UNCHANGED <<svc, target, prior>>

\* An enabled unit that is down is started: by a boot, or by the operator.
Boot ==
  /\ pc = "idle"
  /\ svc = "stopped"
  /\ svc' = "started"
  /\ NoFault
  /\ UNCHANGED <<live, bak, pc, idx, target, prior, result>>

-----------------------------------------------------------------------------
Init ==
  /\ live = All(First)
  /\ bak = All("absent")
  /\ svc = "started"
  /\ pc = "idle"
  /\ idx = 1
  /\ target = First
  /\ prior = All(First)
  /\ result = "none"
  /\ faults = 0

UpgradeStep ==
  \/ Fetch \/ RecoverDir \/ StopUnit \/ SnapshotDir \/ BringBack \/ Extract
  \/ StartUnit \/ SelfTest \/ RollbackStop \/ RestoreDir \/ Restart \/ DiscardDir

Next ==
  \/ \E v \in Versions : Request(v)
  \/ UpgradeStep
  \/ Crash
  \/ Boot

Spec == Init /\ [][Next]_vars

\* A running command goes on running; nothing makes an operator request one.
Fairness == WF_vars(UpgradeStep)

-----------------------------------------------------------------------------
(* Properties *)

\* ErrRunnerDown: an error without the sentinel "means the upgrade failed but
\* the runner was successfully restored to its prior agent (still serving)".
RolledBackIsRestored ==
  (pc = "idle" /\ result = "rolledBack") => (live = prior /\ svc = "started")

\* systemd never runs an agent put together from two versions, or from a tree
\* an upgrade has taken apart: while the unit is up, bin and externals are both
\* there and of one version.
RunsWholeAgent == svc = "started" => Whole

\* recoverAgentSnapshot "makes the tree whole after an upgrade that crashed
\* mid-swap": once it has run, the payload is one complete version.
RecoverMakesWhole == pc = "stop" => Whole

\* No step, whole or cut short by a kill, leaves a directory neither in place
\* nor in the snapshot that was in one of them.  One step may: the snapshot of a
\* directory that recovery could not rename back, whose error it ignores.
NothingLost ==
  [][\A d \in Dirs :
       \/ live[d] = "absent" /\ bak[d] = "absent"
       \/ live'[d] # "absent" \/ bak'[d] # "absent"
       \/ pc = "snapshot" /\ live[d] = "absent"]_vars

\* A rollback that itself fails still leaves what hands-on recovery needs: what
\* an upgrade that was not killed found in either directory is on disk when it
\* returns an error, in place or in the snapshot.
PriorSurvives ==
  (pc = "idle" /\ result \in {"rolledBack", "down"}) =>
    \A d \in Dirs : prior[d] \in Versions => prior[d] \in {live[d], bak[d]}

\* Neither one step nor a whole upgrade loses the agent it found (recoverAgentSnapshot,
\* snapshotAgentPayload, restoreAgentPayload, discardAgentSnapshot).
NeverLosesAgent == []PriorSurvives /\ NothingLost

\* An unhealthy version is never what an upgrade leaves installed.
InstalledIsHealthy ==
  pc = "idle" => \E v \in Healthy : live = All(v)

\* What an upgrade leaves is a healthy agent, and the prior one if it says "rolled
\* back" (waitActive, restoreAgentPayload).
LeavesHealthyAgent == RolledBackIsRestored /\ InstalledIsHealthy

Atomic == INSTANCE AtomicUpgrade
            WITH agent <- IF pc = "idle" THEN live ELSE prior,
                 busy  <- pc # "idle",
                 goal  <- All(target),
                 Agents <- {All(v) : v \in Versions}

\* Between requests the runner is what AtomicUpgrade says: upgraded to the
\* target or still on the version it had (UpgradeRunnerAgent).
AtomicSwap == Atomic!Spec

\* At most so many steps of its own are between an upgrade and its return: a loop over
\* the directories counts twice, a swap that fails runs through the rollback.
StepsLeft ==
  (CASE pc = "idle" -> 0
     [] pc \in {"restart", "restartDown", "bringBack"} -> 1
     [] pc = "discard" -> 2    [] pc = "restore" -> 3    [] pc = "rollback" -> 4
     [] pc = "selftest" -> 5   [] pc = "start" -> 6      [] pc = "extract" -> 7
     [] pc = "snapshot" -> 9   [] pc = "stop" -> 10      [] pc = "recover" -> 12
     [] pc = "fetch" -> 13) - (idx - 1)

\* Whatever fails, each step brings an upgrade nearer to its return, and no way of
\* failing leads back to an earlier part of it (UpgradeRunnerAgent).
UpgradeCountsDown == [][UpgradeStep => StepsLeft' < StepsLeft /\ StepsLeft' >= 0]_vars

\* Every upgrade that is not killed returns, whatever fails.
UpgradeReturns == (pc # "idle") ~> (pc = "idle")
=============================================================================
