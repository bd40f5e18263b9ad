--------------------------- MODULE UpgradesProofs ---------------------------
(***************************************************************************)
(* Theorems about the two sides of an upgrade.  AgentUpgrade, the swap of  *)
(* the agent in one tree, for any set of versions and any number of        *)
(* faults.  RunnerManifest, whose ids the manifest of a host holds and     *)
(* whose registrations its commands remove, for any names, ids, releases   *)
(* and faults and any number of commands at the same time.                 *)
(***************************************************************************)
EXTENDS AgentUpgrade, RunnerManifest, TLAPS

\* Dir is the directory the loop is at.
LEMMA DirIs ==
  ASSUME idx \in 1..2
  PROVE  /\ Dir \in Dirs
         /\ Dir = IF idx = 1 THEN "bin" ELSE "externals"
BY DEF Dir, Dirs, agentPayloadDirs

-----------------------------------------------------------------------------
(* Type correctness *)

\* Every step of an upgrade, a crash inside one included, keeps the types.
LEMMA TypeStep == TypeOK /\ [Next]_vars => TypeOK'
<1> SUFFICES ASSUME TypeOK, [Next]_vars PROVE TypeOK'
  OBVIOUS
<1> USE UpgradeConstants, DirIs
<1> DEFINE Torn == [Dirs -> {"absent", "torn", target}]
<1>0. \A l \in Torn : l \in [Dirs -> Contents]
  BY DEF TypeOK, Contents
<1>1. ASSUME NEW v \in Versions, Request(v) PROVE TypeOK'
  BY <1>1 DEF TypeOK, Request, Goto, NoFault, Pcs
<1>2. CASE Fetch
  BY <1>2 DEF TypeOK, Fetch, Goto, Return, NoFault, Fault, Pcs
<1>3. CASE RecoverDir
  BY <1>3 DEF TypeOK, RecoverDir, NextDir, NoFault, Fault, Pcs, Contents
<1>4. CASE StopUnit
  BY <1>4 DEF TypeOK, StopUnit, Goto, Return, NoFault, Fault, Pcs
<1>5. CASE SnapshotDir
  BY <1>5 DEF TypeOK, SnapshotDir, Goto, NextDir, NoFault, Fault, Pcs, Contents
<1>6. CASE BringBack
  BY <1>6 DEF TypeOK, BringBack, Goto, Return, NoFault, Fault, Pcs
<1>7. CASE Extract
  BY <1>7, <1>0 DEF TypeOK, Extract, Goto, NoFault, Fault, Pcs, All, Contents
<1>8. CASE StartUnit
  BY <1>8 DEF TypeOK, StartUnit, Goto, NoFault, Fault, Pcs
<1>9. CASE SelfTest
  BY <1>9 DEF TypeOK, SelfTest, Goto, NoFault, Fault, Pcs
<1>10. CASE RollbackStop
  BY <1>10 DEF TypeOK, RollbackStop, Goto, NoFault, Fault, Pcs
<1>11. CASE RestoreDir
  BY <1>11 DEF TypeOK, RestoreDir, Goto, NextDir, NoFault, Fault, Pcs, Contents
<1>12. CASE Restart
  BY <1>12 DEF TypeOK, Restart, Goto, Return, NoFault, Fault, Pcs
<1>13. CASE DiscardDir
  BY <1>13 DEF TypeOK, DiscardDir, Goto, Return, NoFault, Pcs, Contents
<1>14. CASE Crash
  <2>1. live' \in [Dirs -> Contents] /\ bak' \in [Dirs -> Contents]
    BY <1>14, <1>0 DEF Crash, CutShort, TypeOK, Contents
  <2> QED BY <1>14, <2>1 DEF Crash, TypeOK, Return, Goto, Fault, Pcs
<1>15. CASE Boot
  BY <1>15 DEF TypeOK, Boot, NoFault
<1>16. CASE UNCHANGED vars
  BY <1>16 DEF TypeOK, vars
<1> QED
  BY <1>1, <1>2, <1>3, <1>4, <1>5, <1>6, <1>7, <1>8, <1>9, <1>10, <1>11, <1>12,
     <1>13, <1>14, <1>15, <1>16 DEF Next, UpgradeStep

\* The variables of an upgrade keep their types, whatever faults happen.
THEOREM TypeCorrect == Spec => []TypeOK
<1>1. Init => TypeOK
  BY UpgradeConstants DEF Init, TypeOK, All, Contents, Pcs
<1> QED BY <1>1, TypeStep, PTL DEF Spec

-----------------------------------------------------------------------------
(* What the upgrade found is never lost *)

\* A loop has dealt with directory d.
Done(d) == idx = 2 /\ d = "bin"

\* Where the version that a directory held when the upgrade was requested is,
\* at every step of an upgrade that is not killed.
Kept(d) ==
  /\ pc \in {"fetch", "recover", "stop"} => live[d] = prior[d]
  /\ pc = "snapshot" => IF Done(d) THEN bak[d] = prior[d] ELSE live[d] = prior[d]
  /\ pc \in {"extract", "start", "selftest", "rollback"} => bak[d] = prior[d]
  /\ pc = "restore" => IF Done(d) THEN live[d] = prior[d] ELSE bak[d] = prior[d]
  /\ pc = "restart" => live[d] = prior[d]
  /\ pc \in {"bringBack", "restartDown"} => prior[d] \in {live[d], bak[d]}
  /\ pc = "idle" /\ result \in {"rolledBack", "down"} => prior[d] \in {live[d], bak[d]}

KeptInv == \A d \in Dirs : prior[d] \in Versions => Kept(d)

\* Whatever fails, the step leaves the version somewhere: the snapshot is
\* removed only after the upgrade has succeeded.
LEMMA KeptStep ==
  ASSUME TypeOK, KeptInv, [Next]_vars
  PROVE  KeptInv'
<1> USE UpgradeConstants, DirIs DEF TypeOK, Kept, Done, Dirs, NoFault, Fault, Goto, Return
<1> SUFFICES ASSUME NEW d \in Dirs, (prior[d] \in Versions)' PROVE Kept(d)'
  BY DEF KeptInv
<1>1. ASSUME NEW v \in Versions, Request(v) PROVE Kept(d)'
  BY <1>1 DEF Request
<1>2. CASE UpgradeStep
  <2>1. prior' = prior
    BY <1>2 DEF UpgradeStep, Fetch, RecoverDir, StopUnit, SnapshotDir, BringBack, Extract,
        StartUnit, SelfTest, RollbackStop, RestoreDir, Restart, DiscardDir
  <2>2. prior[d] \in Versions /\ Kept(d)
    BY <2>1 DEF KeptInv
  <2>3. d \in {"bin", "externals"} /\ prior[d] \notin {"absent", "torn"}
    BY <2>2
  <2>4. CASE Fetch
    BY <2>2, <2>4 DEF Fetch
  <2>5. CASE RecoverDir
    BY <2>2, <2>3, <2>5 DEF RecoverDir, NextDir
  <2>6. CASE StopUnit
    BY <2>2, <2>6 DEF StopUnit
  <2>7. CASE SnapshotDir
    BY <2>2, <2>3, <2>7 DEF SnapshotDir, NextDir
  <2>8. CASE BringBack
    BY <2>2, <2>8 DEF BringBack
  <2>9. CASE Extract
    BY <2>2, <2>9 DEF Extract
  <2>10. CASE StartUnit
    BY <2>2, <2>10 DEF StartUnit
  <2>11. CASE SelfTest
    BY <2>2, <2>11 DEF SelfTest
  <2>12. CASE RollbackStop
    BY <2>2, <2>12 DEF RollbackStop
  <2>13. CASE RestoreDir
    BY <2>2, <2>3, <2>13 DEF RestoreDir, NextDir
  <2>14. CASE Restart
    BY <2>2, <2>14 DEF Restart
  <2>15. CASE DiscardDir
    BY <2>2, <2>15 DEF DiscardDir
  <2> QED
    BY <1>2, <2>4, <2>5, <2>6, <2>7, <2>8, <2>9, <2>10, <2>11, <2>12, <2>13, <2>14,
       <2>15 DEF UpgradeStep
<1>3. CASE Crash
  BY <1>3 DEF Crash
<1>4. CASE Boot
  BY <1>4 DEF Boot, KeptInv
<1>5. CASE UNCHANGED vars
  BY <1>5 DEF vars, KeptInv
<1> QED
  BY <1>1, <1>2, <1>3, <1>4, <1>5 DEF Next

\* An upgrade that returns an error does so with every version it found still on
\* disk, in place or in the snapshot, whatever of its own steps and of the
\* rollback failed, and whatever kills of earlier upgrades left behind.
LEMMA PriorIsNeverLost == Spec => []PriorSurvives
<1>1. Init => KeptInv
  BY DEF Init, KeptInv, Kept
<1>2. TypeOK /\ KeptInv /\ [Next]_vars => KeptInv'
  BY KeptStep
<1>3. KeptInv => PriorSurvives
  BY DEF KeptInv, Kept, PriorSurvives
<1> QED BY <1>1, <1>2, <1>3, TypeCorrect, PTL DEF Spec

\* From the extraction on, what is in place is what the upgrade has put there; the
\* snapshot has emptied every directory it has been through.
PlacedInv ==
  /\ pc = "snapshot" => \A d \in Dirs : Done(d) => live[d] = "absent"
  /\ pc = "extract" => live = All("absent")
  /\ pc \in {"start", "selftest", "discard"} => live = All(target)

\* Every step keeps it, whatever fails.
LEMMA PlacedStep ==
  ASSUME TypeOK, PlacedInv, [Next]_vars
  PROVE  PlacedInv'
<1> USE UpgradeConstants, DirIs DEF TypeOK, PlacedInv, Done, Dirs, All, NoFault, Fault, Goto, Return
<1>1. CASE \E v \in Versions : Request(v)
  BY <1>1 DEF Request
<1>2. CASE UpgradeStep
  BY <1>2 DEF UpgradeStep, Fetch, RecoverDir, StopUnit, SnapshotDir, BringBack, Extract,
      StartUnit, SelfTest, RollbackStop, RestoreDir, Restart, DiscardDir, NextDir
<1>3. CASE Crash \/ Boot \/ UNCHANGED vars
  BY <1>3 DEF Crash, Boot, vars
<1> QED BY <1>1, <1>2, <1>3 DEF Next

\* The only copy of a directory is never removed by a step.
LEMMA StepLosesNothing ==
  ASSUME TypeOK, PlacedInv, [Next]_vars, NEW d \in Dirs,
         live[d] # "absent" \/ bak[d] # "absent",
         ~(pc = "snapshot" /\ live[d] = "absent")
  PROVE  live'[d] # "absent" \/ bak'[d] # "absent"
<1> USE UpgradeConstants, DirIs DEF TypeOK, PlacedInv, Dirs, All, NoFault, Fault, Goto, Return
<1>1. CASE \E v \in Versions : Request(v)
  BY <1>1 DEF Request
<1>2. CASE UpgradeStep
  BY <1>2 DEF UpgradeStep, Fetch, RecoverDir, StopUnit, SnapshotDir, BringBack, Extract,
      StartUnit, SelfTest, RollbackStop, RestoreDir, Restart, DiscardDir, NextDir
<1>3. CASE Crash
  BY <1>3 DEF Crash, CutShort
<1>4. CASE Boot \/ UNCHANGED vars
  BY <1>4 DEF Boot, vars
<1> QED BY <1>1, <1>2, <1>3, <1>4 DEF Next

\* No step of an upgrade, a kill inside one included, removes the last copy of a
\* payload directory, and no error is returned with the prior agent gone.
THEOREM AgentIsNeverLost == Spec => NeverLosesAgent
<1>1. Init => PlacedInv
  BY DEF Init, PlacedInv
<1>2. TypeOK /\ PlacedInv /\ [Next]_vars => PlacedInv'
  BY PlacedStep
<1>3. TypeOK /\ PlacedInv /\ [Next]_vars
        => [\A d \in Dirs :
              \/ live[d] = "absent" /\ bak[d] = "absent"
              \/ live'[d] # "absent" \/ bak'[d] # "absent"
              \/ pc = "snapshot" /\ live[d] = "absent"]_vars
  BY StepLosesNothing
<1> QED
  BY <1>1, <1>2, <1>3, TypeCorrect, PriorIsNeverLost, PTL DEF Spec, NeverLosesAgent, NothingLost

-----------------------------------------------------------------------------
(* An upgrade returns after a bounded number of steps *)

\* Only the loops over the directories get to the second one.
LoopsOnly == idx = 2 => pc \in {"recover", "snapshot", "restore", "discard"}

LEMMA LoopsStep == TypeOK /\ LoopsOnly /\ [Next]_vars => LoopsOnly'
BY DEF TypeOK, LoopsOnly, Next, UpgradeStep, vars, Request, Fetch, RecoverDir, StopUnit, SnapshotDir, BringBack, Extract,
   StartUnit, SelfTest, RollbackStop, RestoreDir, Restart, DiscardDir, Crash, Boot, Goto, NextDir, Return

StepsAre ==
  /\ pc \in {"restart", "restartDown", "bringBack"} => StepsLeft = 2 - idx
  /\ pc = "idle" => StepsLeft = 1 - idx
  /\ pc = "discard" => StepsLeft = 3 - idx
  /\ pc = "restore" => StepsLeft = 4 - idx
  /\ pc = "rollback" => StepsLeft = 5 - idx
  /\ pc = "selftest" => StepsLeft = 6 - idx
  /\ pc = "start" => StepsLeft = 7 - idx
  /\ pc = "extract" => StepsLeft = 8 - idx
  /\ pc = "snapshot" => StepsLeft = 10 - idx
  /\ pc = "stop" => StepsLeft = 11 - idx
  /\ pc = "recover" => StepsLeft = 13 - idx
  /\ pc = "fetch" => StepsLeft = 14 - idx

LEMMA StepsLeftIs == (TypeOK => StepsAre) /\ (TypeOK' => StepsAre')
BY DEF StepsAre, StepsLeft, TypeOK

LEMMA CountsDown ==
  ASSUME TypeOK, TypeOK', LoopsOnly, UpgradeStep
  PROVE  StepsLeft' < StepsLeft /\ StepsLeft' >= 0
<1>0. idx \in 1..2 /\ StepsAre /\ StepsAre' /\ LoopsOnly
  BY StepsLeftIs DEF TypeOK
<1> USE DEF Goto, Return, NextDir
<1>1. CASE Fetch
  <2>1. pc = "fetch" /\ idx = 1 /\ idx' = 1 /\ pc' \in {"recover", "idle"}
    BY <1>0, <1>1 DEF Fetch, LoopsOnly
  <2>2. StepsLeft = 13 /\ StepsLeft' \in {12, 0}
    BY <1>0, <2>1 DEF StepsAre
  <2> QED BY <2>2
<1>2. CASE StopUnit
  <2>1. pc = "stop" /\ idx = 1 /\ idx' = 1 /\ pc' \in {"snapshot", "idle"}
    BY <1>0, <1>2 DEF StopUnit, LoopsOnly
  <2>2. StepsLeft = 10 /\ StepsLeft' \in {9, 0}
    BY <1>0, <2>1 DEF StepsAre
  <2> QED BY <2>2
<1>3. CASE BringBack
  <2>1. pc = "bringBack" /\ idx = 1 /\ idx' = 1 /\ pc' \in {"idle"}
    BY <1>0, <1>3 DEF BringBack, LoopsOnly
  <2>2. StepsLeft = 1 /\ StepsLeft' \in {0}
    BY <1>0, <2>1 DEF StepsAre
  <2> QED BY <2>2
<1>4. CASE Extract
  <2>1. pc = "extract" /\ idx = 1 /\ idx' = 1 /\ pc' \in {"start", "rollback"}
    BY <1>0, <1>4 DEF Extract, LoopsOnly
  <2>2. StepsLeft = 7 /\ StepsLeft' \in {6, 4}
    BY <1>0, <2>1 DEF StepsAre
  <2> QED BY <2>2
<1>5. CASE StartUnit
  <2>1. pc = "start" /\ idx = 1 /\ idx' = 1 /\ pc' \in {"selftest", "rollback"}
    BY <1>0, <1>5 DEF StartUnit, LoopsOnly
  <2>2. StepsLeft = 6 /\ StepsLeft' \in {5, 4}
    BY <1>0, <2>1 DEF StepsAre
  <2> QED BY <2>2
<1>6. CASE SelfTest
  <2>1. pc = "selftest" /\ idx = 1 /\ idx' = 1 /\ pc' \in {"discard", "rollback"}
    BY <1>0, <1>6 DEF SelfTest, LoopsOnly
  <2>2. StepsLeft = 5 /\ StepsLeft' \in {2, 4}
    BY <1>0, <2>1 DEF StepsAre
  <2> QED BY <2>2
<1>7. CASE RollbackStop
  <2>1. pc = "rollback" /\ idx = 1 /\ idx' = 1 /\ pc' \in {"restore"}
    BY <1>0, <1>7 DEF RollbackStop, LoopsOnly
  <2>2. StepsLeft = 4 /\ StepsLeft' \in {3}
    BY <1>0, <2>1 DEF StepsAre
  <2> QED BY <2>2
<1>8. CASE Restart
  <2>1. pc \in {"restart", "restartDown"} /\ idx = 1 /\ idx' = 1 /\ pc' \in {"idle"}
    BY <1>0, <1>8 DEF Restart, LoopsOnly
  <2>2. StepsLeft = 1 /\ StepsLeft' \in {0}
    BY <1>0, <2>1 DEF StepsAre
  <2> QED BY <2>2
<1>9. CASE RecoverDir
  <2>1. /\ pc = "recover"
        /\ \/ idx = 1 /\ pc' = "recover" /\ idx' = 2
           \/ pc' = "stop" /\ idx' = 1
    BY <1>0, <1>9 DEF RecoverDir
  <2>2. CASE idx = 1 /\ pc' = "recover" /\ idx' = 2
    <3>1. StepsLeft = 12 /\ StepsLeft' = 11
      BY <1>0, <2>1, <2>2 DEF StepsAre
    <3> QED BY <3>1
  <2>3. CASE pc' = "stop" /\ idx' = 1
    <3>1. StepsLeft \in {11, 12} /\ StepsLeft' = 10
      BY <1>0, <2>1, <2>3 DEF StepsAre
    <3> QED BY <3>1
  <2> QED BY <2>1, <2>2, <2>3
<1>10. CASE SnapshotDir
  <2>1. /\ pc = "snapshot"
        /\ \/ idx = 1 /\ pc' = "snapshot" /\ idx' = 2
           \/ pc' \in {"extract", "bringBack"} /\ idx' = 1
    BY <1>0, <1>10 DEF SnapshotDir
  <2>2. CASE idx = 1 /\ pc' = "snapshot" /\ idx' = 2
    <3>1. StepsLeft = 9 /\ StepsLeft' = 8
      BY <1>0, <2>1, <2>2 DEF StepsAre
    <3> QED BY <3>1
  <2>3. CASE pc' \in {"extract", "bringBack"} /\ idx' = 1
    <3>1. StepsLeft \in {8, 9} /\ StepsLeft' \in {7, 1}
      BY <1>0, <2>1, <2>3 DEF StepsAre
    <3> QED BY <3>1
  <2> QED BY <2>1, <2>2, <2>3
<1>11. CASE RestoreDir
  <2>1. /\ pc = "restore"
        /\ \/ idx = 1 /\ pc' = "restore" /\ idx' = 2
           \/ pc' \in {"restart", "restartDown"} /\ idx' = 1
    BY <1>0, <1>11 DEF RestoreDir
  <2>2. CASE idx = 1 /\ pc' = "restore" /\ idx' = 2
    <3>1. StepsLeft = 3 /\ StepsLeft' = 2
      BY <1>0, <2>1, <2>2 DEF StepsAre
    <3> QED BY <3>1
  <2>3. CASE pc' \in {"restart", "restartDown"} /\ idx' = 1
    <3>1. StepsLeft \in {2, 3} /\ StepsLeft' = 1
      BY <1>0, <2>1, <2>3 DEF StepsAre
    <3> QED BY <3>1
  <2> QED BY <2>1, <2>2, <2>3
<1>12. CASE DiscardDir
  <2>1. /\ pc = "discard"
        /\ \/ idx = 1 /\ pc' = "discard" /\ idx' = 2
           \/ pc' = "idle" /\ idx' = 1
    BY <1>0, <1>12 DEF DiscardDir
  <2>2. CASE idx = 1 /\ pc' = "discard" /\ idx' = 2
    <3>1. StepsLeft = 2 /\ StepsLeft' = 1
      BY <1>0, <2>1, <2>2 DEF StepsAre
    <3> QED BY <3>1
  <2>3. CASE pc' = "idle" /\ idx' = 1
    <3>1. StepsLeft \in {1, 2} /\ StepsLeft' = 0
      BY <1>0, <2>1, <2>3 DEF StepsAre
    <3> QED BY <3>1
  <2> QED BY <2>1, <2>2, <2>3
<1> QED BY <1>1, <1>2, <1>3, <1>4, <1>5, <1>6, <1>7, <1>8, <1>9, <1>10, <1>11, <1>12 DEF UpgradeStep

\* Every upgrade returns within thirteen steps of its own, unless srm is killed first: no
\* failing call makes it go back or go round again (UpgradeRunnerAgent).
THEOREM UpgradesReturn == Spec => UpgradeCountsDown /\ [](StepsLeft <= 13)
<1>1. Init => LoopsOnly
  BY DEF Init, LoopsOnly
<1>2. TypeOK /\ TypeOK' /\ LoopsOnly /\ [Next]_vars => [UpgradeStep => StepsLeft' < StepsLeft /\ StepsLeft' >= 0]_vars
  BY CountsDown
<1>3. TypeOK => StepsLeft <= 13
  <2> SUFFICES ASSUME TypeOK PROVE StepsLeft <= 13
    OBVIOUS
  <2>1. StepsAre /\ idx \in 1..2 /\ pc \in Pcs
    BY StepsLeftIs DEF TypeOK
  <2>2. CASE pc \in {"restart", "restartDown", "bringBack", "idle", "discard", "restore"}
    <3>1. StepsLeft \in {2 - idx, 1 - idx, 3 - idx, 4 - idx}
      BY <2>1, <2>2 DEF StepsAre
    <3> QED BY <2>1, <3>1
  <2>3. CASE pc \in {"rollback", "selftest", "start", "extract"}
    <3>1. StepsLeft \in {5 - idx, 6 - idx, 7 - idx, 8 - idx}
      BY <2>1, <2>3 DEF StepsAre
    <3> QED BY <2>1, <3>1
  <2>4. CASE pc \in {"snapshot", "stop", "recover", "fetch"}
    <3>1. StepsLeft \in {10 - idx, 11 - idx, 13 - idx, 14 - idx}
      BY <2>1, <2>4 DEF StepsAre
    <3> QED BY <2>1, <3>1
  <2> QED BY <2>1, <2>2, <2>3, <2>4 DEF Pcs
<1> QED BY <1>1, <1>2, <1>3, LoopsStep, TypeCorrect, PTL DEF Spec, UpgradeCountsDown

-----------------------------------------------------------------------------
(* An upgrade whose own steps work is atomic *)

\* The download, the extraction and the self-test may fail; the renames and
\* systemctl work, and srm is not killed.
SwapFaultsOnly == Faults \subseteq {"fetch", "extract", "selftest"}

HealthyTree(t) == \E v \in Healthy : t = All(v)

\* Where the two payloads are at every step, and what the unit may be doing.
SwapInv ==
  /\ HealthyTree(prior)
  /\ pc \notin {"bringBack", "restartDown"}
  /\ pc \notin {"recover", "snapshot", "restore", "discard"} => idx = 1
  /\ pc = "idle" => /\ HealthyTree(live)
                    /\ bak = All("absent")
                    /\ svc = "started"
                    /\ result \in {"none", "upgraded", "rolledBack"}
                    /\ result = "rolledBack" => live = prior
  /\ pc \in {"fetch", "recover", "stop"} =>
       live = prior /\ bak = All("absent") /\ svc = "started"
  /\ pc = "snapshot" =>
       /\ svc = "stopped"
       /\ \A d \in Dirs : IF Done(d) THEN bak[d] = prior[d]
                                     ELSE live[d] = prior[d] /\ bak[d] = "absent"
  /\ pc = "extract" => svc = "stopped" /\ bak = prior
  /\ pc = "start" => svc = "stopped" /\ bak = prior /\ live = All(target)
  /\ pc = "selftest" => bak = prior /\ live = All(target) /\ svc = "started"
  /\ pc = "rollback" => bak = prior /\ (svc = "started" => live = All(target))
  /\ pc = "restore" =>
       /\ svc = "stopped"
       /\ \A d \in Dirs : IF Done(d) THEN live[d] = prior[d] /\ bak[d] = "absent"
                                     ELSE bak[d] = prior[d]
  /\ pc = "restart" => live = prior /\ bak = All("absent") /\ svc = "stopped"
  /\ pc = "discard" =>
       /\ live = All(target)
       /\ target \in Healthy
       /\ svc = "started"
       /\ Done("bin") => bak["bin"] = "absent"

\* Two trees are the same when both their directories are.
LEMMA SameTree ==
  ASSUME NEW f \in [Dirs -> Contents], NEW g \in [Dirs -> Contents],
         f["bin"] = g["bin"], f["externals"] = g["externals"]
  PROVE  f = g
BY DEF Dirs

\* Every step of an upgrade keeps the invariant when the renames work.
LEMMA SwapStep ==
  ASSUME TypeOK, TypeOK', SwapInv, [Next]_vars, SwapFaultsOnly
  PROVE  SwapInv'
<1> USE UpgradeConstants, DirIs DEF TypeOK, SwapInv, SwapFaultsOnly, HealthyTree, NoFault, Fault, Goto, Return
<1>0. /\ Dirs = {"bin", "externals"}
      /\ \A v : All(v)["bin"] = v /\ All(v)["externals"] = v
      /\ \A v \in Contents : All(v) \in [Dirs -> Contents]
      /\ \A v \in Versions : v \in Contents /\ v # "absent" /\ v # "torn"
      /\ "absent" \in Contents
  BY DEF Dirs, All, Contents
<1>1. ASSUME NEW v \in Versions, Request(v) PROVE SwapInv'
  BY <1>1 DEF Request
<1>2. CASE Fetch
  BY <1>2 DEF Fetch
<1>3. CASE RecoverDir
  <2>1. bak[Dir] = "absent"
    BY <1>0, <1>3 DEF RecoverDir
  <2> QED BY <1>3, <2>1 DEF RecoverDir, NextDir
<1>4. CASE StopUnit
  BY <1>0, <1>4 DEF StopUnit, Done
<1>5. CASE SnapshotDir
  <2>1. /\ bak' = [bak EXCEPT ![Dir] = live[Dir]]
        /\ live' = [live EXCEPT ![Dir] = "absent"]
        /\ NextDir("extract")
        /\ UNCHANGED <<svc, target, prior, result>>
    BY <1>5 DEF SnapshotDir
  <2>2. CASE idx = 1
    BY <1>0, <1>5, <2>1, <2>2 DEF SnapshotDir, NextDir, Done
  <2>3. CASE idx = 2
    <3>1. bak' = prior
      BY <1>0, <1>5, <2>1, <2>3, SameTree DEF SnapshotDir, Done
    <3> QED BY <1>5, <2>1, <2>3, <3>1 DEF SnapshotDir, NextDir
  <2> QED BY <2>2, <2>3
<1>6. CASE BringBack
  BY <1>6 DEF BringBack
<1>7. CASE Extract
  BY <1>7 DEF Extract
<1>8. CASE StartUnit
  BY <1>8 DEF StartUnit
<1>9. CASE SelfTest
  BY <1>9 DEF SelfTest, Done
<1>10. CASE RollbackStop
  BY <1>0, <1>10 DEF RollbackStop, Done
<1>11. CASE RestoreDir
  <2>1. bak[Dir] # "absent"
    BY <1>0, <1>11 DEF RestoreDir, Done
  <2>2. /\ live' = [live EXCEPT ![Dir] = bak[Dir]]
        /\ bak' = [bak EXCEPT ![Dir] = "absent"]
        /\ NextDir("restart")
        /\ UNCHANGED <<svc, target, prior, result>>
    BY <1>11, <2>1 DEF RestoreDir
  <2>3. CASE idx = 1
    BY <1>0, <1>11, <2>2, <2>3 DEF RestoreDir, NextDir, Done
  <2>4. CASE idx = 2
    <3>1. live' = prior /\ bak' = All("absent")
      BY <1>0, <1>11, <2>2, <2>4, SameTree DEF RestoreDir, Done
    <3> QED BY <1>11, <2>2, <2>4, <3>1 DEF RestoreDir, NextDir
  <2> QED BY <2>3, <2>4
<1>12. CASE Restart
  BY <1>12 DEF Restart
<1>13. CASE DiscardDir
  <2>1. CASE idx = 1
    BY <1>0, <1>13, <2>1 DEF DiscardDir, Done
  <2>2. CASE idx = 2
    <3>1. bak' = All("absent")
      BY <1>0, <1>13, <2>2, SameTree DEF DiscardDir, Done
    <3> QED BY <1>13, <2>2, <3>1 DEF DiscardDir
  <2> QED BY <2>1, <2>2
<1>14. CASE Crash
  BY <1>14 DEF Crash
<1>15. CASE Boot
  BY <1>15 DEF Boot
<1>16. CASE UNCHANGED vars
  BY <1>16 DEF vars, Done
<1> QED
  BY <1>1, <1>2, <1>3, <1>4, <1>5, <1>6, <1>7, <1>8, <1>9, <1>10, <1>11, <1>12,
     <1>13, <1>14, <1>15, <1>16 DEF Next, UpgradeStep

\* The invariant holds at the start, and gives the three properties below.
LEMMA SwapInvariant ==
  ASSUME SwapFaultsOnly
  PROVE  Spec => [](TypeOK /\ SwapInv)
<1>1. Init => SwapInv
  BY UpgradeConstants DEF Init, SwapInv, HealthyTree
<1>2. TypeOK /\ TypeOK' /\ SwapInv /\ [Next]_vars => SwapInv'
  BY SwapStep
<1> QED BY <1>1, <1>2, TypeCorrect, PTL DEF Spec

\* An upgrade leaves a healthy version installed, and one that returns "rolled back"
\* has put the runner back: both directories hold the version they held, and the unit
\* is started.
THEOREM UpgradeLeavesHealthyAgent ==
  ASSUME SwapFaultsOnly
  PROVE  Spec => []LeavesHealthyAgent
<1>1. TypeOK /\ SwapInv => LeavesHealthyAgent
  BY DEF SwapInv, HealthyTree, LeavesHealthyAgent, RolledBackIsRestored, InstalledIsHealthy
<1> QED BY <1>1, SwapInvariant, PTL

\* No unit ever runs from a tree that is missing a directory or mixes two
\* versions.
THEOREM UnitRunsWholeAgent ==
  ASSUME SwapFaultsOnly
  PROVE  Spec => []RunsWholeAgent
<1>1. TypeOK /\ SwapInv => RunsWholeAgent
  <2> SUFFICES ASSUME TypeOK, SwapInv, svc = "started" PROVE Whole
    BY DEF RunsWholeAgent
  <2>1. HealthyTree(live) \/ live = All(target)
    BY DEF TypeOK, SwapInv, Pcs
  <2> QED BY <2>1, UpgradeConstants DEF HealthyTree, Whole, TypeOK
<1> QED BY <1>1, SwapInvariant, PTL

\* UpgradeRunnerAgent implements AtomicUpgrade: seen from its caller, the agent
\* changes once, when it returns, to the version asked for, or not at all.
THEOREM UpgradeIsAtomic ==
  ASSUME SwapFaultsOnly
  PROVE  Spec => AtomicSwap
<1> USE UpgradeConstants
<1>1. Init => Atomic!Init
  BY DEF Init, Atomic!Init, All
<1>2. TypeOK /\ TypeOK' /\ SwapInv /\ SwapInv' /\ [Next]_vars
        => [Atomic!Next]_<<IF pc = "idle" THEN live ELSE prior, pc # "idle", All(target)>>
  <2> SUFFICES ASSUME TypeOK, TypeOK', SwapInv, SwapInv', [Next]_vars
               PROVE  [Atomic!Next]_<<IF pc = "idle" THEN live ELSE prior, pc # "idle", All(target)>>
    OBVIOUS
  <2>1. ASSUME NEW v \in Versions, Request(v) PROVE Atomic!Request
    BY <2>1 DEF Request, Goto, Atomic!Request, All
  <2>2. CASE Boot
    BY <2>2 DEF Boot, SwapInv
  <2>3. CASE UpgradeStep
    <3>1. pc # "idle" /\ prior' = prior /\ target' = target
      BY <2>3 DEF UpgradeStep, Fetch, RecoverDir, StopUnit, SnapshotDir, BringBack, Extract,
          StartUnit, SelfTest, RollbackStop, RestoreDir, Restart, DiscardDir
    <3>2. All(target)' = All(target)
      BY <3>1 DEF All
    <3>3. CASE pc' # "idle"
      BY <3>1, <3>2, <3>3
    <3>4. CASE pc' = "idle"
      <4>1. ASSUME DiscardDir PROVE live' = All(target)
        BY <4>1 DEF DiscardDir, SwapInv
      <4>2. ASSUME ~DiscardDir PROVE live' = prior
        <5>1. result' \in {"rolledBack", "down"}
          BY <2>3, <3>4, <4>2 DEF UpgradeStep, Fetch, RecoverDir, StopUnit, SnapshotDir,
              BringBack, Extract, StartUnit, SelfTest, RollbackStop, RestoreDir, Restart,
              Goto, NextDir, Return
        <5>2. live' = prior
          BY <3>1, <3>4, <5>1 DEF SwapInv
        <5> QED BY <5>2
      <4>3. live' \in {prior, All(target)}
        BY <4>1, <4>2
      <4> QED BY <3>1, <3>2, <3>4, <4>3 DEF Atomic!Next, Atomic!Return
    <3> QED BY <3>3, <3>4
  <2>4. CASE Crash
    BY <2>4 DEF Crash, Fault, SwapFaultsOnly
  <2>5. CASE UNCHANGED vars
    BY <2>5 DEF vars, All
  <2> QED BY <2>1, <2>2, <2>3, <2>4, <2>5 DEF Next, Atomic!Next
<1> QED BY <1>1, <1>2, SwapInvariant, TypeCorrect, PTL DEF Spec, AtomicSwap, Atomic!Spec

-----------------------------------------------------------------------------
(* The manifest and the commands *)

OwnOrNone == {NoId} \cup OwnIds

\* Whatever copy of the manifest is made, by whatever command, holds ids of this host
\* only; so does what a command has read from .runner or found recorded.  A tree's id
\* is one by its type: config.sh writes what GitHub gave to this host.
OwnIdsOnly ==
  /\ \A n \in Names : disk[n].id \in OwnOrNone
  /\ \A c \in Commands : /\ idr[c] \in OwnOrNone
                         /\ \A n \in Names : mem[c][n].id \in OwnOrNone

\* A command that is about to install an agent has settled on a release.
HasGoal == \A c \in Commands : cmdPc[c] \in {"install", "recheck", "swap"} => goal[c] # 0

ManifestInv == ManifestTypeOK /\ OwnIdsOnly /\ HasGoal

-----------------------------------------------------------------------------
\* The end of a command forgets what it held.
LEMMA EndKeepsInv ==
  ASSUME ManifestInv, NEW c \in Commands, End(c)
  PROVE  /\ cmdPc'  \in [Commands -> CommandPcs]
         /\ kind'   \in [Commands -> OpKinds \cup {"none"}]
         /\ at'     \in [Commands -> Names \cup {NoId}]
         /\ liveId' \in [Commands -> {NoId} \cup Ids]
         /\ idr'    \in [Commands -> {NoId} \cup Ids]
         /\ mem'    \in [Commands -> [Names -> Records]]
         /\ rows'   \in [Commands -> SUBSET Rows]
         /\ goal'   \in [Commands -> {0} \cup Releases]
         /\ \A d \in Commands : /\ idr'[d] \in OwnOrNone
                                /\ \A n \in Names : mem'[d][n].id \in OwnOrNone
         /\ HasGoal'
BY DEF ManifestInv, ManifestTypeOK, OwnIdsOnly, HasGoal, OwnOrNone, End, Advance, CommandPcs,
   OpKinds, Records, NoRecord

\* A fault is counted, and may mark the runner the command is at.
LEMMA FaultsKeepType ==
  ASSUME ManifestInv, NEW c \in Commands,
         \/ NoCommandFault
         \/ \E k \in CommandFaultKinds : FaultMisses(c, k) \/ FaultSpares(k)
         \/ missed' = missed \ {at[c]} /\ UNCHANGED commandFaults
  PROVE  missed' \in SUBSET Names /\ commandFaults' \in 0..MaxCommandFaults
BY ManifestConstants DEF ManifestInv, ManifestTypeOK, NoCommandFault, FaultMisses,
   FaultSpares, CommandFault

-----------------------------------------------------------------------------
\* Creating and destroying store the id config.sh was given, or none.
LEMMA LifecycleKeepsInv ==
  ASSUME ManifestInv, NEW c \in Commands,
         \/ \E n \in Names : BeginCreate(c, n) \/ BeginDestroy(c, n)
         \/ InstallRunner(c) \/ RemoveRunner(c) \/ LoadState(c) \/ StoreRecord(c)
         \/ Deregister(c)
  PROVE  ManifestInv'
<1> USE ManifestConstants DEF ManifestInv, ManifestTypeOK, OwnIdsOnly, HasGoal, OwnOrNone, Advance,
      Begin, hostVars, CommandPcs, OpKinds, Ids, Trees, Records, NoTree, NoRecord,
      CommandFaultKinds
<1>1. CASE \E n \in Names : BeginCreate(c, n)
  <2>1. pub \in Releases /\ pub # 0 BY DEF Releases
  <2> QED BY <1>1, <2>1 DEF BeginCreate, NoCommandFault
<1>2. CASE \E n \in Names : BeginDestroy(c, n) BY <1>2 DEF BeginDestroy, NoCommandFault
<1>3. CASE InstallRunner(c)
  <2>1. /\ \/ \E id \in OwnIds : gh' = [gh EXCEPT ![at[c]] = id]
           \/ UNCHANGED gh
        /\ \/ \E id \in OwnIds : tree' = [tree EXCEPT ![at[c]] = [ver |-> goal[c], id |-> id]]
           \/ tree' = [tree EXCEPT ![at[c]] = NoTree]
        /\ \E I : busy' = busy \ I
        /\ was' = [was EXCEPT ![at[c]] = 0] /\ cached' = cached \cup {goal[c]}
        /\ UNCHANGED <<pub, disk>>
    BY <1>3 DEF InstallRunner
  <2>2. /\ gh' \in [Names -> {NoId} \cup Ids]
        /\ tree' \in [Names -> Trees]
        /\ was' \in [Names -> {0} \cup Releases]
    <3>1. gh' \in [Names -> {NoId} \cup Ids] BY <2>1
    <3>2. tree' \in [Names -> Trees]
      <4>1. NoTree \in Trees OBVIOUS
      <4>2. \A id \in OwnIds : [ver |-> goal[c], id |-> id] \in Trees OBVIOUS
      <4>3. PICK t \in Trees : tree' = [tree EXCEPT ![at[c]] = t] BY <2>1, <4>1, <4>2
      <4> HIDE DEF Trees
      <4> QED BY <4>3
    <3>3. was' \in [Names -> {0} \cup Releases] BY <2>1
    <3> QED BY <3>1, <3>2, <3>3
  <2>3. busy' \in SUBSET Ids BY <2>1
  <2>4. cached' \in SUBSET Releases
    <3>1. goal[c] \in Releases BY <1>3 DEF InstallRunner
    <3> QED BY <2>1, <3>1
  <2>5. missed' \in SUBSET Names /\ commandFaults' \in 0..MaxCommandFaults
    BY <1>3, FaultsKeepType DEF InstallRunner
  <2>6. CASE End(c) BY <2>1, <2>2, <2>3, <2>4, <2>5, <2>6, EndKeepsInv
  <2>7. CASE ~End(c)
    <3>1. \E id \in OwnIds : idr' = [idr EXCEPT ![c] = id] BY <1>3, <2>7 DEF InstallRunner
    <3>2. /\ Advance(c, "load")
          /\ UNCHANGED <<kind, at, liveId, mem, rows, goal>>
      BY <1>3, <2>7 DEF InstallRunner
    <3> QED BY <2>1, <2>2, <2>3, <2>4, <2>5, <3>1, <3>2
  <2> QED BY <2>6, <2>7
<1>4. CASE RemoveRunner(c) BY <1>4 DEF RemoveRunner, NoCommandFault
<1>5. CASE LoadState(c) BY <1>5 DEF LoadState, NoCommandFault
<1>6. CASE StoreRecord(c)
  <2>1. disk' \in [Names -> Records] /\ \A m \in Names : disk'[m].id \in OwnOrNone
    <3>1. \/ UNCHANGED disk
          \/ disk' = [mem[c] EXCEPT ![at[c]] = NoRecord]
          \/ disk' = [mem[c] EXCEPT ![at[c]] = [ver |-> goal[c], prev |-> 0, id |-> idr[c]]]
      <4>1. CASE kind[c] = "create" BY <1>6, <4>1 DEF StoreRecord
      <4>2. CASE kind[c] # "create" BY <1>6, <4>2 DEF StoreRecord
      <4> QED BY <4>1, <4>2
    <3>2. /\ NoRecord \in Records /\ NoRecord.id \in OwnOrNone
          /\ [ver |-> goal[c], prev |-> 0, id |-> idr[c]] \in Records
      OBVIOUS
    <3>3. CASE UNCHANGED disk BY <3>3
    <3>4. CASE ~UNCHANGED disk
      <4>1. PICK e \in Records : e.id \in OwnOrNone /\ disk' = [mem[c] EXCEPT ![at[c]] = e]
        BY <3>1, <3>2, <3>4
      <4> HIDE DEF Records
      <4> QED BY <4>1
    <3> QED BY <3>3, <3>4
  <2>2. missed' \in SUBSET Names /\ commandFaults' \in 0..MaxCommandFaults
    <3>1. \/ missed' = missed \ {at[c]} /\ UNCHANGED commandFaults
          \/ FaultMisses(c, "save")
      BY <1>6 DEF StoreRecord
    <3> QED BY <3>1, FaultsKeepType
  <2>3. UNCHANGED hostVars BY <1>6 DEF StoreRecord
  <2>4. CASE End(c) BY <2>1, <2>2, <2>3, <2>4, EndKeepsInv
  <2>5. CASE ~End(c)
    <3>1. /\ cmdPc' = [cmdPc EXCEPT ![c] = "deregister"]
          /\ UNCHANGED <<kind, at, liveId, idr, mem, rows, goal>>
      BY <1>6, <2>5 DEF StoreRecord
    <3> QED BY <2>1, <2>2, <2>3, <3>1
  <2> QED BY <2>4, <2>5
<1>7. CASE Deregister(c)
  <2>1. gh' \in [Names -> {NoId} \cup Ids] /\ busy' \in SUBSET Ids
    BY <1>7 DEF Deregister
  <2>2. missed' \in SUBSET Names /\ commandFaults' \in 0..MaxCommandFaults
    BY <1>7, FaultsKeepType DEF Deregister
  <2> QED BY <1>7, <2>1, <2>2, EndKeepsInv DEF Deregister
<1> QED BY <1>1, <1>2, <1>3, <1>4, <1>5, <1>6, <1>7

\* A pass copies the manifest, and records for a runner it has swapped the id it has
\* found recorded, or read from .runner; never the one GitHub has listed.
LEMMA PassKeepsInv ==
  ASSUME ManifestInv, NEW c \in Commands,
         \/ \E k \in OpKinds : BeginPass(c, k)
         \/ ListRunners(c) \/ SkipRow(c) \/ ResolveTarget(c) \/ RecheckBusy(c)
         \/ SwapAgent(c) \/ SaveState(c) \/ KillCommand(c)
  PROVE  ManifestInv'
<1> USE ManifestConstants DEF ManifestInv, ManifestTypeOK, OwnIdsOnly, HasGoal, OwnOrNone,
      Advance, Begin, hostVars, CommandPcs, OpKinds, CommandFaultKinds
<1>1. CASE \E k \in OpKinds : BeginPass(c, k) BY <1>1 DEF BeginPass, NoCommandFault
<1>2. CASE ListRunners(c)
  <2>1. missed' \in SUBSET Names /\ commandFaults' \in 0..MaxCommandFaults
    BY <1>2, FaultsKeepType DEF ListRunners
  <2>2. PICK R \in SUBSET Rows : rows' = [rows EXCEPT ![c] = R]
    <3>1. \A only \in SUBSET Names :
            {[name |-> n, id |-> gh[n], busy |-> gh[n] \in busy] :
               n \in {m \in only : Installed(m) /\ gh[m] # NoId}} \in SUBSET Rows
      <4> SUFFICES ASSUME NEW n \in Names, gh[n] # NoId
                   PROVE  [name |-> n, id |-> gh[n], busy |-> gh[n] \in busy] \in Rows
        OBVIOUS
      <4>1. gh[n] \in Ids OBVIOUS
      <4> QED BY <4>1 DEF Rows
    <3> QED BY <1>2, <3>1 DEF ListRunners
  <2> QED BY <1>2, <2>1, <2>2 DEF ListRunners
<1>3. CASE SkipRow(c) \/ ResolveTarget(c)
  <2>1. PICK r \in rows[c] : TakeRow(c, r) BY <1>3 DEF SkipRow, ResolveTarget
  <2>2. r.name \in Names /\ r.id \in Ids BY DEF Rows
  <2>3. RecordedId(c, r.name) \in OwnOrNone
    BY <2>2 DEF RecordedId, Trees
  <2>4. /\ at' \in [Commands -> Names \cup {NoId}]
        /\ liveId' \in [Commands -> {NoId} \cup Ids]
        /\ idr' \in [Commands -> {NoId} \cup Ids]
        /\ \A d \in Commands : idr'[d] \in OwnOrNone
        /\ rows' \in [Commands -> SUBSET Rows]
        /\ UNCHANGED <<hostVars, disk, kind, mem>>
    BY <2>1, <2>2, <2>3 DEF TakeRow, Ids
  <2>5. missed' \in SUBSET Names /\ commandFaults' \in 0..MaxCommandFaults
    BY <1>3, FaultsKeepType DEF SkipRow, ResolveTarget
  <2>6. /\ cmdPc' \in [Commands -> CommandPcs]
        /\ goal' \in [Commands -> {0} \cup Releases]
        /\ HasGoal'
    <3>1. CASE SkipRow(c) BY <3>1 DEF SkipRow
    <3>2. CASE ResolveTarget(c)
      <4>1. \A q \in rows[c] : mem[c][q.name].prev \in {0} \cup Releases
        BY DEF Rows, Records
      <4>2. CASE Advance(c, "save") /\ UNCHANGED goal BY <4>2
      <4>3. CASE ~(Advance(c, "save") /\ UNCHANGED goal)
        <5>1. PICK to \in {0} \cup Releases :
                /\ goal' = [goal EXCEPT ![c] = to]
                /\ \/ cmdPc' = [cmdPc EXCEPT ![c] = "recheck"] /\ to # 0
                   \/ cmdPc' = [cmdPc EXCEPT ![c] = "save"]
          BY <3>2, <4>1, <4>3 DEF ResolveTarget
        <5> QED BY <5>1
      <4> QED BY <4>2, <4>3
    <3> QED BY <1>3, <3>1, <3>2
  <2> QED BY <2>4, <2>5, <2>6
<1>4. CASE RecheckBusy(c)
  <2>1. missed' \in SUBSET Names /\ commandFaults' \in 0..MaxCommandFaults
    BY <1>4, FaultsKeepType DEF RecheckBusy
  <2> QED BY <1>4, <2>1 DEF RecheckBusy
<1>5. CASE SwapAgent(c)
  <2>1. missed' \in SUBSET Names /\ commandFaults' \in 0..MaxCommandFaults
    BY <1>5, FaultsKeepType DEF SwapAgent
  <2>2. cmdPc[c] = "swap" /\ goal[c] \in Releases BY <1>5 DEF SwapAgent
  <2>3. /\ busy' \in SUBSET Ids /\ cached' \in SUBSET Releases
        /\ UNCHANGED <<gh, pub, disk, kind, at, liveId, idr, rows, goal>>
        /\ cmdPc' = [cmdPc EXCEPT ![c] = "save"]
    BY <1>5, <2>2 DEF SwapAgent
  <2>4. CASE UNCHANGED <<tree, was, mem>> BY <2>1, <2>3, <2>4
  <2>5. CASE ~UNCHANGED <<tree, was, mem>>
    <3>1. /\ tree' = [tree EXCEPT ![at[c]].ver = goal[c]]
          /\ was'  = [was EXCEPT ![at[c]] = tree[at[c]].ver]
          /\ mem'  = [mem EXCEPT ![c][at[c]] = [ver |-> goal[c], prev |-> @.ver, id |-> idr[c]]]
      BY <1>5, <2>5 DEF SwapAgent
    <3>2. CASE at[c] \in Names
      <4>1. /\ [tree[at[c]] EXCEPT !.ver = goal[c]] \in Trees
            /\ tree[at[c]].ver \in {0} \cup Releases
        <5>1. tree[at[c]] \in Trees BY <3>2
        <5> QED BY <2>2, <5>1 DEF Trees
      <4>2. [ver |-> goal[c], prev |-> mem[c][at[c]].ver, id |-> idr[c]] \in Records
        BY <2>2, <3>2 DEF Records
      <4> QED BY <2>1, <2>3, <3>1, <3>2, <4>1, <4>2
    <3>3. CASE at[c] \notin Names
      <4>1. tree' = tree /\ was' = was /\ mem' = mem BY <3>1, <3>3
      <4> QED BY <2>4, <4>1
    <3> QED BY <3>2, <3>3
  <2> QED BY <2>4, <2>5
<1>6. CASE SaveState(c)
  <2>1. missed' \in SUBSET Names /\ commandFaults' \in 0..MaxCommandFaults
    BY <1>6, FaultsKeepType DEF SaveState
  <2>2. disk' \in {disk, mem[c]} /\ UNCHANGED hostVars BY <1>6 DEF SaveState
  <2>3. CASE End(c) BY <2>1, <2>2, <2>3, EndKeepsInv
  <2>4. CASE ~End(c)
    <3>1. /\ cmdPc' = [cmdPc EXCEPT ![c] = "row"]
          /\ at' = [at EXCEPT ![c] = NoId]
          /\ liveId' = [liveId EXCEPT ![c] = NoId]
          /\ idr' = [idr EXCEPT ![c] = NoId]
          /\ UNCHANGED <<kind, mem, rows, goal>>
      BY <1>6, <2>4 DEF SaveState
    <3> QED BY <2>1, <2>2, <3>1
  <2> QED BY <2>3, <2>4
<1>7. CASE KillCommand(c)
  <2>1. missed' \in SUBSET Names /\ commandFaults' \in 0..MaxCommandFaults
    BY <1>7, FaultsKeepType DEF KillCommand
  <2> QED BY <1>7, <2>1, EndKeepsInv DEF KillCommand
<1> QED BY <1>1, <1>2, <1>3, <1>4, <1>5, <1>6, <1>7

-----------------------------------------------------------------------------
LEMMA ManifestInvHolds == ManifestSpec => []ManifestInv
<1>1. ManifestInit => ManifestInv
  <2> SUFFICES ASSUME ManifestInit PROVE ManifestInv
    OBVIOUS
  <2>1. pub \in Releases /\ tree \in [Names -> Trees]
    BY DEF ManifestInit, Trees, NoTree
  <2>2. disk \in [Names -> Records] /\ mem \in [Commands -> [Names -> Records]]
    BY DEF ManifestInit, Records, NoRecord
  <2> QED BY ManifestConstants, <2>1, <2>2
        DEF ManifestInit, ManifestInv, ManifestTypeOK, OwnIdsOnly, HasGoal, OwnOrNone, NoRecord,
            Ids, CommandPcs, OpKinds
<1>2. ManifestInv /\ [ManifestNext]_manifestVars => ManifestInv'
  <2> SUFFICES ASSUME ManifestInv, [ManifestNext]_manifestVars PROVE ManifestInv'
    OBVIOUS
  <2>1. CASE \E c \in Commands : CommandStep(c)
    BY <2>1, LifecycleKeepsInv, PassKeepsInv DEF CommandStep
  <2>2. CASE GitHubStep
    <3>1. /\ gh' \in [Names -> {NoId} \cup Ids] /\ busy' \in SUBSET Ids /\ pub' \in Releases
      <4> USE DEF ManifestInv, ManifestTypeOK
      <4>1. CASE \E n \in Names : TakeJob(n) BY <4>1 DEF TakeJob
      <4>2. CASE \E n \in Names : FinishJob(n) BY <4>2 DEF FinishJob
      <4>3. CASE \E n \in Names : OtherHostTakes(n) BY <4>3 DEF OtherHostTakes, Ids
      <4>4. CASE \E n \in Names : RemovedOnGitHub(n) BY <4>4 DEF RemovedOnGitHub
      <4>5. CASE \E v \in Releases : Publish(v) BY <4>5 DEF Publish
      <4> QED BY <2>2, <4>1, <4>2, <4>3, <4>4, <4>5 DEF GitHubStep
    <3>2. UNCHANGED <<tree, was, cached, disk, cmdVars, missed, commandFaults>>
      BY <2>2 DEF GitHubStep, TakeJob, FinishJob, OtherHostTakes, RemovedOnGitHub, Publish,
         NoCommandFault
    <3> QED BY <3>1, <3>2
         DEF cmdVars, ManifestInv, ManifestTypeOK, OwnIdsOnly, HasGoal, OwnOrNone
  <2>3. CASE UNCHANGED manifestVars
    BY <2>3 DEF manifestVars, hostVars, cmdVars, ManifestInv, ManifestTypeOK, OwnIdsOnly,
       HasGoal, OwnOrNone
  <2> QED BY <2>1, <2>2, <2>3 DEF ManifestNext
<1> QED BY <1>1, <1>2, PTL DEF ManifestSpec

\* Registrations, trees, the manifest and its copies keep their types.
THEOREM ManifestTypeCorrect == ManifestSpec => []ManifestTypeOK
BY ManifestInvHolds, PTL DEF ManifestInv

\* Whatever is lost, raced or interrupted, by any number of commands at the same time,
\* the id recorded under a name is one this host registered.
THEOREM RecordedIdsAreThisHosts == ManifestSpec => []RecordedIdsAreOwn
<1>1. ManifestInv => RecordedIdsAreOwn
  BY DEF ManifestInv, OwnIdsOnly, OwnOrNone, RecordedIdsAreOwn
<1> QED BY <1>1, ManifestInvHolds, PTL

\* No step leaves a name without a registration that another host has it under: a
\* destroy deletes by the id .runner held, which another host's never is.
THEOREM OthersKeepTheirNames == ManifestSpec => OthersNeverDeregistered
<1>1. ManifestInv /\ [ManifestNext]_manifestVars =>
        [\A n \in Names : gh[n] \in OtherIds => gh'[n] # NoId]_manifestVars
  <2> SUFFICES ASSUME ManifestInv, ManifestNext, NEW n \in Names, gh[n] \in OtherIds
               PROVE  gh'[n] # NoId
    OBVIOUS
  <2> USE ManifestConstants DEF ManifestInv, ManifestTypeOK, OwnIdsOnly, OwnOrNone
  <2>1. CASE \E c \in Commands : CommandStep(c)
    <3> PICK c \in Commands : CommandStep(c) BY <2>1
    <3>1. CASE InstallRunner(c) BY <3>1 DEF InstallRunner
    <3>2. CASE Deregister(c) BY <3>2 DEF Deregister
    <3>3. CASE ~InstallRunner(c) /\ ~Deregister(c)
      <4>1. UNCHANGED gh
        BY <3>3 DEF CommandStep, BeginCreate, BeginDestroy, BeginPass, RemoveRunner, LoadState,
           StoreRecord, ListRunners, SkipRow, ResolveTarget, TakeRow, RecheckBusy, SwapAgent,
           SaveState, KillCommand, hostVars
      <4> QED BY <4>1
    <3> QED BY <3>1, <3>2, <3>3
  <2>2. CASE GitHubStep
    BY <2>2 DEF GitHubStep, TakeJob, FinishJob, OtherHostTakes, RemovedOnGitHub, Publish
  <2> QED BY <2>1, <2>2 DEF ManifestNext
<1> QED BY <1>1, ManifestInvHolds, PTL DEF ManifestSpec, OthersNeverDeregistered
-----------------------------------------------------------------------------
(* The manifest against the host, when commands follow one another *)

\* "Never concurrent with each other" (mutateState): what the manifest relies on and
\* no lock enforces.
OneAtATime ==
  \A c, d \in Commands : cmdPc[c] # "idle" /\ cmdPc[d] # "idle" => c = d

\* What a record says of a runner is true of it.
Fits(r, n) ==
  IF Installed(n)
  THEN /\ r.ver  \in {0, tree[n].ver}
       /\ r.prev \in {0, was[n]}
       /\ r.id   \in {NoId, tree[n].id}
  ELSE r = NoRecord

\* The command has changed a runner and not yet saved what it changed.
Unsaved(c, n) == at[c] = n /\ cmdPc[c] \in {"load", "store", "save"}

\* state.json is true of every runner but the one a command is at, and the ones that
\* failed or killed commands were at.
DiskFits ==
  \A n \in Names \ missed : (\A c \in Commands : ~Unsaved(c, n)) => Fits(disk[n], n)

\* What create and destroy are about to record.
LifecycleKnows(c) ==
  /\ cmdPc[c] \in {"install", "remove", "load", "store"} => at[c] \in Names
  /\ cmdPc[c] \in {"load", "store"} =>
       IF kind[c] = "create"
       THEN tree[at[c]] = [ver |-> goal[c], id |-> idr[c]] /\ was[at[c]] = 0 /\ goal[c] # 0
       ELSE tree[at[c]] = NoTree
  /\ cmdPc[c] = "install" => kind[c] = "create"
  /\ cmdPc[c] = "remove" => kind[c] = "destroy"
  /\ cmdPc[c] = "store" => mem[c] = disk

PassPcs == {"list", "row", "recheck", "swap", "save"}

\* The copy a pass works on is as true as the file.
PassFits(c) ==
  cmdPc[c] \in PassPcs => \A n \in Names \ missed : Fits(mem[c][n], n)

\* A runner that is installed has the registration its .runner names, unless its name
\* is another host's by now or nobody's.
TreesOwnNames ==
  \A n \in Names : Installed(n) => tree[n].id # NoId /\ (gh[n] \in OwnIds => gh[n] = tree[n].id)

\* The same of the rows a pass has listed: GitHub may change after, the tree does not.
RowsOwnNames(c) ==
  cmdPc[c] \in PassPcs \ {"list"} =>
    \A r \in rows[c] : Installed(r.name) /\ r.id \in OwnIds => r.id = tree[r.name].id

\* What the gates of a pass have established of the runner it is at.
GatesKnow(c) ==
  cmdPc[c] \in {"recheck", "swap"} =>
    /\ at[c] \in Names
    /\ idr[c] = RecordedId(c, at[c])
    /\ Installed(at[c]) => tree[at[c]].id = liveId[c]
    /\ kind[c] = "upgrade" /\ mem[c][at[c]].ver # 0 => goal[c] >= mem[c][at[c]].ver

Knows(c) == LifecycleKnows(c) /\ PassFits(c) /\ RowsOwnNames(c) /\ GatesKnow(c)

ManifestTruth == DiskFits /\ TreesOwnNames /\ \A c \in Commands : Knows(c)

\* The other commands have ended, and the step of c begins none of them.
Alone(c) == \A d \in Commands \ {c} : cmdPc[d] = "idle" /\ cmdPc'[d] = "idle"

\* A command that moves is the one that runs.
LEMMA MovesAlone ==
  ASSUME ManifestInv, OneAtATime, OneAtATime', NEW c \in Commands, CommandStep(c)
  PROVE  Alone(c)
<1>0. cmdPc \in [Commands -> CommandPcs] BY DEF ManifestInv, ManifestTypeOK
<1>1. \E step : cmdPc' = [cmdPc EXCEPT ![c] = step]
  <2>1. CASE \/ \E n \in Names : BeginCreate(c, n) \/ BeginDestroy(c, n)
             \/ \E k \in OpKinds : BeginPass(c, k)
    BY <2>1 DEF BeginCreate, BeginDestroy, BeginPass, Begin, Advance
  <2>2. CASE InstallRunner(c) \/ RemoveRunner(c) \/ LoadState(c) \/ StoreRecord(c) \/ Deregister(c)
    BY <2>2 DEF InstallRunner, RemoveRunner, LoadState, StoreRecord, Deregister, End, Advance
  <2>3. CASE ListRunners(c) \/ SkipRow(c) \/ ResolveTarget(c) \/ RecheckBusy(c) \/ SwapAgent(c)
    BY <2>3 DEF ListRunners, SkipRow, ResolveTarget, RecheckBusy, SwapAgent, Advance
  <2>4. CASE SaveState(c) \/ KillCommand(c)
    BY <2>4 DEF SaveState, KillCommand, End, Advance
  <2> QED BY <2>1, <2>2, <2>3, <2>4 DEF CommandStep
<1>2. cmdPc[c] # "idle" \/ cmdPc'[c] # "idle"
  <2>1. CASE \/ \E n \in Names : BeginCreate(c, n) \/ BeginDestroy(c, n)
             \/ \E k \in OpKinds : BeginPass(c, k)
    BY <1>0, <2>1 DEF BeginCreate, BeginDestroy, BeginPass, Begin, Advance
  <2>2. CASE InstallRunner(c) \/ RemoveRunner(c) \/ LoadState(c) \/ StoreRecord(c) \/ Deregister(c)
    BY <2>2 DEF InstallRunner, RemoveRunner, LoadState, StoreRecord, Deregister
  <2>3. CASE ListRunners(c) \/ SkipRow(c) \/ ResolveTarget(c) \/ RecheckBusy(c) \/ SwapAgent(c)
    BY <2>3 DEF ListRunners, SkipRow, ResolveTarget, TakeRow, RecheckBusy, SwapAgent
  <2>4. CASE SaveState(c) \/ KillCommand(c)
    BY <2>4 DEF SaveState, KillCommand
  <2> QED BY <2>1, <2>2, <2>3, <2>4 DEF CommandStep
<1> QED BY <1>0, <1>1, <1>2 DEF OneAtATime, Alone

\* Of a command that does not run there is nothing to know.
LEMMA TruthOfOne ==
  ASSUME NEW c \in Commands, \A d \in Commands \ {c} : cmdPc'[d] = "idle",
         \A n \in Names \ missed' : Unsaved(c, n)' \/ Fits(disk[n], n)',
         TreesOwnNames', Knows(c)'
  PROVE  ManifestTruth'
BY DEF ManifestTruth, DiskFits, Knows, LifecycleKnows, PassFits, RowsOwnNames, GatesKnow, PassPcs

\* Between the change of a runner and its record the file may lie of that runner only.
LEMMA TruthForOne ==
  ASSUME ManifestTruth, NEW c \in Commands, \A d \in Commands \ {c} : cmdPc[d] = "idle"
  PROVE  \A n \in Names \ missed : Unsaved(c, n) \/ Fits(disk[n], n)
BY DEF ManifestTruth, DiskFits, Unsaved

\* A command that ends, having changed no runner, leaves what was true; a fault on the
\* way accounts for the runner it was at.
LEMMA EndKeepsTruth ==
  ASSUME ManifestInv, ManifestTruth, NEW c \in Commands, Alone(c), End(c),
         UNCHANGED <<tree, was, disk>>, missed \subseteq missed',
         \A n \in Names \ missed' : ~Unsaved(c, n),
         TreesOwnNames'
  PROVE  ManifestTruth'
<1>1. cmdPc'[c] = "idle" BY DEF End, Advance, ManifestInv, ManifestTypeOK
<1>2. Knows(c)' BY <1>1 DEF Knows, LifecycleKnows, PassFits, RowsOwnNames, GatesKnow, PassPcs
<1>3. \A n \in Names \ missed' : Fits(disk[n], n)'
  BY TruthForOne DEF Alone, Fits, Installed
<1> QED BY <1>2, <1>3, TruthOfOne DEF Alone
\* create and destroy: between the teardown and the record the file may lie of the one
\* runner the command is at.
LEMMA LifecycleTruth ==
  ASSUME ManifestInv, ManifestTruth, NEW c \in Commands, Alone(c),
         \/ \E n \in Names : BeginCreate(c, n) \/ BeginDestroy(c, n)
         \/ InstallRunner(c) \/ RemoveRunner(c) \/ LoadState(c) \/ StoreRecord(c)
         \/ Deregister(c)
  PROVE  ManifestTruth'
<1>0. /\ cmdPc \in [Commands -> CommandPcs] /\ kind \in [Commands -> OpKinds \cup {"none"}]
      /\ at \in [Commands -> Names \cup {NoId}] /\ idr \in [Commands -> {NoId} \cup Ids]
      /\ mem \in [Commands -> [Names -> Records]] /\ goal \in [Commands -> {0} \cup Releases]
      /\ tree \in [Names -> Trees] /\ was \in [Names -> {0} \cup Releases]
      /\ disk \in [Names -> Records] /\ gh \in [Names -> {NoId} \cup Ids]
  BY DEF ManifestInv, ManifestTypeOK
<1>1. \A n \in Names \ missed : Unsaved(c, n) \/ Fits(disk[n], n)
  BY TruthForOne DEF Alone
<1>2. TreesOwnNames /\ Knows(c) BY DEF ManifestTruth
<1>a. \A d \in Commands \ {c} : cmdPc'[d] = "idle" BY DEF Alone
<1>b. NoId \notin OwnIds BY ManifestConstants
<1>3. CASE \E n \in Names : BeginCreate(c, n) \/ BeginDestroy(c, n)
  <2> PICK n \in Names : BeginCreate(c, n) \/ BeginDestroy(c, n) BY <1>3
  <2>1. /\ cmdPc[c] = "idle" /\ at' = [at EXCEPT ![c] = n]
        /\ UNCHANGED <<hostVars, disk, missed>>
        /\ \/ cmdPc' = [cmdPc EXCEPT ![c] = "install"] /\ kind' = [kind EXCEPT ![c] = "create"]
           \/ cmdPc' = [cmdPc EXCEPT ![c] = "remove"] /\ kind' = [kind EXCEPT ![c] = "destroy"]
    BY DEF BeginCreate, BeginDestroy, Begin, Advance, NoCommandFault
  <2>2. \A m \in Names \ missed' : Fits(disk[m], m)'
    BY <1>1, <2>1 DEF Fits, Installed, hostVars, Unsaved
  <2>3. TreesOwnNames' BY <1>2, <2>1 DEF TreesOwnNames, Installed, hostVars
  <2>4. Knows(c)'
    BY <1>0, <2>1 DEF Knows, LifecycleKnows, PassFits, RowsOwnNames, GatesKnow, PassPcs
  <2> QED BY <1>a, <2>2, <2>3, <2>4, TruthOfOne
<1>4. CASE InstallRunner(c)
  <2>1. at[c] \in Names /\ kind[c] = "create" /\ goal[c] # 0
    BY <1>2, <1>4 DEF Knows, LifecycleKnows, InstallRunner, ManifestInv, HasGoal
  <2>2. was'[at[c]] = 0 /\ disk' = disk /\ \A m \in Names \ {at[c]} : was'[m] = was[m]
    BY <1>0, <1>4, <2>1 DEF InstallRunner
  <2>3. ASSUME missed' = missed \cup {at[c]}, \A m \in Names \ {at[c]} : tree'[m] = tree[m]
        PROVE  \A m \in Names \ missed' : Fits(disk[m], m)'
    <3>1. \A m \in Names \ missed' : m \notin missed /\ ~Unsaved(c, m) /\ tree'[m] = tree[m] /\ was'[m] = was[m]
      BY <2>2, <2>3 DEF Unsaved
    <3> QED BY <1>1, <2>2, <3>1 DEF Fits, Installed
  <2>4. ASSUME End(c) PROVE Knows(c)'
    BY <1>0, <2>4 DEF End, Advance, Knows, LifecycleKnows, PassFits, RowsOwnNames, GatesKnow, PassPcs
  <2>5. CASE /\ tree' = [tree EXCEPT ![at[c]] = NoTree]
             /\ gh' = gh /\ FaultMisses(c, "install") /\ End(c)
    <3>1. missed' = missed \cup {at[c]} BY <2>1, <2>5 DEF FaultMisses
    <3>2. TreesOwnNames' BY <1>0, <1>2, <2>1, <2>5 DEF TreesOwnNames, Installed
    <3> QED BY <1>0, <1>a, <2>1, <2>3, <2>4, <2>5, <3>1, <3>2, TruthOfOne
  <2>6. ASSUME NEW id \in OwnIds,
               gh' = [gh EXCEPT ![at[c]] = id],
               tree' = [tree EXCEPT ![at[c]] = [ver |-> goal[c], id |-> id]],
               \/ /\ NoCommandFault /\ idr' = [idr EXCEPT ![c] = id] /\ Advance(c, "load")
                  /\ UNCHANGED <<kind, at, goal>>
               \/ FaultMisses(c, "install") /\ End(c)
        PROVE  ManifestTruth'
    <3>1. /\ tree'[at[c]] = [ver |-> goal[c], id |-> id] /\ gh'[at[c]] = id
          /\ \A m \in Names \ {at[c]} : tree'[m] = tree[m] /\ gh'[m] = gh[m]
      BY <1>0, <2>1, <2>6
    <3>2. TreesOwnNames' BY <1>b, <1>2, <3>1 DEF TreesOwnNames, Installed
    <3>3. CASE FaultMisses(c, "install") /\ End(c)
      <4>1. missed' = missed \cup {at[c]} BY <2>1, <3>3 DEF FaultMisses
      <4> QED BY <1>a, <2>3, <2>4, <3>1, <3>2, <3>3, <4>1, TruthOfOne
    <3>4. CASE /\ NoCommandFault /\ idr' = [idr EXCEPT ![c] = id] /\ Advance(c, "load")
               /\ UNCHANGED <<kind, at, goal>>
      <4>1. cmdPc'[c] = "load" /\ idr'[c] = id /\ missed' = missed
        BY <1>0, <3>4 DEF Advance, NoCommandFault
      <4>2. \A m \in Names \ missed' : Unsaved(c, m)' \/ Fits(disk[m], m)'
        <5>1. \A m \in Names \ missed' : m # at[c] => Fits(disk[m], m) BY <1>1, <4>1 DEF Unsaved
        <5> QED BY <2>2, <3>1, <3>4, <4>1, <5>1 DEF Fits, Installed, Unsaved
      <4>3. Knows(c)'
        BY <2>1, <2>2, <3>1, <3>4, <4>1 DEF Knows, LifecycleKnows, PassFits, RowsOwnNames, GatesKnow, PassPcs
      <4> QED BY <1>a, <3>2, <4>2, <4>3, TruthOfOne
    <3> QED BY <2>6, <3>3, <3>4
  <2> QED BY <1>4, <2>5, <2>6 DEF InstallRunner
<1>5. CASE RemoveRunner(c)
  <2>1. /\ cmdPc[c] = "remove" /\ at[c] \in Names /\ kind[c] = "destroy"
        /\ cmdPc' = [cmdPc EXCEPT ![c] = "load"]
        /\ tree' = [tree EXCEPT ![at[c]] = NoTree] /\ was' = [was EXCEPT ![at[c]] = 0]
        /\ UNCHANGED <<gh, disk, missed, at, kind>>
    BY <1>2, <1>5 DEF RemoveRunner, Advance, NoCommandFault, Knows, LifecycleKnows
  <2>2. \A m \in Names \ {at[c]} : tree'[m] = tree[m] /\ was'[m] = was[m] BY <1>0, <2>1
  <2>3. tree'[at[c]] = NoTree BY <1>0, <2>1
  <2>4. \A m \in Names \ missed' : Unsaved(c, m)' \/ Fits(disk[m], m)'
    BY <1>0, <1>1, <2>1, <2>2 DEF Fits, Installed, Unsaved
  <2>5. TreesOwnNames' BY <1>2, <2>1, <2>2, <2>3 DEF TreesOwnNames, Installed
  <2>6. Knows(c)'
    BY <1>0, <2>1, <2>3 DEF Knows, LifecycleKnows, PassFits, RowsOwnNames, GatesKnow, PassPcs
  <2> QED BY <1>a, <2>4, <2>5, <2>6, TruthOfOne
<1>6. CASE LoadState(c)
  <2>1. /\ cmdPc[c] = "load" /\ mem' = [mem EXCEPT ![c] = disk]
        /\ cmdPc' = [cmdPc EXCEPT ![c] = "store"]
        /\ UNCHANGED <<tree, was, gh, disk, missed, at, kind, idr, goal>>
    BY <1>6 DEF LoadState, Advance, NoCommandFault, hostVars
  <2>2. \A m \in Names \ missed' : Unsaved(c, m)' \/ Fits(disk[m], m)'
    BY <1>0, <1>1, <2>1 DEF Fits, Installed, Unsaved
  <2>3. TreesOwnNames' BY <1>2, <2>1 DEF TreesOwnNames, Installed
  <2>4. Knows(c)'
    BY <1>0, <1>2, <2>1 DEF Knows, LifecycleKnows, PassFits, RowsOwnNames, GatesKnow, PassPcs
  <2> QED BY <1>a, <2>2, <2>3, <2>4, TruthOfOne
<1>7. CASE StoreRecord(c)
  <2>1. /\ cmdPc[c] = "store" /\ at[c] \in Names /\ mem[c] = disk
        /\ UNCHANGED <<tree, was, gh>>
        /\ cmdPc'[c] \in {"deregister", "idle"}
    BY <1>0, <1>2, <1>7 DEF StoreRecord, Knows, LifecycleKnows, Advance, End, hostVars
  <2>2. TreesOwnNames' BY <1>2, <2>1 DEF TreesOwnNames, Installed
  <2>3. Knows(c)'
    BY <2>1 DEF Knows, LifecycleKnows, PassFits, RowsOwnNames, GatesKnow, PassPcs
  <2>4. \A m \in Names \ missed : m # at[c] => Fits(disk[m], m) BY <1>1 DEF Unsaved
  <2>5. CASE FaultMisses(c, "save") /\ UNCHANGED disk
    <3>1. missed' = missed \cup {at[c]} /\ disk' = disk BY <2>1, <2>5 DEF FaultMisses
    <3>2. \A m \in Names \ missed' : Fits(disk[m], m)' BY <2>1, <2>4, <3>1 DEF Fits, Installed
    <3> QED BY <1>a, <2>2, <2>3, <3>2, TruthOfOne
  <2>6. CASE /\ missed' = missed \ {at[c]}
             /\ disk' = [mem[c] EXCEPT ![at[c]] =
                           IF kind[c] = "create"
                           THEN [ver |-> goal[c], prev |-> 0, id |-> idr[c]]
                           ELSE NoRecord]
    <3>1. \A m \in Names \ {at[c]} : disk'[m] = disk[m] BY <1>0, <2>1, <2>6
    <3>2. disk'[at[c]] = IF kind[c] = "create"
                         THEN [ver |-> goal[c], prev |-> 0, id |-> idr[c]]
                         ELSE NoRecord
      BY <1>0, <2>1, <2>6
    <3>3. PICK n \in Names : n = at[c] BY <2>1
    <3>4. Fits(disk[n], n)'
      <4>1. CASE kind[c] = "create"
        <5>1. tree[n] = [ver |-> goal[c], id |-> idr[c]] /\ was[n] = 0 /\ goal[c] # 0
          BY <1>2, <2>1, <3>3, <4>1 DEF Knows, LifecycleKnows
        <5>2. tree[n].ver = goal[c] /\ tree[n].id = idr[c] /\ tree[n] # NoTree
          BY <5>1 DEF NoTree
        <5> QED BY <2>1, <3>2, <3>3, <4>1, <5>1, <5>2 DEF Fits, Installed
      <4>2. CASE kind[c] # "create"
        <5>1. tree[n] = NoTree BY <1>2, <2>1, <3>3, <4>2 DEF Knows, LifecycleKnows
        <5> QED BY <2>1, <3>2, <3>3, <4>2, <5>1 DEF Fits, Installed
      <4> QED BY <4>1, <4>2
    <3>5. \A m \in Names \ missed' : Fits(disk[m], m)'
      <4> SUFFICES ASSUME NEW m \in Names \ missed' PROVE Fits(disk[m], m)'
        OBVIOUS
      <4>1. CASE m = n BY <3>4, <4>1
      <4>2. CASE m # n
        <5>1. Fits(disk[m], m) BY <2>4, <2>6, <3>3, <4>2
        <5> QED BY <2>1, <3>1, <3>3, <4>2, <5>1 DEF Fits, Installed
      <4> QED BY <4>1, <4>2
    <3> QED BY <1>a, <2>2, <2>3, <3>5, TruthOfOne
  <2> QED BY <1>7, <2>5, <2>6 DEF StoreRecord
<1>8. CASE Deregister(c)
  <2>1. /\ cmdPc[c] = "deregister" /\ End(c) /\ UNCHANGED <<tree, was, disk>>
        /\ missed' = missed
        /\ gh' \in {gh, [n \in Names |-> IF gh[n] = idr[c] THEN NoId ELSE gh[n]]}
    BY <1>8 DEF Deregister, FaultSpares, NoCommandFault
  <2>2. TreesOwnNames' BY <1>b, <1>0, <1>2, <2>1 DEF TreesOwnNames, Installed
  <2>3. \A n \in Names \ missed' : ~Unsaved(c, n) BY <2>1 DEF Unsaved
  <2> QED BY <2>1, <2>2, <2>3, EndKeepsTruth
<1> QED BY <1>3, <1>4, <1>5, <1>6, <1>7, <1>8
\* A pass and a killed command: the copy a pass writes back is as true as the file it
\* replaces, and a swap is recorded in the copy in the same step.
LEMMA PassTruth ==
  ASSUME ManifestInv, ManifestTruth, NEW c \in Commands, Alone(c),
         \/ \E k \in OpKinds : BeginPass(c, k)
         \/ ListRunners(c) \/ SkipRow(c) \/ ResolveTarget(c) \/ RecheckBusy(c)
         \/ SwapAgent(c) \/ SaveState(c) \/ KillCommand(c)
  PROVE  ManifestTruth'
<1>0. /\ cmdPc \in [Commands -> CommandPcs] /\ kind \in [Commands -> OpKinds \cup {"none"}]
      /\ at \in [Commands -> Names \cup {NoId}] /\ idr \in [Commands -> {NoId} \cup Ids]
      /\ mem \in [Commands -> [Names -> Records]] /\ goal \in [Commands -> {0} \cup Releases]
      /\ rows \in [Commands -> SUBSET Rows] /\ liveId \in [Commands -> {NoId} \cup Ids]
      /\ tree \in [Names -> Trees] /\ was \in [Names -> {0} \cup Releases]
      /\ disk \in [Names -> Records] /\ gh \in [Names -> {NoId} \cup Ids]
  BY DEF ManifestInv, ManifestTypeOK
<1>1. \A n \in Names \ missed : Unsaved(c, n) \/ Fits(disk[n], n)
  BY TruthForOne DEF Alone
<1>2. TreesOwnNames /\ Knows(c) BY DEF ManifestTruth
<1>a. \A d \in Commands \ {c} : cmdPc'[d] = "idle" BY DEF Alone
<1>b. NoId \notin OwnIds BY ManifestConstants
<1>3. CASE \E k \in OpKinds : BeginPass(c, k)
  <2>1. /\ cmdPc[c] = "idle" /\ cmdPc'[c] = "list" /\ mem'[c] = disk
        /\ UNCHANGED <<tree, was, gh, disk, missed>>
    BY <1>0, <1>3 DEF BeginPass, Begin, Advance, NoCommandFault, hostVars
  <2>2. \A m \in Names \ missed' : Fits(disk[m], m)'
    BY <1>1, <2>1 DEF Fits, Installed, Unsaved
  <2>3. TreesOwnNames' BY <1>2, <2>1 DEF TreesOwnNames, Installed
  <2>4. PassFits(c)' BY <2>1, <2>2 DEF PassFits, Fits, Installed
  <2>5. Knows(c)' BY <2>1, <2>4 DEF Knows, LifecycleKnows, RowsOwnNames, GatesKnow, PassPcs
  <2> QED BY <1>a, <2>2, <2>3, <2>5, TruthOfOne
<1>4. CASE ListRunners(c)
  <2>1. /\ cmdPc[c] = "list" /\ cmdPc'[c] = "row"
        /\ UNCHANGED <<tree, was, gh, disk, missed, mem>>
    BY <1>0, <1>4 DEF ListRunners, Advance, NoCommandFault, FaultSpares, hostVars
  <2>2. \A r \in rows'[c] : Installed(r.name) /\ r.name \in Names /\ r.id = gh[r.name]
    <3>1. CASE rows' = [rows EXCEPT ![c] = {}] BY <1>0, <3>1
    <3>2. ASSUME NEW only \in SUBSET Names,
                 rows' = [rows EXCEPT ![c] =
                            {[name |-> n, id |-> gh[n], busy |-> gh[n] \in busy] :
                               n \in {m \in only : Installed(m) /\ gh[m] # NoId}}]
          PROVE  \A r \in rows'[c] : Installed(r.name) /\ r.name \in Names /\ r.id = gh[r.name]
      <4>1. rows'[c] = {[name |-> n, id |-> gh[n], busy |-> gh[n] \in busy] :
                          n \in {m \in only : Installed(m) /\ gh[m] # NoId}}
        BY <1>0, <3>2
      <4> QED BY <4>1
    <3> QED BY <1>4, <3>1, <3>2 DEF ListRunners
  <2>3. RowsOwnNames(c)' BY <1>2, <2>1, <2>2 DEF RowsOwnNames, TreesOwnNames, Installed
  <2>4. \A m \in Names \ missed' : Fits(disk[m], m)'
    BY <1>1, <2>1 DEF Fits, Installed, Unsaved
  <2>5. TreesOwnNames' BY <1>2, <2>1 DEF TreesOwnNames, Installed
  <2>6. PassFits(c)' BY <1>2, <2>1 DEF Knows, PassFits, Fits, Installed, PassPcs
  <2>7. Knows(c)' BY <2>1, <2>3, <2>6 DEF Knows, LifecycleKnows, GatesKnow
  <2> QED BY <1>a, <2>4, <2>5, <2>7, TruthOfOne
<1>5. CASE SkipRow(c) \/ ResolveTarget(c)
  <2>1. PICK r \in rows[c] :
          /\ TakeRow(c, r)
          /\ \/ cmdPc' = [cmdPc EXCEPT ![c] = "save"]
             \/ /\ cmdPc' = [cmdPc EXCEPT ![c] = "recheck"]
                /\ Eligible(c, r)
                /\ kind[c] = "upgrade" => VersionGate("upgrade", mem[c][r.name].ver, goal'[c])
    <3>1. CASE SkipRow(c) BY <3>1 DEF SkipRow, Advance
    <3>2. CASE ResolveTarget(c)
      <4> PICK r \in rows[c] : /\ TakeRow(c, r) /\ Eligible(c, r)
            /\ LET rec == mem[c][r.name]
                   to  == IF kind[c] = "rollback" THEN rec.prev
                          ELSE IF goal[c] # 0 THEN goal[c] ELSE pub
               IN \/ /\ goal' = [goal EXCEPT ![c] = to]
                     /\ Advance(c, IF /\ to # 0
                                      /\ kind[c] = "rollback" => to \in cached
                                      /\ VersionGate(kind[c], rec.ver, to)
                                   THEN "recheck" ELSE "save")
                  \/ Advance(c, "save")
        BY <3>2 DEF ResolveTarget
      <4> DEFINE to == IF kind[c] = "rollback" THEN mem[c][r.name].prev
                       ELSE IF goal[c] # 0 THEN goal[c] ELSE pub
      <4>1. CASE Advance(c, "save") BY <4>1 DEF Advance
      <4>2. CASE ~Advance(c, "save")
        <5>1. goal'[c] = to /\ VersionGate(kind[c], mem[c][r.name].ver, to) /\ Advance(c, "recheck")
          BY <1>0, <4>2
        <5> HIDE DEF to
        <5> QED BY <5>1 DEF Advance
      <4> QED BY <4>1, <4>2
    <3> QED BY <1>5, <3>1, <3>2
  <2>2. /\ cmdPc[c] = "row" /\ at'[c] = r.name /\ liveId'[c] = r.id
        /\ idr'[c] = RecordedId(c, r.name) /\ rows'[c] \subseteq rows[c]
        /\ UNCHANGED <<tree, was, gh, disk, kind, mem>>
    BY <1>0, <2>1 DEF TakeRow, hostVars
  <2>3. cmdPc'[c] \in {"save", "recheck"} BY <1>0, <2>1
  <2>4. r.name \in Names /\ r.id \in Ids BY <1>0 DEF Rows
  <2>5. missed' = missed
    BY <1>5 DEF SkipRow, ResolveTarget, NoCommandFault, FaultSpares
  <2>6. \A m \in Names \ missed' : Fits(disk[m], m)'
    BY <1>1, <2>2, <2>5 DEF Fits, Installed, Unsaved
  <2>7. TreesOwnNames' BY <1>2, <2>2 DEF TreesOwnNames, Installed
  <2>8. PassFits(c)' BY <1>2, <2>2, <2>5 DEF Knows, PassFits, Fits, Installed, PassPcs
  <2>9. RowsOwnNames(c)' BY <1>2, <2>2 DEF Knows, RowsOwnNames, Installed, PassPcs
  <2>10. GatesKnow(c)'
    <3> SUFFICES ASSUME cmdPc'[c] = "recheck" PROVE GatesKnow(c)'
      BY <2>3 DEF GatesKnow
    <3>1. Eligible(c, r) /\ (kind[c] = "upgrade" => VersionGate("upgrade", mem[c][r.name].ver, goal'[c]))
      BY <1>0, <2>1
    <3>2. RecordedId(c, r.name) = RecordedId(c, r.name)' /\ (RecordedId(c, at[c]))' = RecordedId(c, r.name)
      BY <2>2 DEF RecordedId
    <3>3. ASSUME Installed(r.name) PROVE tree[r.name].id = r.id
      <4>1. RecordedId(c, r.name) \in {NoId, r.id} BY <3>1 DEF Eligible
      <4>2. RecordedId(c, r.name) \in OwnOrNone
        BY <1>0, <2>4 DEF RecordedId, ManifestInv, OwnIdsOnly, OwnOrNone, Trees
      <4>3. tree[r.name].id # NoId BY <1>2, <2>4, <3>3 DEF TreesOwnNames
      <4>4. RecordedId(c, r.name) # NoId BY <4>3 DEF RecordedId
      <4>5. r.id \in OwnIds BY <4>1, <4>2, <4>4 DEF OwnOrNone
      <4> QED BY <1>2, <2>2, <3>3, <4>5 DEF Knows, RowsOwnNames, PassPcs
    <3>4. kind[c] = "upgrade" /\ mem[c][r.name].ver # 0 => goal'[c] >= mem[c][r.name].ver
      BY <3>1 DEF VersionGate
    <3> QED BY <2>2, <2>4, <3>2, <3>3, <3>4 DEF GatesKnow, Installed
  <2>11. LifecycleKnows(c)' BY <2>3 DEF LifecycleKnows
  <2>12. Knows(c)' BY <2>8, <2>9, <2>10, <2>11 DEF Knows
  <2> QED BY <1>a, <2>6, <2>7, <2>12, TruthOfOne
<1>6. CASE RecheckBusy(c)
  <2>1. /\ cmdPc[c] = "recheck" /\ cmdPc'[c] \in {"save", "swap"}
        /\ UNCHANGED <<tree, was, gh, disk, missed, at, mem, rows, idr, liveId, kind, goal>>
    BY <1>0, <1>6 DEF RecheckBusy, Advance, NoCommandFault, FaultSpares, hostVars
  <2>2. \A m \in Names \ missed' : Unsaved(c, m)' \/ Fits(disk[m], m)'
    BY <1>1, <2>1 DEF Fits, Installed, Unsaved
  <2>3. TreesOwnNames' BY <1>2, <2>1 DEF TreesOwnNames, Installed
  <2>4. Knows(c)'
    BY <1>2, <2>1 DEF Knows, LifecycleKnows, PassFits, RowsOwnNames, GatesKnow, PassPcs, Fits, Installed,
                     RecordedId
  <2> QED BY <1>a, <2>2, <2>3, <2>4, TruthOfOne
<1>7. CASE SwapAgent(c)
  <2>1. /\ cmdPc[c] = "swap" /\ cmdPc'[c] = "save" /\ at[c] \in Names
        /\ UNCHANGED <<gh, disk, missed, kind, at, liveId, idr, rows, goal>>
        /\ idr[c] = RecordedId(c, at[c]) /\ goal[c] \in Releases
    BY <1>0, <1>2, <1>7
    DEF SwapAgent, Advance, NoCommandFault, FaultSpares, Knows, GatesKnow, ManifestInv, HasGoal
  <2>2. LifecycleKnows(c)' /\ GatesKnow(c)' BY <2>1 DEF LifecycleKnows, GatesKnow
  <2>3. \A m \in Names \ missed : Fits(disk[m], m) /\ Fits(mem[c][m], m)
    BY <1>1, <1>2, <2>1 DEF Unsaved, Knows, PassFits, PassPcs
  <2>4. CASE UNCHANGED <<tree, was, mem>>
    <3>1. \A m \in Names \ missed' : Fits(disk[m], m)' BY <2>1, <2>3, <2>4 DEF Fits, Installed
    <3>2. TreesOwnNames' BY <1>2, <2>1, <2>4 DEF TreesOwnNames, Installed
    <3>3. PassFits(c)' BY <2>1, <2>3, <2>4 DEF PassFits, Fits, Installed
    <3>4. RowsOwnNames(c)' BY <1>2, <2>1, <2>4 DEF Knows, RowsOwnNames, Installed, PassPcs
    <3> QED BY <1>a, <2>2, <3>1, <3>2, <3>3, <3>4, TruthOfOne DEF Knows
  <2>5. CASE ~UNCHANGED <<tree, was, mem>>
    <3>1. /\ Installed(at[c])
          /\ tree' = [tree EXCEPT ![at[c]].ver = goal[c]]
          /\ was'  = [was EXCEPT ![at[c]] = tree[at[c]].ver]
          /\ mem'  = [mem EXCEPT ![c][at[c]] = [ver |-> goal[c], prev |-> @.ver, id |-> idr[c]]]
      BY <1>7, <2>5 DEF SwapAgent
    <3>2. PICK n \in Names : n = at[c] BY <2>1
    <3>3. \A m \in Names \ {n} : tree'[m] = tree[m] /\ was'[m] = was[m] /\ mem'[c][m] = mem[c][m]
      BY <1>0, <3>1, <3>2
    <3>4. tree'[n].ver = goal[c] /\ tree'[n].id = tree[n].id /\ was'[n] = tree[n].ver
      <4>1. tree[n] \in [ver : {0} \cup Releases, id : {NoId} \cup OwnIds] BY <1>0 DEF Trees
      <4> QED BY <1>0, <3>1, <3>2, <4>1
    <3>5. mem'[c][n] = [ver |-> goal[c], prev |-> mem[c][n].ver, id |-> idr[c]]
      BY <1>0, <3>1, <3>2
    <3>6. Installed(n) /\ tree'[n] # NoTree
      <4>1. goal[c] # 0 BY <2>1 DEF Releases
      <4> QED BY <3>1, <3>2, <3>4, <4>1 DEF NoTree
    <3>7. \A m \in Names : m # n => (Installed(m) <=> Installed(m)')
      BY <3>3 DEF Installed
    <3>8. \A m \in Names \ missed' : Unsaved(c, m)' \/ Fits(disk[m], m)'
      BY <2>1, <2>3, <3>2, <3>3, <3>7 DEF Fits, Unsaved
    <3>9. TreesOwnNames' BY <1>2, <2>1, <3>3, <3>4, <3>6, <3>7 DEF TreesOwnNames
    <3>10. PassFits(c)'
      <4> SUFFICES ASSUME NEW m \in Names \ missed' PROVE Fits(mem[c][m], m)'
        BY DEF PassFits
      <4>1. Fits(mem[c][m], m) BY <2>1, <2>3
      <4>2. CASE m # n BY <3>3, <3>7, <4>1, <4>2 DEF Fits
      <4>3. CASE m = n
        <5>1. mem[c][n].ver \in {0, tree[n].ver} /\ mem[c][n].id \in {NoId, tree[n].id}
          BY <3>6, <4>1, <4>3 DEF Fits
        <5>2. idr[c] = tree[n].id BY <2>1, <3>2, <5>1 DEF RecordedId
        <5>3. Installed(n)' BY <3>6 DEF Installed
        <5>4. /\ mem'[c][n].ver = goal[c] /\ mem'[c][n].prev = mem[c][n].ver
              /\ mem'[c][n].id = idr[c]
          BY <3>5
        <5> QED BY <3>4, <4>3, <5>1, <5>2, <5>3, <5>4 DEF Fits
      <4> QED BY <4>2, <4>3
    <3>11. RowsOwnNames(c)'
      <4>1. \A r \in rows[c] : r.name \in Names BY <1>0 DEF Rows
      <4>2. \A r \in rows[c] : Installed(r.name) /\ r.id \in OwnIds => r.id = tree[r.name].id
        BY <1>2, <2>1 DEF Knows, RowsOwnNames, PassPcs
      <4>3. \A m \in Names : Installed(m)' => Installed(m) /\ tree'[m].id = tree[m].id
        BY <3>3, <3>4, <3>6, <3>7
      <4>4. rows' = rows BY <2>1
      <4> QED BY <4>1, <4>2, <4>3, <4>4 DEF RowsOwnNames
    <3> QED BY <1>a, <2>2, <3>8, <3>9, <3>10, <3>11, TruthOfOne DEF Knows
  <2> QED BY <2>4, <2>5
<1>8. CASE SaveState(c)
  <2>1. /\ cmdPc[c] \in {"save", "row"} /\ cmdPc'[c] \in {"row", "idle"}
        /\ UNCHANGED <<tree, was, gh>>
        /\ cmdPc'[c] = "row" => UNCHANGED <<mem, rows>>
        /\ \/ missed' = missed /\ disk' = mem[c]
           \/ missed' = missed \cup ({at[c]} \cap Names) /\ disk' = disk
    BY <1>0, <1>8 DEF SaveState, Advance, End, NoCommandFault, FaultMisses, hostVars
  <2>2. \A m \in Names \ missed : Fits(mem[c][m], m)
    BY <1>2, <2>1 DEF Knows, PassFits, PassPcs
  <2>3. \A m \in Names \ missed' : Fits(disk[m], m)'
    <3>1. CASE missed' = missed /\ disk' = mem[c]
      BY <2>1, <2>2, <3>1 DEF Fits, Installed
    <3>2. CASE missed' = missed \cup ({at[c]} \cap Names) /\ disk' = disk
      BY <1>1, <2>1, <3>2 DEF Fits, Installed, Unsaved
    <3> QED BY <2>1, <3>1, <3>2
  <2>4. TreesOwnNames' BY <1>2, <2>1 DEF TreesOwnNames, Installed
  <2>5. PassFits(c)'
    <3>1. missed \subseteq missed' BY <2>1
    <3>2. cmdPc'[c] = "row" => mem' = mem BY <2>1
    <3> QED BY <2>1, <2>2, <3>1, <3>2 DEF PassFits, Fits, Installed, PassPcs
  <2>6. RowsOwnNames(c)' BY <1>2, <2>1 DEF Knows, RowsOwnNames, Installed, PassPcs
  <2>7. LifecycleKnows(c)' /\ GatesKnow(c)' BY <2>1 DEF LifecycleKnows, GatesKnow
  <2> QED BY <1>a, <2>3, <2>4, <2>5, <2>6, <2>7, TruthOfOne DEF Knows
<1>9. CASE KillCommand(c)
  <2>1. End(c) /\ UNCHANGED <<tree, was, disk, gh>> /\ missed' = missed \cup ({at[c]} \cap Names)
    BY <1>9 DEF KillCommand, FaultMisses, hostVars
  <2>2. TreesOwnNames' BY <1>2, <2>1 DEF TreesOwnNames, Installed
  <2>3. \A n \in Names \ missed' : ~Unsaved(c, n) BY <2>1 DEF Unsaved
  <2> QED BY <2>1, <2>2, <2>3, EndKeepsTruth
<1> QED BY <1>3, <1>4, <1>5, <1>6, <1>7, <1>8, <1>9
\* What GitHub and other hosts do changes no tree and no record; a name they take or
\* remove is not the id of its tree any more, and is not claimed to be.
LEMMA GitHubKeepsTruth ==
  ASSUME ManifestInv, ManifestTruth, GitHubStep
  PROVE  ManifestTruth'
<1>1. UNCHANGED <<tree, was, disk, cmdVars, missed>>
  BY DEF GitHubStep, TakeJob, FinishJob, OtherHostTakes, RemovedOnGitHub, Publish, NoCommandFault
<1>2. TreesOwnNames'
  <2>1. \A n \in Names : gh'[n] = gh[n] \/ gh'[n] \notin OwnIds
    BY ManifestConstants DEF GitHubStep, TakeJob, FinishJob, OtherHostTakes, RemovedOnGitHub, Publish,
       ManifestInv, ManifestTypeOK
  <2> QED BY <1>1, <2>1 DEF ManifestTruth, TreesOwnNames, Installed
<1>3. DiskFits' BY <1>1 DEF ManifestTruth, DiskFits, Fits, Installed, Unsaved, cmdVars
<1>4. ASSUME NEW c \in Commands PROVE Knows(c)'
  <2>1. Knows(c) BY DEF ManifestTruth
  <2> QED BY <1>1, <2>1 DEF Knows, LifecycleKnows, PassFits, RowsOwnNames, GatesKnow, Fits, Installed,
             RecordedId, cmdVars
<1> QED BY <1>2, <1>3, <1>4 DEF ManifestTruth

LEMMA TruthHolds == ManifestSpec /\ []OneAtATime => []ManifestTruth
<1>1. ManifestInit => ManifestTruth
  <2> SUFFICES ASSUME ManifestInit PROVE ManifestTruth
    OBVIOUS
  <2>1. \A n \in Names : tree[n] = IF gh[n] = NoId THEN NoTree ELSE [ver |-> pub, id |-> gh[n]]
    BY DEF ManifestInit
  <2>2. \A n \in Names : Fits(disk[n], n) BY DEF ManifestInit, Fits, NoRecord
  <2>3. TreesOwnNames
    <3> SUFFICES ASSUME NEW n \in Names, Installed(n)
                 PROVE  tree[n].id # NoId /\ (gh[n] \in OwnIds => gh[n] = tree[n].id)
      BY DEF TreesOwnNames
    <3>1. gh[n] # NoId /\ tree[n] = [ver |-> pub, id |-> gh[n]] BY <2>1 DEF Installed
    <3> QED BY <3>1
  <2>4. \A c \in Commands : Knows(c)
    BY DEF ManifestInit, Knows, LifecycleKnows, PassFits, RowsOwnNames, GatesKnow, PassPcs
  <2> QED BY <2>2, <2>3, <2>4 DEF ManifestTruth, DiskFits
<1>2. ManifestInv /\ OneAtATime /\ OneAtATime' /\ ManifestTruth /\ [ManifestNext]_manifestVars
        => ManifestTruth'
  <2> SUFFICES ASSUME ManifestInv, OneAtATime, OneAtATime', ManifestTruth,
                      [ManifestNext]_manifestVars
               PROVE  ManifestTruth'
    OBVIOUS
  <2>1. ASSUME NEW c \in Commands, CommandStep(c) PROVE ManifestTruth'
    BY <2>1, MovesAlone, LifecycleTruth, PassTruth DEF CommandStep
  <2>2. CASE GitHubStep BY <2>2, GitHubKeepsTruth
  <2>3. CASE UNCHANGED manifestVars
    <3>1. UNCHANGED <<tree, was, gh, disk, missed, cmdPc, kind, at, liveId, idr, mem, rows, goal>>
      BY <2>3 DEF manifestVars, hostVars, cmdVars
    <3> QED BY <3>1 DEF ManifestTruth, DiskFits, TreesOwnNames, Knows, LifecycleKnows, PassFits,
               RowsOwnNames, GatesKnow, Fits, Installed, Unsaved, RecordedId
  <2> QED BY <2>1, <2>2, <2>3 DEF ManifestNext
<1> QED BY <1>1, <1>2, ManifestInvHolds, PTL DEF ManifestSpec

\* As long as commands follow one another, state.json tells the truth of every runner
\* between commands, but for the ones a failed or killed command was at.
THEOREM ManifestTellsTheTruth == ManifestSpec /\ []OneAtATime => []ManifestSound
<1>1. ManifestInv /\ ManifestTruth => ManifestSound
  BY DEF ManifestInv, ManifestTruth, DiskFits, Unsaved, ManifestSound, ManifestAgrees, RecordTrue, Fits
<1> QED BY <1>1, ManifestInvHolds, TruthHolds, PTL

\* As long as commands follow one another, what the gates of a pass have read still
\* holds at the swap: no runner with a known version is downgraded unforced, and the tree
\* that is swapped is that of the registration GitHub listed.
THEOREM GatesHoldAtTheSwap == ManifestSpec /\ []OneAtATime => GatesHold
<1>1. ManifestInv /\ OneAtATime /\ OneAtATime' /\ ManifestTruth /\ [ManifestNext]_manifestVars =>
        [\A c \in Commands :
           /\ cmdPc[c] = "swap"
           /\ kind[c] = "upgrade"
           /\ mem[c][at[c]].ver # 0
           /\ at[c] \notin missed
           => tree'[at[c]].ver >= tree[at[c]].ver]_manifestVars
  <2> SUFFICES ASSUME ManifestInv, OneAtATime, OneAtATime', ManifestTruth, ManifestNext,
                      NEW c \in Commands,
                      cmdPc[c] = "swap", kind[c] = "upgrade", mem[c][at[c]].ver # 0, at[c] \notin missed
               PROVE  tree'[at[c]].ver >= tree[at[c]].ver
    OBVIOUS
  <2>0. tree \in [Names -> Trees] /\ mem \in [Commands -> [Names -> Records]]
    BY DEF ManifestInv, ManifestTypeOK
  <2>1. PICK n \in Names : n = at[c] /\ goal[c] >= mem[c][n].ver
    BY DEF ManifestTruth, Knows, GatesKnow
  <2>2. Fits(mem[c][n], n) BY <2>1 DEF ManifestTruth, Knows, PassFits, PassPcs
  <2>3. tree[n].ver \in Nat
    <3>1. tree[n] \in Trees BY <2>0
    <3> QED BY <3>1, ManifestConstants DEF Trees, Releases
  <2>4. CASE UNCHANGED tree BY <2>1, <2>3, <2>4
  <2>5. CASE SwapAgent(c) /\ ~UNCHANGED tree
    <3>1. Installed(n) /\ tree' = [tree EXCEPT ![n].ver = goal[c]] BY <2>1, <2>5 DEF SwapAgent
    <3>2. tree'[n].ver = goal[c]
      <4>1. tree[n] \in [ver : {0} \cup Releases, id : {NoId} \cup OwnIds] BY <2>0 DEF Trees
      <4> QED BY <2>0, <3>1, <4>1
    <3>3. mem[c][n].ver = tree[n].ver BY <2>1, <2>2, <3>1 DEF Fits
    <3> QED BY <2>1, <3>2, <3>3
  <2>6. ASSUME NEW d \in Commands, CommandStep(d), ~SwapAgent(c) PROVE UNCHANGED tree
    <3>1. d = c BY <2>6, MovesAlone DEF Alone
    <3> QED BY <2>6, <3>1
        DEF CommandStep, BeginCreate, BeginDestroy, BeginPass, Begin, InstallRunner, RemoveRunner,
            LoadState, StoreRecord, Deregister, ListRunners, SkipRow, ResolveTarget, TakeRow,
            RecheckBusy, SaveState, KillCommand, hostVars
  <2>7. CASE GitHubStep
    BY <2>4, <2>7 DEF GitHubStep, TakeJob, FinishJob, OtherHostTakes, RemovedOnGitHub, Publish
  <2> QED BY <2>4, <2>5, <2>6, <2>7 DEF ManifestNext
<1>2. ManifestInv /\ OneAtATime /\ OneAtATime' /\ ManifestTruth /\ [ManifestNext]_manifestVars =>
        [\A c \in Commands :
           cmdPc[c] = "swap" /\ cmdPc'[c] = "save" /\ Installed(at[c]) =>
             tree[at[c]].id = liveId[c]]_manifestVars
  BY DEF ManifestTruth, Knows, GatesKnow
<1>3. ManifestSpec /\ []OneAtATime => NeverDowngrades
  BY <1>1, ManifestInvHolds, TruthHolds, PTL DEF ManifestSpec, NeverDowngrades
<1>4. ManifestSpec /\ []OneAtATime => SwapsListedRunner
  BY <1>2, ManifestInvHolds, TruthHolds, PTL DEF ManifestSpec, SwapsListedRunner
<1> QED BY <1>3, <1>4, OthersKeepTheirNames, PTL DEF GatesHold

=============================================================================
