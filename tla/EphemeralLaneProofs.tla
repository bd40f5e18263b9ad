------------------------- MODULE EphemeralLaneProofs -------------------------
(***************************************************************************)
(* Proofs about EphemeralLane, for every fleet, every number of ids, every *)
(* number of faults and every number of concurrent operators.              *)
(***************************************************************************)
EXTENDS EphemeralLane, FiniteSetTheorems, TLAPS

USE DEF FaultKinds, OpKinds, CyclePcs, OpPcs

\* Every variable keeps its type, whatever the operators and the faults do.
THEOREM TypeCorrect == Spec => []TypeOK
<1>1. Init => TypeOK
  BY LaneConstants DEF Init, TypeOK
<1>2. TypeOK /\ [Next]_vars => TypeOK'
  <2> SUFFICES ASSUME TypeOK, [Next]_vars PROVE TypeOK'
    OBVIOUS
  <2> USE LaneConstants DEF TypeOK, NoFault, Fault, opVars, laneVars, EndCycle,
        Goto, KillCycle, OpGoto, Begin, EndOp, LocalLanes, DeletedRunner,
        DeleteRunnerFails, DeleteRunnerIgnored
  <2>1. CASE \E l \in Lanes : StartCycle(l) \/ CycleStep(l)
    <3> PICK l \in Lanes : StartCycle(l) \/ CycleStep(l) BY <2>1
    <3>1. CASE StartCycle(l) BY <3>1 DEF StartCycle
    <3>2. CASE ReadPending(l) BY <3>2 DEF ReadPending
    <3>3. CASE ReapStale(l) BY <3>3 DEF ReapStale
    <3>4. CASE ClearStale(l) BY <3>4 DEF ClearStale
    <3>5. CASE MintJIT(l) BY <3>5 DEF MintJIT
    <3>6. CASE RecordJIT(l) BY <3>6 DEF RecordJIT
    <3>7. CASE UndoMint(l) BY <3>7 DEF UndoMint
    <3>8. CASE ResetWorkspace(l) BY <3>8 DEF ResetWorkspace
    <3>9. CASE Settle(l) BY <3>9 DEF Settle
    <3>10. CASE SettleDelete(l) BY <3>10 DEF SettleDelete
    <3>11. CASE SettleClear(l) BY <3>11 DEF SettleClear
    <3> QED BY <3>1, <3>2, <3>3, <3>4, <3>5, <3>6, <3>7, <3>8, <3>9, <3>10,
               <3>11 DEF CycleStep
  <2>2. CASE \E l \in Lanes : AgentStep(l) \/ Crash(l)
    <3> PICK l \in Lanes : AgentStep(l) \/ Crash(l) BY <2>2
    <3>1. CASE AgentConnects(l) BY <3>1 DEF AgentConnects
    <3>2. CASE AgentTakesJob(l) BY <3>2 DEF AgentTakesJob
    <3>3. CASE AgentFinishesJob(l) BY <3>3 DEF AgentFinishesJob
    <3>4. CASE AgentExits(l) BY <3>4 DEF AgentExits
    <3>5. CASE Crash(l) BY <3>5 DEF Crash
    <3> QED BY <3>1, <3>2, <3>3, <3>4, <3>5 DEF AgentStep
  <2>3. CASE \E o \in Operators : OperatorStep(o)
    <3> PICK o \in Operators : OperatorStep(o) BY <2>3
    <3>1. CASE CreateLane(o) BY <3>1 DEF CreateLane
    <3>2. CASE DestroyLane(o) BY <3>2 DEF DestroyLane
    <3>3. CASE DestroyDeregister(o)
      <4>1. /\ reg' \in [Ids -> {"none", "offline", "idle", "busy"}]
            /\ faults' \in 0..MaxFaults
        BY <3>3 DEF DestroyDeregister
      <4>2. /\ opPc' \in [Operators -> OpPcs]
            /\ opKind' \in [Operators -> OpKinds \cup {"none"}]
            /\ opLane' \in [Operators -> Lanes \cup {NoLane}]
            /\ opId' \in [Operators -> Ids \cup {NoId}]
            /\ opRows' \in [Operators -> SUBSET Ids]
        BY <3>3 DEF DestroyDeregister
      <4> QED BY <3>3, <4>1, <4>2 DEF DestroyDeregister
    <3>4. CASE DisableUnit(o) BY <3>4 DEF DisableUnit
    <3>5. CASE UnlinkUnit(o) BY <3>5 DEF UnlinkUnit
    <3>6. CASE WipeLane(o)
      <4>1. /\ opPc' \in [Operators -> OpPcs]
            /\ opKind' \in [Operators -> OpKinds \cup {"none"}]
            /\ opLane' \in [Operators -> Lanes \cup {NoLane}]
            /\ opId' \in [Operators -> Ids \cup {NoId}]
            /\ opRows' \in [Operators -> SUBSET Ids]
        <5>1. CASE opKind[o] = "recreate" BY <3>6, <5>1 DEF WipeLane
        <5>2. CASE opKind[o] # "recreate" BY <3>6, <5>2 DEF WipeLane
        <5> QED BY <5>1, <5>2
      <4>2. /\ jitId' \in [Lanes -> Ids \cup {NoId}]
            /\ params' \in [Lanes -> BOOLEAN]
            /\ slate' \in [Lanes -> {"clean", "dirty"}]
            /\ UNCHANGED <<reg, unit, pc, cur, faults>>
        BY <3>6 DEF WipeLane
      <4> QED BY <4>1, <4>2
    <3>7. CASE FetchAgent(o) BY <3>7 DEF FetchAgent
    <3>8. CASE BuildTree(o) BY <3>8 DEF BuildTree
    <3>9. CASE EnableUnit(o) BY <3>9 DEF EnableUnit
    <3>10. CASE ListGhosts(o) BY <3>10 DEF ListGhosts
    <3>11. CASE InspectGhost(o) BY <3>11 DEF InspectGhost, NextRow
    <3>12. CASE CheckPending(o) BY <3>12 DEF CheckPending, NextRow
    <3>13. CASE ReapGhost(o) BY <3>13 DEF ReapGhost, NextRow
    <3>14. CASE AbortOp(o) BY <3>14 DEF AbortOp
    <3> QED BY <3>1, <3>2, <3>3, <3>4, <3>5, <3>6, <3>7, <3>8, <3>9, <3>10,
               <3>11, <3>12, <3>13, <3>14 DEF OperatorStep
  <2>4. CASE UNCHANGED vars BY <2>4 DEF vars
  <2> QED BY <2>1, <2>2, <2>3, <2>4 DEF Next
<1> QED BY <1>1, <1>2, PTL DEF Spec

-----------------------------------------------------------------------------
(* What a cycle knows about the ids it handles *)

\* A cycle and the jit-id file only ever hold ids of their own lane, and a
\* step that works on a registration has one.
HoldsOwnIds ==
  \A l \in Lanes :
    /\ cur[l] # NoId => Owner[cur[l]] = l
    /\ jitId[l] # NoId => Owner[jitId[l]] = l
    /\ pc[l] \in {"record", "undo", "reset", "agent"} => cur[l] \in Ids

\* From the mint on, the file holds nothing or the id of the running cycle:
\* ClearJIT, whose error the cycle ignores, has to have worked for that.
RecordIsCurrent ==
  \A l \in Lanes :
    /\ pc[l] = "mint" => jitId[l] = NoId
    /\ pc[l] \in {"record", "reset", "agent"} => jitId[l] \in {NoId, cur[l]}

LaneInv == HoldsOwnIds /\ ("clear" \notin Faults => RecordIsCurrent)

\* A lane step touches its own lane only, an operator none or the one it
\* tears down; the file is never given an id but by the lane's own cycle.
LEMMA LaneInvStep ==
  ASSUME TypeOK, LaneInv, [Next]_vars
  PROVE  LaneInv'
<1> USE LaneConstants DEF TypeOK, LaneInv, HoldsOwnIds, RecordIsCurrent, NoFault,
      Fault, opVars, laneVars, EndCycle, Goto, KillCycle
<1>1. CASE \E l \in Lanes : StartCycle(l) \/ CycleStep(l)
  <2> PICK l \in Lanes : StartCycle(l) \/ CycleStep(l) BY <1>1
  <2>1. CASE StartCycle(l) BY <2>1 DEF StartCycle
  <2>2. CASE ReadPending(l) BY <2>2 DEF ReadPending
  <2>3. CASE ReapStale(l) BY <2>3 DEF ReapStale
  <2>4. CASE ClearStale(l) BY <2>4 DEF ClearStale
  <2>5. CASE MintJIT(l) BY <2>5 DEF MintJIT
  <2>6. CASE RecordJIT(l) BY <2>6 DEF RecordJIT
  <2>7. CASE UndoMint(l) BY <2>7 DEF UndoMint
  <2>8. CASE ResetWorkspace(l) BY <2>8 DEF ResetWorkspace
  <2>9. CASE Settle(l) BY <2>9 DEF Settle
  <2>10. CASE SettleDelete(l) BY <2>10 DEF SettleDelete
  <2>11. CASE SettleClear(l) BY <2>11 DEF SettleClear
  <2> QED BY <2>1, <2>2, <2>3, <2>4, <2>5, <2>6, <2>7, <2>8, <2>9, <2>10,
             <2>11 DEF CycleStep
<1>2. CASE \E l \in Lanes : AgentStep(l) \/ Crash(l)
  <2> PICK l \in Lanes : AgentStep(l) \/ Crash(l) BY <1>2
  <2>1. CASE AgentConnects(l) BY <2>1 DEF AgentConnects
  <2>2. CASE AgentTakesJob(l) BY <2>2 DEF AgentTakesJob
  <2>3. CASE AgentFinishesJob(l) BY <2>3 DEF AgentFinishesJob
  <2>4. CASE AgentExits(l) BY <2>4 DEF AgentExits
  <2>5. CASE Crash(l) BY <2>5 DEF Crash
  <2> QED BY <2>1, <2>2, <2>3, <2>4, <2>5 DEF AgentStep
<1>3. CASE \E o \in Operators : OperatorStep(o)
  <2> PICK o \in Operators : OperatorStep(o) BY <1>3
  <2>1. CASE DisableUnit(o) BY <2>1 DEF DisableUnit
  <2>2. CASE WipeLane(o)
    <3>1. /\ jitId' = [jitId EXCEPT ![opLane[o]] = NoId]
          /\ UNCHANGED <<pc, cur>>
      BY <2>2 DEF WipeLane
    <3> QED BY <3>1
  <2>3. CASE ~DisableUnit(o) /\ ~WipeLane(o)
    <3>1. UNCHANGED <<jitId, pc, cur>>
      BY <2>3 DEF OperatorStep, CreateLane, DestroyLane, DestroyDeregister,
         UnlinkUnit, FetchAgent, BuildTree, EnableUnit, ListGhosts, InspectGhost,
         CheckPending, ReapGhost, AbortOp
    <3> QED BY <3>1
  <2> QED BY <2>1, <2>2, <2>3
<1>4. CASE UNCHANGED vars BY <1>4 DEF vars
<1> QED BY <1>1, <1>2, <1>3, <1>4 DEF Next

-----------------------------------------------------------------------------
(* Who can be deregistered, and who is online *)

\* Deregistering an id, or trying to, leaves every other registration alone
\* and this one gone or as it was.
LEMMA DeleteEffect ==
  ASSUME TypeOK, NEW id \in Ids \cup {NoId},
         DeletedRunner(id) \/ DeleteRunnerFails(id) \/ DeleteRunnerIgnored(id)
  PROVE  \A i \in Ids : reg'[i] = reg[i] \/ reg'[i] = "none"
BY DEF TypeOK, DeletedRunner, DeleteRunnerFails, DeleteRunnerIgnored

\* No step brings a registration online, or leaves it online, without the
\* agent of its own lane: whatever ends a cycle takes its registration offline.
LEMMA OnlineStep ==
  ASSUME TypeOK, LaneInv, OnlineHasAgent, [Next]_vars
  PROVE  OnlineHasAgent'
<1> USE LaneConstants DEF TypeOK, LaneInv, HoldsOwnIds, OnlineHasAgent, opVars,
      laneVars, EndCycle, Goto, KillCycle
<1>1. CASE \E l \in Lanes : StartCycle(l) \/ CycleStep(l)
  <2> PICK l \in Lanes : StartCycle(l) \/ CycleStep(l) BY <1>1
  <2>a. ASSUME pc[l] # "agent",
               \A i \in Ids : reg'[i] \in {reg[i], "none", "offline"},
               \A m \in Lanes \ {l} : pc'[m] = pc[m] /\ cur'[m] = cur[m]
        PROVE  OnlineHasAgent'
    BY <2>a
  <2>1. CASE StartCycle(l) BY <2>1, <2>a DEF StartCycle
  <2>2. CASE ReadPending(l) BY <2>2, <2>a DEF ReadPending
  <2>3. CASE ReapStale(l) BY <2>3, <2>a, DeleteEffect DEF ReapStale
  <2>4. CASE ClearStale(l) BY <2>4, <2>a DEF ClearStale
  <2>5. CASE MintJIT(l) BY <2>5, <2>a DEF MintJIT
  <2>6. CASE RecordJIT(l) BY <2>6, <2>a DEF RecordJIT
  <2>7. CASE UndoMint(l) BY <2>7, <2>a, DeleteEffect DEF UndoMint
  <2>8. CASE ResetWorkspace(l) BY <2>8 DEF ResetWorkspace
  <2>9. CASE Settle(l) BY <2>9, <2>a DEF Settle
  <2>10. CASE SettleDelete(l) BY <2>10, <2>a, DeleteEffect DEF SettleDelete
  <2>11. CASE SettleClear(l) BY <2>11, <2>a DEF SettleClear
  <2> QED BY <2>1, <2>2, <2>3, <2>4, <2>5, <2>6, <2>7, <2>8, <2>9, <2>10,
             <2>11 DEF CycleStep
<1>2. CASE \E l \in Lanes : AgentStep(l) \/ Crash(l)
  <2> PICK l \in Lanes : AgentStep(l) \/ Crash(l) BY <1>2
  <2>1. CASE AgentConnects(l) BY <2>1 DEF AgentConnects
  <2>2. CASE AgentTakesJob(l) BY <2>2 DEF AgentTakesJob
  <2>3. CASE AgentFinishesJob(l) BY <2>3 DEF AgentFinishesJob
  <2>4. CASE AgentExits(l) BY <2>4 DEF AgentExits
  <2>5. CASE Crash(l) BY <2>5 DEF Crash
  <2> QED BY <2>1, <2>2, <2>3, <2>4, <2>5 DEF AgentStep
<1>3. CASE \E o \in Operators : OperatorStep(o)
  <2> PICK o \in Operators : OperatorStep(o) BY <1>3
  <2>1. CASE DisableUnit(o) BY <2>1 DEF DisableUnit
  <2>2. CASE ~DisableUnit(o)
    <3>1. UNCHANGED <<pc, cur>>
      BY <2>2 DEF OperatorStep, CreateLane, DestroyLane, DestroyDeregister,
         UnlinkUnit, WipeLane, FetchAgent, BuildTree, EnableUnit, ListGhosts,
         InspectGhost, CheckPending, ReapGhost, AbortOp
    <3>2. \A i \in Ids : reg'[i] = reg[i] \/ reg'[i] = "none"
      <4>1. CASE DestroyDeregister(o)
        BY <4>1, DeleteEffect DEF DestroyDeregister
      <4>2. CASE ReapGhost(o) BY <4>2, DeleteEffect DEF ReapGhost
      <4>3. CASE ~DestroyDeregister(o) /\ ~ReapGhost(o)
        BY <2>2, <4>3 DEF OperatorStep, CreateLane, DestroyLane, UnlinkUnit,
           WipeLane, FetchAgent, BuildTree, EnableUnit, ListGhosts, InspectGhost,
           CheckPending, AbortOp
      <4> QED BY <4>1, <4>2, <4>3
    <3> QED BY <3>1, <3>2
  <2> QED BY <2>1, <2>2
<1>4. CASE UNCHANGED vars BY <1>4 DEF vars
<1> QED BY <1>1, <1>2, <1>3, <1>4 DEF Next

\* A registration that is online has its agent running, in every fleet and
\* after every crash, teardown and failed call: HoldsOwnIds is what makes a
\* new mint harmless to the registrations of other lanes.
THEOREM OnlineRegistrationsHaveAgents == Spec => []OnlineHasAgent
<1>1. Init => LaneInv /\ OnlineHasAgent
  BY LaneConstants DEF Init, LaneInv, HoldsOwnIds, RecordIsCurrent, OnlineHasAgent
<1>2. TypeOK /\ LaneInv /\ OnlineHasAgent /\ [Next]_vars => (LaneInv /\ OnlineHasAgent)'
  BY LaneInvStep, OnlineStep
<1> QED BY <1>1, <1>2, TypeCorrect, PTL DEF Spec

-----------------------------------------------------------------------------
(* The reap *)

\* The registration names of srm carry the org and the slot but no host.  They
\* identify the lane when no two hosts of the org use the same slot number.
NamesIdentifyLanes == \A l, m \in Lanes : SlotOf[l] = SlotOf[m] => l = m

\* A reap looks at the lane that minted the row it holds, and once it has
\* decided to deregister it, no cycle is going to use that registration again.
ReapInv ==
  \A o \in Operators :
    /\ opPc[o] \in {"pending", "reap"} => /\ opId[o] \in Ids
                                         /\ opLane[o] = Owner[opId[o]]
    /\ opPc[o] = "reap" => ~Live(opId[o])

\* No step revives a registration a reap holds: the only step that makes one
\* live is a mint, and a mint takes an id nobody refers to.
LEMMA ReapInvLane ==
  ASSUME TypeOK, LaneInv, ReapInv, UNCHANGED opVars,
         NEW l \in Lanes, StartCycle(l) \/ CycleStep(l) \/ AgentStep(l) \/ Crash(l)
  PROVE  ReapInv'
<1> USE LaneConstants DEF TypeOK, opVars, ReapInv, Live, Goto, EndCycle, KillCycle
<1>1. CASE StartCycle(l) BY <1>1 DEF StartCycle
<1>2. CASE ReadPending(l) BY <1>2 DEF ReadPending
<1>3. CASE ReapStale(l) BY <1>3 DEF ReapStale
<1>4. CASE ClearStale(l) BY <1>4 DEF ClearStale
<1>5. CASE MintJIT(l) BY <1>5 DEF MintJIT, Fresh
<1>6. CASE RecordJIT(l) BY <1>6 DEF RecordJIT
<1>7. CASE UndoMint(l) BY <1>7 DEF UndoMint
<1>8. CASE ResetWorkspace(l) BY <1>8 DEF ResetWorkspace
<1>9. CASE Settle(l) BY <1>9 DEF Settle
<1>10. CASE SettleDelete(l) BY <1>10 DEF SettleDelete
<1>11. CASE SettleClear(l) BY <1>11 DEF SettleClear
<1>12. CASE AgentConnects(l) BY <1>12 DEF AgentConnects
<1>13. CASE AgentTakesJob(l) BY <1>13 DEF AgentTakesJob
<1>14. CASE AgentFinishesJob(l) BY <1>14 DEF AgentFinishesJob
<1>15. CASE AgentExits(l) BY <1>15 DEF AgentExits
<1>16. CASE Crash(l) BY <1>16 DEF Crash
<1> QED BY <1>1, <1>2, <1>3, <1>4, <1>5, <1>6, <1>7, <1>8, <1>9, <1>10, <1>11,
           <1>12, <1>13, <1>14, <1>15, <1>16 DEF CycleStep, AgentStep

\* The decision itself: a stopped cycle holds nothing, and a running one whose
\* file names another id holds that one.
LEMMA ReapInvOperator ==
  ASSUME TypeOK, LaneInv, ReapInv, NamesIdentifyLanes, "clear" \notin Faults,
         NEW o \in Operators, OperatorStep(o)
  PROVE  ReapInv'
<1> USE LaneConstants DEF TypeOK, ReapInv, Live, OpGoto, Begin, EndOp, laneVars
<1>1. CASE InspectGhost(o)
  <2>1. PICK id \in opRows[o] :
          LET here == {l \in LocalLanes(o) : /\ SlotOf[l] = SlotOf[Owner[id]]
                                             /\ unit[l] # "absent"}
          IN \/ here = {} /\ NextRow(o, id)
             \/ \E l \in here :
                  /\ opLane' = [opLane EXCEPT ![o] = l]
                  /\ opId'   = [opId EXCEPT ![o] = id]
                  /\ OpGoto(o, IF pc[l] = "down" THEN "reap" ELSE "pending")
                  /\ UNCHANGED <<opKind, opRows>>
    BY <1>1 DEF InspectGhost
  <2>2. UNCHANGED <<pc, cur>> BY <1>1 DEF InspectGhost
  <2>3. CASE NextRow(o, id) BY <2>2, <2>3 DEF NextRow
  <2>4. CASE ~NextRow(o, id)
    <3>1. PICK l \in Lanes :
            /\ SlotOf[l] = SlotOf[Owner[id]]
            /\ opLane' = [opLane EXCEPT ![o] = l]
            /\ opId'   = [opId EXCEPT ![o] = id]
            /\ OpGoto(o, IF pc[l] = "down" THEN "reap" ELSE "pending")
      BY <2>1, <2>4 DEF LocalLanes
    <3>2. id \in Ids /\ l = Owner[id] BY <3>1 DEF NamesIdentifyLanes
    <3> QED BY <2>2, <3>1, <3>2
  <2> QED BY <2>3, <2>4
<1>2. CASE CheckPending(o)
  <2>1. UNCHANGED <<pc, cur>> BY <1>2 DEF CheckPending
  <2>2. CASE jitId[opLane[o]] \in {NoId, opId[o]}
    BY <1>2, <2>1, <2>2 DEF CheckPending, NextRow
  <2>3. CASE jitId[opLane[o]] \notin {NoId, opId[o]}
    <3>1. opPc[o] = "pending" /\ opPc' = [opPc EXCEPT ![o] = "reap"]
          /\ UNCHANGED <<opLane, opId>>
      BY <1>2, <2>3 DEF CheckPending
    <3>2. ~Live(opId[o])
      BY <2>3, <3>1 DEF LaneInv, HoldsOwnIds, RecordIsCurrent
    <3> QED BY <2>1, <3>1, <3>2
  <2> QED BY <2>2, <2>3
<1>3. CASE ReapGhost(o)
  <2>1. UNCHANGED <<pc, cur>> /\ NextRow(o, opId[o]) BY <1>3 DEF ReapGhost
  <2> QED BY <2>1 DEF NextRow
<1>4. CASE DisableUnit(o) BY <1>4 DEF DisableUnit, KillCycle
<1>5. CASE CreateLane(o) BY <1>5 DEF CreateLane
<1>6. CASE DestroyLane(o)
  <2>1. UNCHANGED <<pc, cur>> BY <1>6 DEF DestroyLane
  <2>2. PICK l \in Lanes, kind \in {"destroy", "recreate"} :
          /\ opPc' = [opPc EXCEPT ![o] = IF jitId[l] = NoId THEN "disable" ELSE "delete"]
          /\ opLane' = [opLane EXCEPT ![o] = l]
          /\ opId' = [opId EXCEPT ![o] = jitId[l]]
    BY <1>6 DEF DestroyLane, LocalLanes
  <2> QED BY <2>1, <2>2
<1>7. CASE DestroyDeregister(o) BY <1>7 DEF DestroyDeregister
<1>8. CASE UnlinkUnit(o) BY <1>8 DEF UnlinkUnit
<1>9. CASE WipeLane(o)
  <2>1. UNCHANGED <<pc, cur>> BY <1>9 DEF WipeLane
  <2>2. \/ EndOp(o)
        \/ OpGoto(o, "download") /\ UNCHANGED <<opLane, opId>>
    BY <1>9 DEF WipeLane
  <2> QED BY <2>1, <2>2
<1>10. CASE FetchAgent(o) BY <1>10 DEF FetchAgent
<1>11. CASE BuildTree(o) BY <1>11 DEF BuildTree
<1>12. CASE EnableUnit(o) BY <1>12 DEF EnableUnit
<1>13. CASE ListGhosts(o) BY <1>13 DEF ListGhosts
<1>14. CASE AbortOp(o) BY <1>14 DEF AbortOp
<1> QED BY <1>1, <1>2, <1>3, <1>4, <1>5, <1>6, <1>7, <1>8, <1>9, <1>10, <1>11,
           <1>12, <1>13, <1>14 DEF OperatorStep

\* No reap ever deregisters the registration of a cycle in flight, whatever
\* the age of its listing and however many operators and crashes there are,
\* provided slot numbers are unique in the org and ClearJIT works.  Both
\* assumptions are needed: the runs reap_other_host and reap_clear_fails drop
\* one each.
THEOREM ReapIsSafe ==
  ASSUME NamesIdentifyLanes, "clear" \notin Faults
  PROVE  Spec => []ReapSafe
<1>1. Init => LaneInv /\ ReapInv
  BY LaneConstants DEF Init, LaneInv, HoldsOwnIds, RecordIsCurrent, ReapInv
<1>2. TypeOK /\ LaneInv /\ ReapInv /\ [Next]_vars => (LaneInv /\ ReapInv)'
  <2> SUFFICES ASSUME TypeOK, LaneInv, ReapInv, [Next]_vars
               PROVE  (LaneInv /\ ReapInv)'
    OBVIOUS
  <2>1. LaneInv' BY LaneInvStep
  <2>2. ReapInv'
    <3>1. CASE \E l \in Lanes : StartCycle(l) \/ CycleStep(l) \/ AgentStep(l) \/ Crash(l)
      <4> PICK l \in Lanes : StartCycle(l) \/ CycleStep(l) \/ AgentStep(l) \/ Crash(l)
        BY <3>1
      <4>1. UNCHANGED opVars
        BY DEF StartCycle, CycleStep, AgentStep, Crash, ReadPending, ReapStale,
           ClearStale, MintJIT, RecordJIT, UndoMint, ResetWorkspace, Settle,
           SettleDelete, SettleClear, AgentConnects, AgentTakesJob,
           AgentFinishesJob, AgentExits
      <4> QED BY <4>1, ReapInvLane
    <3>2. CASE \E o \in Operators : OperatorStep(o) BY <3>2, ReapInvOperator
    <3>3. CASE UNCHANGED vars
      BY <3>3 DEF vars, laneVars, opVars, ReapInv, Live
    <3> QED BY <3>1, <3>2, <3>3 DEF Next
  <2> QED BY <2>1, <2>2
<1>3. ReapInv => ReapSafe BY DEF ReapInv, ReapSafe
<1> QED BY <1>1, <1>2, <1>3, TypeCorrect, PTL DEF Spec
-----------------------------------------------------------------------------
(* The teardown *)

\* No two commands run on one host at the same time.  Of two that do, one may enable
\* the unit of the lane the other is wiping.
OneCommandPerHost == \A o, p \in Operators : OpHost[o] = OpHost[p] => o = p

\* A command works on a lane of its own host, and from the disable on that lane has
\* no process and no enabled unit that systemd could start one from.
TornInv ==
  \A o \in Operators :
    /\ opPc[o] \in {"delete", "disable", "unlink", "wipe", "download", "tree", "enable"} =>
         opLane[o] \in Lanes /\ HostOf[opLane[o]] = OpHost[o]
    /\ opPc[o] \in {"unlink", "wipe", "tree", "enable"} =>
         pc[opLane[o]] = "down" /\ unit[opLane[o]] # "enabled"

\* A cycle's step starts a process of an enabled lane, or goes on with one.
LEMMA TornInvLane ==
  ASSUME TypeOK, TornInv, UNCHANGED opVars,
         NEW l \in Lanes, StartCycle(l) \/ CycleStep(l) \/ AgentStep(l) \/ Crash(l)
  PROVE  TornInv'
<1> USE LaneConstants DEF TypeOK, opVars, TornInv
<1>1. unit' = unit
  BY DEF StartCycle, CycleStep, AgentStep, Crash, ReadPending, ReapStale, ClearStale,
     MintJIT, RecordJIT, UndoMint, ResetWorkspace, Settle, SettleDelete, SettleClear,
     AgentConnects, AgentTakesJob, AgentFinishesJob, AgentExits
<1>2. pc[l] # "down" \/ unit[l] = "enabled"
  BY DEF StartCycle, CycleStep, AgentStep, Crash, ReadPending, ReapStale, ClearStale,
     MintJIT, RecordJIT, UndoMint, ResetWorkspace, Settle, SettleDelete, SettleClear,
     AgentConnects, AgentTakesJob, AgentFinishesJob, AgentExits
<1>3. \A m \in Lanes \ {l} : pc'[m] = pc[m]
  BY DEF StartCycle, CycleStep, AgentStep, Crash, ReadPending, ReapStale, ClearStale,
     MintJIT, RecordJIT, UndoMint, ResetWorkspace, Settle, SettleDelete, SettleClear,
     AgentConnects, AgentTakesJob, AgentFinishesJob, AgentExits, Goto, EndCycle, KillCycle
<1> QED BY <1>1, <1>2, <1>3

\* A command changes units and processes of the lane it works on, which no other
\* command works on.
LEMMA TornInvOperator ==
  ASSUME TypeOK, TornInv, OneCommandPerHost, NEW o \in Operators, OperatorStep(o)
  PROVE  TornInv'
<1> USE LaneConstants DEF TypeOK, TornInv, OneCommandPerHost, OpGoto, Begin, EndOp, laneVars
<1>1. CASE CreateLane(o) BY <1>1 DEF CreateLane, LocalLanes
<1>2. CASE DestroyLane(o)
  <2>1. PICK l \in Lanes, kind \in {"destroy", "recreate"} :
          /\ HostOf[l] = OpHost[o]
          /\ opPc' = [opPc EXCEPT ![o] = IF jitId[l] = NoId THEN "disable" ELSE "delete"]
          /\ opLane' = [opLane EXCEPT ![o] = l]
    BY <1>2 DEF DestroyLane, LocalLanes
  <2>2. UNCHANGED <<pc, unit>> BY <1>2 DEF DestroyLane
  <2> QED BY <2>1, <2>2
<1>3. CASE DestroyDeregister(o)
  <2>1. UNCHANGED <<pc, unit>> /\ opPc[o] = "delete" BY <1>3 DEF DestroyDeregister
  <2>2. \/ opPc' = [opPc EXCEPT ![o] = "disable"] /\ UNCHANGED opLane
        \/ opPc' = [opPc EXCEPT ![o] = "idle"] /\ opLane' = [opLane EXCEPT ![o] = NoLane]
    BY <1>3 DEF DestroyDeregister
  <2> QED BY <2>1, <2>2
<1>4. CASE DisableUnit(o) BY <1>4 DEF DisableUnit, KillCycle
<1>5. CASE UnlinkUnit(o) BY <1>5 DEF UnlinkUnit
<1>6. CASE WipeLane(o)
  <2>1. UNCHANGED <<pc, unit>> /\ opPc[o] = "wipe" BY <1>6 DEF WipeLane
  <2>2. \/ opPc' = [opPc EXCEPT ![o] = "download"] /\ UNCHANGED opLane
        \/ opPc' = [opPc EXCEPT ![o] = "idle"] /\ opLane' = [opLane EXCEPT ![o] = NoLane]
    BY <1>6 DEF WipeLane
  <2> QED BY <2>1, <2>2
<1>7. CASE FetchAgent(o) BY <1>7 DEF FetchAgent
<1>8. CASE BuildTree(o) BY <1>8 DEF BuildTree
<1>9. CASE EnableUnit(o) BY <1>9 DEF EnableUnit
<1>10. CASE ListGhosts(o) BY <1>10 DEF ListGhosts
<1>11. CASE InspectGhost(o) BY <1>11 DEF InspectGhost, NextRow
<1>12. CASE CheckPending(o) BY <1>12 DEF CheckPending, NextRow
<1>13. CASE ReapGhost(o)
  <2>1. UNCHANGED <<pc, unit>> /\ NextRow(o, opId[o]) BY <1>13 DEF ReapGhost
  <2> QED BY <2>1 DEF NextRow
<1>14. CASE AbortOp(o) BY <1>14 DEF AbortOp
<1> QED BY <1>1, <1>2, <1>3, <1>4, <1>5, <1>6, <1>7, <1>8, <1>9, <1>10, <1>11, <1>12,
           <1>13, <1>14 DEF OperatorStep

\* From the disable of its unit to the end of the wipe or the rebuild a lane has no
\* process, whatever crashes, is killed or fails, as long as commands on a host come
\* one after the other: teardownEphemeral disables before it unlinks and wipes.
THEOREM TeardownIsQuiet ==
  ASSUME OneCommandPerHost
  PROVE  Spec => []DownWhileTornDown
<1>1. Init => TornInv
  BY DEF Init, TornInv
<1>2. TypeOK /\ TornInv /\ [Next]_vars => TornInv'
  <2> SUFFICES ASSUME TypeOK, TornInv, [Next]_vars PROVE TornInv'
    OBVIOUS
  <2>1. CASE \E l \in Lanes : StartCycle(l) \/ CycleStep(l) \/ AgentStep(l) \/ Crash(l)
    <3> PICK l \in Lanes : StartCycle(l) \/ CycleStep(l) \/ AgentStep(l) \/ Crash(l)
      BY <2>1
    <3>1. UNCHANGED opVars
      BY DEF StartCycle, CycleStep, AgentStep, Crash, ReadPending, ReapStale, ClearStale,
         MintJIT, RecordJIT, UndoMint, ResetWorkspace, Settle, SettleDelete, SettleClear,
         AgentConnects, AgentTakesJob, AgentFinishesJob, AgentExits
    <3> QED BY <3>1, TornInvLane
  <2>2. CASE \E o \in Operators : OperatorStep(o)
    BY <2>2, OneCommandPerHost, TornInvOperator
  <2>3. CASE UNCHANGED vars BY <2>3 DEF vars, laneVars, opVars, TornInv
  <2> QED BY <2>1, <2>2, <2>3 DEF Next
<1>3. TornInv => DownWhileTornDown
  BY DEF TornInv, DownWhileTornDown
<1> QED BY <1>1, <1>2, <1>3, TypeCorrect, PTL DEF Spec
-----------------------------------------------------------------------------
(* What a lane promises to its jobs *)

\* An agent that can still be given a job has a wiped workspace: its registration
\* goes offline for good before the job it took leaves it.
WaitsClean ==
  \A l \in Lanes :
    pc[l] = "agent" /\ reg[cur[l]] \in {"offline", "idle"} => slate[l] = "clean"

\* Steps of the lane l and of nobody else, as far as jobs can tell: another lane may
\* be wiped while it is idle.
OnlyLane(l) ==
  /\ \A m \in Lanes \ {l} : pc'[m] = pc[m] /\ cur'[m] = cur[m] /\ slate'[m] \in {slate[m], "clean"}
  /\ \A i \in Ids : Owner[i] # l => reg'[i] = reg[i]

LEMMA OtherLanesWait ==
  ASSUME TypeOK, LaneInv, WaitsClean, NEW l \in Lanes, OnlyLane(l),
         NEW m \in Lanes \ {l}
  PROVE  /\ Stage(m)' = Stage(m)
         /\ pc'[m] = "agent" /\ reg'[cur'[m]] \in {"offline", "idle"} => slate'[m] = "clean"
<1>1. pc[m] = "agent" => cur[m] \in Ids /\ Owner[cur[m]] # l
  BY LaneConstants DEF LaneInv, HoldsOwnIds
<1>2. pc'[m] = pc[m] /\ cur'[m] = cur[m] /\ slate'[m] \in {slate[m], "clean"}
  BY DEF OnlyLane
<1>3. pc[m] = "agent" => reg'[cur[m]] = reg[cur[m]] BY <1>1 DEF OnlyLane
<1> QED BY <1>1, <1>2, <1>3 DEF WaitsClean, Stage

\* Such a step is one of JobLane if the stage of its own lane moves as JobLane says.
LEMMA OneLaneMoves ==
  ASSUME TypeOK, LaneInv, WaitsClean, NEW l \in Lanes, OnlyLane(l),
         pc'[l] = "agent" /\ reg'[cur'[l]] \in {"offline", "idle"} => slate'[l] = "clean",
         \/ Stage(l)' \in {Stage(l), "empty"}
         \/ Stage(l) = "empty" /\ Stage(l)' = "ready"
         \/ Stage(l) = "ready" /\ Stage(l)' = "working"
  PROVE  WaitsClean' /\ [Job!Next]_[k \in Lanes |-> Stage(k)]
<1>1. WaitsClean' BY OtherLanesWait DEF WaitsClean
<1> DEFINE S == [k \in Lanes |-> Stage(k)]
           T == [k \in Lanes |-> Stage(k)']
<1>2. \A m \in Lanes \ {l} : Stage(m)' = Stage(m) BY OtherLanesWait
<1>3. T = [S EXCEPT ![l] = Stage(l)'] BY <1>2
<1>4. T = S \/ Job!Prepare(l) \/ Job!Work(l) \/ Job!Leave(l)
  <2> USE DEF Job!Prepare, Job!Work, Job!Leave
  <2>0. S[l] = Stage(l) OBVIOUS
  <2>1. CASE Stage(l)' = Stage(l) BY <1>3, <2>1
  <2>2. CASE Stage(l)' = "empty" /\ Stage(l) # "empty" BY <1>3, <2>0, <2>2
  <2>3. CASE Stage(l) = "empty" /\ Stage(l)' = "ready" BY <1>3, <2>0, <2>3
  <2>4. CASE Stage(l) = "ready" /\ Stage(l)' = "working" BY <1>3, <2>0, <2>4
  <2> QED BY <2>1, <2>2, <2>3, <2>4
<1> QED BY <1>1, <1>4 DEF Job!Next

\* A step of a lane.
LEMMA LaneServesJobs ==
  ASSUME TypeOK, LaneInv, OnlineHasAgent, WaitsClean, NEW l \in Lanes,
         StartCycle(l) \/ CycleStep(l) \/ AgentStep(l) \/ Crash(l)
  PROVE  WaitsClean' /\ [Job!Next]_[k \in Lanes |-> Stage(k)]
<1> USE LaneConstants DEF TypeOK, LaneInv, HoldsOwnIds, Goto, EndCycle, KillCycle
<1>1. OnlyLane(l)
  <2> USE DEF OnlyLane
  <2>1. CASE StartCycle(l) BY <2>1 DEF StartCycle
  <2>2. CASE ReadPending(l) BY <2>2 DEF ReadPending
  <2>3. CASE ReapStale(l) BY <2>3 DEF ReapStale, DeleteRunnerIgnored, DeletedRunner, DeleteRunnerFails
  <2>4. CASE ClearStale(l) BY <2>4 DEF ClearStale
  <2>5. CASE MintJIT(l) BY <2>5 DEF MintJIT
  <2>6. CASE RecordJIT(l) BY <2>6 DEF RecordJIT
  <2>7. CASE UndoMint(l) BY <2>7 DEF UndoMint, DeleteRunnerIgnored, DeletedRunner, DeleteRunnerFails
  <2>8. CASE ResetWorkspace(l) BY <2>8 DEF ResetWorkspace
  <2>9. CASE Settle(l) BY <2>9 DEF Settle
  <2>10. CASE SettleDelete(l) BY <2>10 DEF SettleDelete, DeletedRunner, DeleteRunnerFails
  <2>11. CASE SettleClear(l) BY <2>11 DEF SettleClear
  <2>12. CASE AgentConnects(l) BY <2>12 DEF AgentConnects
  <2>13. CASE AgentTakesJob(l) BY <2>13 DEF AgentTakesJob
  <2>14. CASE AgentFinishesJob(l) BY <2>14 DEF AgentFinishesJob
  <2>15. CASE AgentExits(l) BY <2>15 DEF AgentExits
  <2>16. CASE Crash(l) BY <2>16 DEF Crash
  <2> QED BY <2>1, <2>2, <2>3, <2>4, <2>5, <2>6, <2>7, <2>8, <2>9, <2>10, <2>11, <2>12, <2>13,
             <2>14, <2>15, <2>16 DEF CycleStep, AgentStep
<1>2. CASE pc'[l] # "agent"
  <2>1. Stage(l)' = "empty" BY <1>2 DEF Stage
  <2> QED BY <1>1, <1>2, <2>1, OneLaneMoves
<1>3. CASE pc'[l] = "agent"
  <2>1. ResetWorkspace(l) \/ AgentConnects(l) \/ AgentTakesJob(l)
    BY <1>3 DEF StartCycle, CycleStep, AgentStep, Crash, ReadPending, ReapStale, ClearStale,
       MintJIT, RecordJIT, UndoMint, ResetWorkspace, Settle, SettleDelete, SettleClear,
       AgentFinishesJob, AgentExits
  <2>2. CASE ResetWorkspace(l)
    <3>1. /\ pc[l] = "reset" /\ slate'[l] = "clean" /\ reg' = reg /\ cur' = cur
      BY <1>3, <2>2 DEF ResetWorkspace
    <3>2. cur[l] \in Ids /\ Owner[cur[l]] = l BY <3>1
    <3>3. reg[cur[l]] \notin {"idle", "busy"} BY <3>1, <3>2 DEF OnlineHasAgent
    <3>4. Stage(l)' = "empty" BY <3>1, <3>3 DEF Stage
    <3> QED BY <1>1, <3>1, <3>4, OneLaneMoves
  <2>3. CASE AgentConnects(l)
    <3>1. /\ pc[l] = "agent" /\ reg[cur[l]] = "offline" /\ cur[l] \in Ids
          /\ reg'[cur[l]] = "idle" /\ pc' = pc /\ cur' = cur /\ slate' = slate
      BY <2>3 DEF AgentConnects
    <3>2. slate[l] = "clean" BY <3>1 DEF WaitsClean
    <3>3. Stage(l) = "empty" /\ Stage(l)' = "ready" BY <3>1, <3>2 DEF Stage
    <3> QED BY <1>1, <3>1, <3>2, <3>3, OneLaneMoves
  <2>4. CASE AgentTakesJob(l)
    <3>1. /\ pc[l] = "agent" /\ reg[cur[l]] = "idle" /\ cur[l] \in Ids
          /\ reg'[cur[l]] = "busy" /\ pc' = pc /\ cur' = cur
      BY <2>4 DEF AgentTakesJob
    <3>2. slate[l] = "clean" BY <3>1 DEF WaitsClean
    <3>3. Stage(l) = "ready" /\ Stage(l)' = "working" BY <3>1, <3>2 DEF Stage
    <3> QED BY <1>1, <3>1, <3>3, OneLaneMoves
  <2> QED BY <2>1, <2>2, <2>3, <2>4
<1> QED BY <1>2, <1>3

\* A command that is about to stop a unit works on a lane.
CommandsHaveLanes ==
  \A o \in Operators : opPc[o] \in {"delete", "disable", "unlink", "wipe", "download"} => opLane[o] \in Lanes

LEMMA CommandsHaveLanesStep ==
  ASSUME TypeOK, CommandsHaveLanes, [Next]_vars
  PROVE  CommandsHaveLanes'
<1> USE LaneConstants DEF TypeOK, CommandsHaveLanes, OpGoto, Begin, EndOp, laneVars
<1>1. ASSUME NEW l \in Lanes, StartCycle(l) \/ CycleStep(l) \/ AgentStep(l) \/ Crash(l)
      PROVE  CommandsHaveLanes'
  <2>1. UNCHANGED opVars
    BY <1>1 DEF StartCycle, CycleStep, AgentStep, Crash, ReadPending, ReapStale, ClearStale, MintJIT,
       RecordJIT, UndoMint, ResetWorkspace, Settle, SettleDelete, SettleClear,
       AgentConnects, AgentTakesJob, AgentFinishesJob, AgentExits
  <2> QED BY <2>1 DEF opVars
<1>2. ASSUME NEW o \in Operators, OperatorStep(o) PROVE CommandsHaveLanes'
  <2>1. CASE CreateLane(o) BY <2>1 DEF CreateLane, LocalLanes
  <2>2. CASE DestroyLane(o) BY <2>2 DEF DestroyLane, LocalLanes
  <2>3. CASE DestroyDeregister(o)
    <3>1. opPc[o] = "delete" BY <2>3 DEF DestroyDeregister
    <3>2. \/ opPc' = [opPc EXCEPT ![o] = "disable"] /\ UNCHANGED opLane
          \/ opPc' = [opPc EXCEPT ![o] = "idle"] /\ opLane' = [opLane EXCEPT ![o] = NoLane]
      BY <2>3 DEF DestroyDeregister
    <3> QED BY <3>1, <3>2
  <2>4. CASE WipeLane(o)
    <3>1. opPc[o] = "wipe" BY <2>4 DEF WipeLane
    <3>2. \/ opPc' = [opPc EXCEPT ![o] = "download"] /\ UNCHANGED opLane
          \/ opPc' = [opPc EXCEPT ![o] = "idle"] /\ opLane' = [opLane EXCEPT ![o] = NoLane]
      BY <2>4 DEF WipeLane
    <3> QED BY <3>1, <3>2
  <2>5. CASE FetchAgent(o) BY <2>5 DEF FetchAgent
  <2>6. CASE DisableUnit(o) \/ UnlinkUnit(o) \/ BuildTree(o) \/ EnableUnit(o)
    BY <2>6 DEF DisableUnit, UnlinkUnit, BuildTree, EnableUnit
  <2>7. CASE ListGhosts(o) \/ InspectGhost(o) \/ CheckPending(o) \/ AbortOp(o)
    BY <2>7 DEF ListGhosts, InspectGhost, CheckPending, AbortOp, NextRow
  <2>8. CASE ReapGhost(o)
    <3>1. NextRow(o, opId[o]) BY <2>8 DEF ReapGhost
    <3> QED BY <3>1 DEF NextRow
  <2> QED BY <1>2, <2>1, <2>2, <2>3, <2>4, <2>5, <2>6, <2>7, <2>8 DEF OperatorStep
<1>3. CASE UNCHANGED vars BY <1>3 DEF vars, opVars
<1> QED BY <1>1, <1>2, <1>3 DEF Next

\* A command can only cost a lane its registration or its process, or wipe it.
LEMMA OperatorServesJobs ==
  ASSUME TypeOK, LaneInv, WaitsClean, CommandsHaveLanes, NEW o \in Operators, OperatorStep(o)
  PROVE  WaitsClean' /\ [Job!Next]_[k \in Lanes |-> Stage(k)]
<1> USE LaneConstants DEF TypeOK, LaneInv, HoldsOwnIds
<1>1. CASE DisableUnit(o)
  <2>1. PICK l \in Lanes : l = opLane[o] BY <1>1 DEF DisableUnit, CommandsHaveLanes
  <2>2. OnlyLane(l) /\ pc'[l] = "down" BY <1>1, <2>1 DEF DisableUnit, KillCycle, OnlyLane
  <2>3. Stage(l)' = "empty" BY <2>2 DEF Stage
  <2> QED BY <2>2, <2>3, OneLaneMoves
<1>2. CASE DestroyDeregister(o) \/ ReapGhost(o)
  <2>1. UNCHANGED <<pc, cur, slate>> BY <1>2 DEF DestroyDeregister, ReapGhost
  <2>r. reg' = reg \/ reg' = [reg EXCEPT ![opId[o]] = "none"]
    <3>1. CASE DestroyDeregister(o)
      BY <3>1 DEF DestroyDeregister, DeletedRunner, DeleteRunnerFails
    <3>2. CASE ReapGhost(o)
      BY <3>2 DEF ReapGhost, DeletedRunner, DeleteRunnerFails, DeleteRunnerIgnored
    <3> QED BY <1>2, <3>1, <3>2
  <2>2. \A i \in Ids : reg'[i] = reg[i] \/ (i = opId[o] /\ reg'[i] = "none")
    <3>1. reg \in [Ids -> {"none", "offline", "idle", "busy"}] OBVIOUS
    <3> HIDE DEF TypeOK, LaneInv, HoldsOwnIds
    <3> QED BY <2>r, <3>1
  <2>3. CASE \A i \in Ids : reg'[i] = reg[i]
    <3>1. reg' = reg BY <2>3, <2>r
    <3> QED BY <2>1, <3>1 DEF WaitsClean, Stage
  <2>4. CASE ~\A i \in Ids : reg'[i] = reg[i]
    <3>1. opId[o] \in Ids /\ reg'[opId[o]] = "none" BY <2>2, <2>4
    <3> PICK l \in Lanes : l = Owner[opId[o]] BY <3>1
    <3>2. OnlyLane(l) BY <2>1, <2>2 DEF OnlyLane
    <3>3. pc[l] = "agent" => reg'[cur[l]] \in {reg[cur[l]], "none"} BY <2>2
    <3>4. Stage(l)' \in {Stage(l), "empty"} BY <2>1, <3>3 DEF Stage
    <3> QED BY <2>1, <3>2, <3>3, <3>4, OneLaneMoves DEF WaitsClean
  <2> QED BY <2>3, <2>4
<1>3. CASE ~DisableUnit(o) /\ ~DestroyDeregister(o) /\ ~ReapGhost(o)
  <2>1. UNCHANGED <<pc, cur, reg>> /\ \A l \in Lanes : slate'[l] \in {slate[l], "clean"}
    <3>1. CASE WipeLane(o) BY <3>1 DEF WipeLane
    <3>2. CASE BuildTree(o) BY <3>2 DEF BuildTree
    <3>3. CASE ~WipeLane(o) /\ ~BuildTree(o)
      BY <1>3, <3>3 DEF OperatorStep, CreateLane, DestroyLane, UnlinkUnit, FetchAgent, EnableUnit,
         ListGhosts, InspectGhost, CheckPending, AbortOp, laneVars
    <3> QED BY <3>1, <3>2, <3>3
  <2>2. \A l \in Lanes : Stage(l)' = Stage(l) BY <2>1 DEF Stage, WaitsClean
  <2>3. WaitsClean' BY <2>1 DEF WaitsClean
  <2> QED BY <2>2, <2>3
<1> QED BY <1>1, <1>2, <1>3

\* A lane is what JobLane says, in every fleet, whatever crashes, fails or is commanded:
\* each job starts in a wiped workspace, on a registration that has served none.
THEOREM LanesServeJobs == Spec => OneCleanJob
<1>1. Init => WaitsClean /\ CommandsHaveLanes /\ Job!Init
  <2> SUFFICES ASSUME Init PROVE WaitsClean /\ CommandsHaveLanes /\ Job!Init
    OBVIOUS
  <2>1. \A l \in Lanes : pc[l] = "down" BY DEF Init
  <2>2. \A o \in Operators : opPc[o] = "idle" BY DEF Init
  <2> QED BY <2>1, <2>2 DEF WaitsClean, CommandsHaveLanes, Job!Init, Stage
<1>2. TypeOK /\ LaneInv /\ OnlineHasAgent /\ WaitsClean /\ CommandsHaveLanes /\ [Next]_vars
        => WaitsClean' /\ [Job!Next]_[l \in Lanes |-> Stage(l)]
  <2> SUFFICES ASSUME TypeOK, LaneInv, OnlineHasAgent, WaitsClean, CommandsHaveLanes, [Next]_vars
               PROVE  WaitsClean' /\ [Job!Next]_[l \in Lanes |-> Stage(l)]
    OBVIOUS
  <2>1. CASE Next BY <2>1, LaneServesJobs, OperatorServesJobs DEF Next
  <2>2. CASE UNCHANGED vars
    BY <2>2 DEF vars, laneVars, WaitsClean, Stage
  <2> QED BY <2>1, <2>2
<1>3. Init => LaneInv /\ OnlineHasAgent
  BY LaneConstants DEF Init, LaneInv, HoldsOwnIds, RecordIsCurrent, OnlineHasAgent
<1>4. TypeOK /\ LaneInv /\ OnlineHasAgent /\ [Next]_vars => (LaneInv /\ OnlineHasAgent)'
  BY LaneInvStep, OnlineStep
<1>5. TypeOK /\ CommandsHaveLanes /\ [Next]_vars => CommandsHaveLanes'
  BY CommandsHaveLanesStep
<1> QED BY <1>1, <1>2, <1>3, <1>4, <1>5, TypeCorrect, PTL DEF Spec, OneCleanJob, Job!Spec

-----------------------------------------------------------------------------
(* What a lane leaves behind, on a host that destroys no lanes *)

OnlyReaps == Kinds \subseteq {"reap"}

ReapPcs == {"idle", "inspect", "pending", "reap"}

\* The id a process works on is the recorded one from the start of its reap to the
\* clear, and again from its record to its end.
CycleKnows(l) ==
  /\ IF pc[l] \in {"down", "begin", "mint"} THEN cur[l] = NoId ELSE cur[l] \in Ids /\ Owner[cur[l]] = l
  /\ jitId[l] # NoId => Owner[jitId[l]] = l
  /\ pc[l] \in {"reap", "reapClear", "reset", "agent", "settle", "settleDelete", "settleClear"} =>
       jitId[l] = cur[l]
  /\ pc[l] = "settleClear" => reg[cur[l]] = "none"

LeftInv ==
  /\ \A o \in Operators : opPc[o] \in ReapPcs
  /\ \A l \in Lanes : CycleKnows(l)

\* A registration that its lane is still going to settle: it is recorded, until the
\* reap has tried, or the process has its id.
Kept(id) ==
  \/ jitId[Owner[id]] = id /\ pc[Owner[id]] \notin {"reapClear", "mint", "record"}
  \/ cur[Owner[id]] = id /\ pc[Owner[id]] # "reapClear"

Lost == {id \in Ids : reg[id] # "none" /\ ~Kept(id)}

\* A step loses nothing, or one registration and has a fault to show for it.
LosesForFault ==
  \/ Lost' \subseteq Lost /\ faults' \in {faults, faults + 1}
  \/ faults' = faults + 1 /\ \E x : Lost' \subseteq Lost \cup {x}

\* A reap changes nothing of a lane; it may end a registration nobody settles.
LEMMA ReapLeavesLanes ==
  ASSUME TypeOK, LeftInv, OnlyReaps, NEW o \in Operators, OperatorStep(o)
  PROVE  /\ UNCHANGED <<jitId, pc, cur>>
         /\ \A i \in Ids : reg'[i] \in {reg[i], "none"}
         /\ faults' \in {faults, faults + 1}
         /\ \A p \in Operators : opPc'[p] \in ReapPcs
<1> USE DEF LeftInv, ReapPcs, NoFault, Fault, laneVars, OpGoto, Begin, EndOp, OnlyReaps
<1>0. opPc \in [Operators -> OpPcs] /\ reg \in [Ids -> {"none", "offline", "idle", "busy"}]
  BY DEF TypeOK
<1>1. opPc[o] \in {"idle", "inspect", "pending", "reap"} OBVIOUS
<1>2. ListGhosts(o) \/ InspectGhost(o) \/ CheckPending(o) \/ ReapGhost(o) \/ AbortOp(o)
  BY <1>1 DEF OperatorStep, CreateLane, DestroyLane, DestroyDeregister, DisableUnit, UnlinkUnit,
     WipeLane, FetchAgent, BuildTree, EnableUnit
<1>3. CASE ListGhosts(o) BY <1>0, <1>3 DEF ListGhosts
<1>4. CASE InspectGhost(o) BY <1>0, <1>4 DEF InspectGhost, NextRow
<1>5. CASE CheckPending(o) BY <1>0, <1>5 DEF CheckPending, NextRow
<1>6. CASE ReapGhost(o)
  <2>1. UNCHANGED <<jitId, pc, cur>> /\ NextRow(o, opId[o]) BY <1>6 DEF ReapGhost
  <2>2. \A i \in Ids : reg'[i] \in {reg[i], "none"}
    BY <1>0, <1>6 DEF ReapGhost, DeleteRunnerIgnored, DeletedRunner, DeleteRunnerFails
  <2>3. faults' \in {faults, faults + 1} BY <1>6 DEF ReapGhost, DeleteRunnerIgnored
  <2> QED BY <1>0, <2>1, <2>2, <2>3 DEF NextRow
<1>7. CASE AbortOp(o) BY <1>0, <1>7 DEF AbortOp
<1> QED BY <1>2, <1>3, <1>4, <1>5, <1>6, <1>7

\* What is kept of the other lanes stays kept, and is not deregistered.
LEMMA LaneMindsItsOwn ==
  ASSUME TypeOK, LeftInv, NEW l \in Lanes,
         StartCycle(l) \/ CycleStep(l) \/ AgentStep(l) \/ Crash(l)
  PROVE  /\ \A m \in Lanes \ {l} : pc'[m] = pc[m] /\ cur'[m] = cur[m] /\ jitId'[m] = jitId[m]
         /\ \A i \in Ids : Owner[i] # l => reg'[i] = reg[i]
         /\ UNCHANGED opPc
         /\ faults' \in {faults, faults + 1}
<1> USE LaneConstants DEF Goto, EndCycle, KillCycle, NoFault, Fault, opVars,
        DeletedRunner, DeleteRunnerFails, DeleteRunnerIgnored
<1>0. /\ reg \in [Ids -> {"none", "offline", "idle", "busy"}] /\ jitId \in [Lanes -> Ids \cup {NoId}]
      /\ pc \in [Lanes -> CyclePcs] /\ cur \in [Lanes -> Ids \cup {NoId}]
  BY DEF TypeOK
<1>k. CycleKnows(l) BY DEF LeftInv
<1>1. CASE StartCycle(l) BY <1>0, <1>1 DEF StartCycle
<1>2. CASE ReadPending(l) BY <1>0, <1>2 DEF ReadPending
<1>3. CASE ReapStale(l) BY <1>0, <1>k, <1>3 DEF ReapStale, CycleKnows
<1>4. CASE ClearStale(l) BY <1>0, <1>4 DEF ClearStale
<1>5. CASE MintJIT(l) BY <1>0, <1>5 DEF MintJIT
<1>6. CASE RecordJIT(l) BY <1>0, <1>6 DEF RecordJIT
<1>7. CASE UndoMint(l) BY <1>0, <1>k, <1>7 DEF UndoMint, CycleKnows
<1>8. CASE ResetWorkspace(l) BY <1>0, <1>8 DEF ResetWorkspace
<1>9. CASE Settle(l) BY <1>0, <1>9 DEF Settle
<1>10. CASE SettleDelete(l) BY <1>0, <1>k, <1>10 DEF SettleDelete, CycleKnows
<1>11. CASE SettleClear(l) BY <1>0, <1>11 DEF SettleClear
<1>12. CASE AgentConnects(l) BY <1>0, <1>k, <1>12 DEF AgentConnects, CycleKnows
<1>13. CASE AgentTakesJob(l) BY <1>0, <1>k, <1>13 DEF AgentTakesJob, CycleKnows
<1>14. CASE AgentFinishesJob(l) BY <1>0, <1>k, <1>14 DEF AgentFinishesJob, CycleKnows
<1>15. CASE AgentExits(l) BY <1>0, <1>k, <1>15 DEF AgentExits, CycleKnows
<1>16. CASE Crash(l) BY <1>0, <1>k, <1>16 DEF Crash, CycleKnows
<1> QED BY <1>1, <1>2, <1>3, <1>4, <1>5, <1>6, <1>7, <1>8, <1>9, <1>10, <1>11,
           <1>12, <1>13, <1>14, <1>15, <1>16 DEF CycleStep, AgentStep

\* The lane itself: what its process knows, and what it may lose.
LEMMA LaneKeepsOrPays ==
  ASSUME TypeOK, LeftInv, NEW l \in Lanes,
         StartCycle(l) \/ CycleStep(l) \/ AgentStep(l) \/ Crash(l)
  PROVE  /\ CycleKnows(l)'
         /\ \/ \A i \in Ids : Owner[i] = l /\ i \in Lost' => i \in Lost
            \/ /\ faults' = faults + 1
               /\ \E x : \A i \in Ids : Owner[i] = l /\ i \in Lost' => i \in Lost \cup {x}
<1> USE LaneConstants DEF Goto, EndCycle, KillCycle, NoFault, Fault, opVars,
        DeletedRunner, DeleteRunnerFails, DeleteRunnerIgnored, CycleKnows, Lost, Kept
<1>0. /\ reg \in [Ids -> {"none", "offline", "idle", "busy"}] /\ jitId \in [Lanes -> Ids \cup {NoId}]
      /\ pc \in [Lanes -> CyclePcs] /\ cur \in [Lanes -> Ids \cup {NoId}]
  BY DEF TypeOK
<1>k. CycleKnows(l) BY DEF LeftInv
<1>1. CASE StartCycle(l) BY <1>0, <1>k, <1>1 DEF StartCycle
<1>2. CASE ReadPending(l) BY <1>0, <1>k, <1>2 DEF ReadPending
<1>3. CASE ReapStale(l) BY <1>0, <1>k, <1>3 DEF ReapStale
<1>4. CASE ClearStale(l) BY <1>0, <1>k, <1>4 DEF ClearStale
<1>5. CASE MintJIT(l)
  <2>0. pc[l] = "mint" /\ UNCHANGED jitId BY <1>5 DEF MintJIT
  <2>1. \A i \in Ids : Owner[i] = l /\ reg[i] # "none" => i \in Lost
    BY <1>0, <1>k, <2>0
  <2>2. ASSUME NEW id \in Ids, Owner[id] = l, reg' = [reg EXCEPT ![id] = "offline"],
               cur' = [cur EXCEPT ![l] = id], pc' = [pc EXCEPT ![l] = "record"]
        PROVE  CycleKnows(l)' /\ \A i \in Ids : Owner[i] = l /\ i \in Lost' => i \in Lost
    <3>1. CycleKnows(l)' BY <1>0, <1>k, <2>0, <2>2
    <3>2. \A i \in Ids : Owner[i] = l /\ i \in Lost' => i # id BY <1>0, <2>2
    <3>3. \A i \in Ids : i # id => reg'[i] = reg[i] BY <1>0, <2>2
    <3>4. \A i \in Ids : Owner[i] = l /\ i \in Lost' => i \in Lost BY <2>1, <3>2, <3>3
    <3> QED BY <3>1, <3>4
  <2>3. ASSUME pc' = [pc EXCEPT ![l] = "down"], cur' = [cur EXCEPT ![l] = NoId]
        PROVE  CycleKnows(l)'
    BY <1>0, <1>k, <2>0, <2>3
  <2>4. ASSUME UNCHANGED reg PROVE \A i \in Ids : Owner[i] = l /\ i \in Lost' => i \in Lost
    BY <2>1, <2>4
  <2>5. ASSUME NEW id \in Ids, Owner[id] = l, reg' = [reg EXCEPT ![id] = "offline"]
        PROVE  \A i \in Ids : Owner[i] = l /\ i \in Lost' => i \in Lost \cup {id}
    <3>1. \A i \in Ids : i # id => reg'[i] = reg[i] BY <1>0, <2>5
    <3> QED BY <2>1, <3>1
  <2>6. CASE Fault("api") BY <1>5, <2>3, <2>4, <2>5, <2>6 DEF MintJIT
  <2>7. CASE ~Fault("api")
    <3> HIDE DEF Fault
    <3>1. CASE params[l]
      <4>1. PICK id \in Ids : /\ Owner[id] = l /\ reg' = [reg EXCEPT ![id] = "offline"]
                              /\ cur' = [cur EXCEPT ![l] = id] /\ pc' = [pc EXCEPT ![l] = "record"]
        BY <1>5, <2>7, <3>1 DEF MintJIT
      <4> QED BY <2>2, <4>1
    <3>2. CASE ~params[l] BY <1>5, <2>3, <2>4, <2>7, <3>2 DEF MintJIT
    <3> QED BY <3>1, <3>2
  <2> QED BY <2>6, <2>7
<1>6. CASE RecordJIT(l) BY <1>0, <1>k, <1>6 DEF RecordJIT
<1>7. CASE UndoMint(l)
  <2>0. /\ pc[l] = "undo" /\ UNCHANGED jitId
        /\ pc' = [pc EXCEPT ![l] = "down"] /\ cur' = [cur EXCEPT ![l] = NoId]
    BY <1>7 DEF UndoMint
  <2>1. CycleKnows(l)' BY <1>0, <1>k, <2>0
  <2>2. \A i \in Ids : reg'[i] \in {reg[i], "none"} BY <1>0, <1>7 DEF UndoMint
  <2>3. \A i \in Ids : Owner[i] = l /\ i \in Lost' => i \in Lost \cup {cur[l]}
    BY <1>0, <2>0, <2>2
  <2>4. CASE NoFault /\ DeletedRunner(cur[l])
    <3>1. cur[l] \in Ids /\ reg'[cur[l]] = "none" BY <1>0, <1>k, <2>0, <2>4
    <3> QED BY <2>1, <2>3, <3>1
  <2>5. CASE Fault("api") BY <2>1, <2>3, <2>5
  <2> HIDE DEF NoFault, Fault, DeletedRunner
  <2>6. (NoFault /\ DeletedRunner(cur[l])) \/ Fault("api") BY <1>7 DEF UndoMint
  <2> QED BY <2>4, <2>5, <2>6
<1>8. CASE ResetWorkspace(l) BY <1>0, <1>k, <1>8 DEF ResetWorkspace
<1>9. CASE Settle(l) BY <1>0, <1>k, <1>9 DEF Settle
<1>10. CASE SettleDelete(l) BY <1>0, <1>k, <1>10 DEF SettleDelete
<1>11. CASE SettleClear(l) BY <1>0, <1>k, <1>11 DEF SettleClear
<1>12. CASE AgentConnects(l) BY <1>0, <1>k, <1>12 DEF AgentConnects
<1>13. CASE AgentTakesJob(l) BY <1>0, <1>k, <1>13 DEF AgentTakesJob
<1>14. CASE AgentFinishesJob(l) BY <1>0, <1>k, <1>14 DEF AgentFinishesJob
<1>15. CASE AgentExits(l) BY <1>0, <1>k, <1>15 DEF AgentExits
<1>16. CASE Crash(l) BY <1>0, <1>k, <1>16 DEF Crash
<1> QED BY <1>1, <1>2, <1>3, <1>4, <1>5, <1>6, <1>7, <1>8, <1>9, <1>10, <1>11,
           <1>12, <1>13, <1>14, <1>15, <1>16 DEF CycleStep, AgentStep

LEMMA LeftStep ==
  ASSUME TypeOK, LeftInv, OnlyReaps, [Next]_vars
  PROVE  LeftInv' /\ LosesForFault
<1>0. \A i \in Ids : Owner[i] \in Lanes BY LaneConstants
<1>1. ASSUME NEW l \in Lanes, StartCycle(l) \/ CycleStep(l) \/ AgentStep(l) \/ Crash(l)
      PROVE  LeftInv' /\ LosesForFault
  <2>1. /\ \A m \in Lanes \ {l} : pc'[m] = pc[m] /\ cur'[m] = cur[m] /\ jitId'[m] = jitId[m]
        /\ \A i \in Ids : Owner[i] # l => reg'[i] = reg[i]
        /\ UNCHANGED opPc
        /\ faults' \in {faults, faults + 1}
    BY <1>1, LaneMindsItsOwn
  <2>2. /\ CycleKnows(l)'
        /\ \/ \A i \in Ids : Owner[i] = l /\ i \in Lost' => i \in Lost
           \/ /\ faults' = faults + 1
              /\ \E x : \A i \in Ids : Owner[i] = l /\ i \in Lost' => i \in Lost \cup {x}
    BY <1>1, LaneKeepsOrPays
  <2>3. ASSUME NEW m \in Lanes \ {l} PROVE CycleKnows(m)'
    <3>1. CycleKnows(m) BY DEF LeftInv
    <3> QED BY <2>1, <3>1 DEF CycleKnows
  <2>4. LeftInv' BY <2>1, <2>2, <2>3 DEF LeftInv
  <2>5. \A i \in Ids : Owner[i] # l /\ i \in Lost' => i \in Lost
    BY <1>0, <2>1 DEF Lost, Kept
  <2>6. Lost' \subseteq Ids BY DEF Lost
  <2> QED BY <2>1, <2>2, <2>4, <2>5, <2>6 DEF LosesForFault
<1>2. ASSUME NEW o \in Operators, OperatorStep(o) PROVE LeftInv' /\ LosesForFault
  <2>1. /\ UNCHANGED <<jitId, pc, cur>>
        /\ \A i \in Ids : reg'[i] \in {reg[i], "none"}
        /\ faults' \in {faults, faults + 1}
        /\ \A p \in Operators : opPc'[p] \in ReapPcs
    BY <1>2, ReapLeavesLanes
  <2>2. LeftInv' BY <2>1 DEF LeftInv, CycleKnows
  <2>3. Lost' \subseteq Lost BY <2>1 DEF Lost, Kept
  <2> QED BY <2>1, <2>2, <2>3 DEF LosesForFault
<1>3. CASE UNCHANGED vars
  BY <1>3 DEF vars, laneVars, opVars, LeftInv, CycleKnows, LosesForFault, Lost, Kept
<1> QED BY <1>1, <1>2, <1>3 DEF Next

LostIsPaid == IsFiniteSet(Lost) /\ Cardinality(Lost) <= faults

LEMMA PaidStep ==
  ASSUME faults \in Nat, LostIsPaid, LosesForFault
  PROVE  LostIsPaid'
<1>0. Cardinality(Lost) \in Nat BY FS_CardinalityType DEF LostIsPaid
<1>1. CASE Lost' \subseteq Lost /\ faults' \in {faults, faults + 1}
  <2>1. IsFiniteSet(Lost') /\ Cardinality(Lost') <= Cardinality(Lost) /\ Cardinality(Lost') \in Nat
    BY <1>1, FS_Subset, FS_CardinalityType DEF LostIsPaid
  <2> QED BY <1>0, <1>1, <2>1 DEF LostIsPaid
<1>2. ASSUME NEW x, faults' = faults + 1, Lost' \subseteq Lost \cup {x} PROVE LostIsPaid'
  <2>1. /\ IsFiniteSet(Lost \cup {x})
        /\ Cardinality(Lost \cup {x}) <= Cardinality(Lost) + 1
    BY <1>0, FS_AddElement DEF LostIsPaid
  <2>2. /\ IsFiniteSet(Lost') /\ Cardinality(Lost') <= Cardinality(Lost \cup {x})
        /\ Cardinality(Lost') \in Nat /\ Cardinality(Lost \cup {x}) \in Nat
    BY <1>2, <2>1, FS_Subset, FS_CardinalityType
  <2> QED BY <1>0, <1>2, <2>1, <2>2 DEF LostIsPaid
<1> QED BY <1>1, <1>2 DEF LosesForFault

\* On a host that destroys no lanes, each registration nobody will settle has cost a
\* fault of its own: a history without faults leaves none, and no single fault two.
THEOREM OrphansCostTheirFaults ==
  ASSUME OnlyReaps
  PROVE  Spec => []OrphansBounded
<1>1. Init => LeftInv /\ LostIsPaid
  <2> SUFFICES ASSUME Init PROVE LeftInv /\ LostIsPaid
    OBVIOUS
  <2>1. Lost = {} /\ faults = 0 BY DEF Init, Lost
  <2>2. LostIsPaid BY <2>1, FS_EmptySet DEF LostIsPaid
  <2> QED BY <2>2 DEF Init, LeftInv, ReapPcs, CycleKnows
<1>2. TypeOK /\ LeftInv /\ LostIsPaid /\ [Next]_vars => (LeftInv /\ LostIsPaid)'
  <2> SUFFICES ASSUME TypeOK, LeftInv, LostIsPaid, [Next]_vars PROVE (LeftInv /\ LostIsPaid)'
    OBVIOUS
  <2>1. LeftInv' /\ LosesForFault BY OnlyReaps, LeftStep
  <2>2. faults \in Nat BY LaneConstants DEF TypeOK
  <2> QED BY <2>1, <2>2, PaidStep
<1>3. TypeOK /\ LostIsPaid => OrphansBounded
  <2> SUFFICES ASSUME TypeOK, LostIsPaid PROVE OrphansBounded
    OBVIOUS
  <2>1. Orphans \subseteq Lost BY DEF Orphans, Lost, Kept
  <2>2. Cardinality(Orphans) <= Cardinality(Lost) /\ Cardinality(Orphans) \in Nat /\ Cardinality(Lost) \in Nat
    BY <2>1, FS_Subset, FS_CardinalityType DEF LostIsPaid
  <2>3. faults \in Nat BY LaneConstants DEF TypeOK
  <2> QED BY <2>2, <2>3 DEF LostIsPaid, OrphansBounded
<1> QED BY <1>1, <1>2, <1>3, TypeCorrect, PTL DEF Spec

-----------------------------------------------------------------------------
(* What goes from a lane's record is settled *)

\* What a process is about to clear or to write over is gone from GitHub.
Settled(l) ==
  /\ pc[l] = "reapClear" => reg[cur[l]] = "none"
  /\ pc[l] \in {"mint", "record"} => jitId[l] = NoId \/ reg[jitId[l]] = "none"

LEMMA LaneSettles ==
  ASSUME TypeOK, LeftInv, "api" \notin Faults, NEW l \in Lanes, Settled(l),
         StartCycle(l) \/ CycleStep(l) \/ AgentStep(l) \/ Crash(l)
  PROVE  /\ Settled(l)'
         /\ jitId[l] # NoId /\ jitId'[l] = NoId => reg[jitId[l]] = "none"
<1> USE LaneConstants DEF Goto, EndCycle, KillCycle, NoFault, Fault, opVars,
        DeletedRunner, DeleteRunnerFails, DeleteRunnerIgnored, CycleKnows, Settled
<1>0. /\ reg \in [Ids -> {"none", "offline", "idle", "busy"}] /\ jitId \in [Lanes -> Ids \cup {NoId}]
      /\ pc \in [Lanes -> CyclePcs] /\ cur \in [Lanes -> Ids \cup {NoId}]
  BY DEF TypeOK
<1>k. CycleKnows(l) BY DEF LeftInv
<1>1. CASE StartCycle(l) BY <1>0, <1>k, <1>1 DEF StartCycle
<1>2. CASE ReadPending(l) BY <1>0, <1>k, <1>2 DEF ReadPending
<1>3. CASE ReapStale(l) BY <1>0, <1>k, <1>3 DEF ReapStale
<1>4. CASE ClearStale(l) BY <1>0, <1>k, <1>4 DEF ClearStale
<1>5. CASE MintJIT(l) BY <1>0, <1>k, <1>5 DEF MintJIT, Fresh
<1>6. CASE RecordJIT(l) BY <1>0, <1>k, <1>6 DEF RecordJIT
<1>7. CASE UndoMint(l) BY <1>0, <1>k, <1>7 DEF UndoMint
<1>8. CASE ResetWorkspace(l) BY <1>0, <1>k, <1>8 DEF ResetWorkspace
<1>9. CASE Settle(l) BY <1>0, <1>k, <1>9 DEF Settle
<1>10. CASE SettleDelete(l) BY <1>0, <1>k, <1>10 DEF SettleDelete
<1>11. CASE SettleClear(l) BY <1>0, <1>k, <1>11 DEF SettleClear
<1>12. CASE AgentConnects(l) BY <1>0, <1>k, <1>12 DEF AgentConnects
<1>13. CASE AgentTakesJob(l) BY <1>0, <1>k, <1>13 DEF AgentTakesJob
<1>14. CASE AgentFinishesJob(l) BY <1>0, <1>k, <1>14 DEF AgentFinishesJob
<1>15. CASE AgentExits(l) BY <1>0, <1>k, <1>15 DEF AgentExits
<1>16. CASE Crash(l) BY <1>0, <1>k, <1>16 DEF Crash
<1> QED BY <1>1, <1>2, <1>3, <1>4, <1>5, <1>6, <1>7, <1>8, <1>9, <1>10, <1>11,
           <1>12, <1>13, <1>14, <1>15, <1>16 DEF CycleStep, AgentStep

LEMMA SettledStep ==
  ASSUME TypeOK, LeftInv, OnlyReaps, "api" \notin Faults, \A l \in Lanes : Settled(l), [Next]_vars
  PROVE  (\A l \in Lanes : Settled(l)') /\ ClearsOnlyWhenGone
<1>0. jitId \in [Lanes -> Ids \cup {NoId}] /\ cur \in [Lanes -> Ids \cup {NoId}] BY DEF TypeOK
<1>1. ASSUME NEW l \in Lanes, StartCycle(l) \/ CycleStep(l) \/ AgentStep(l) \/ Crash(l)
      PROVE  (\A m \in Lanes : Settled(m)') /\ ClearsOnlyWhenGone
  <2>1. /\ \A m \in Lanes \ {l} : pc'[m] = pc[m] /\ cur'[m] = cur[m] /\ jitId'[m] = jitId[m]
        /\ \A i \in Ids : Owner[i] # l => reg'[i] = reg[i]
    BY <1>1, LaneMindsItsOwn
  <2>2. /\ Settled(l)'
        /\ jitId[l] # NoId /\ jitId'[l] = NoId => reg[jitId[l]] = "none"
    BY <1>1, LaneSettles
  <2>3. ASSUME NEW m \in Lanes \ {l} PROVE Settled(m)'
    <3>1. CycleKnows(m) BY DEF LeftInv
    <3> QED BY <1>0, <2>1, <3>1, LaneConstants DEF CycleKnows, Settled
  <2> QED BY <2>1, <2>2, <2>3 DEF ClearsOnlyWhenGone
<1>2. ASSUME NEW o \in Operators, OperatorStep(o)
      PROVE  (\A m \in Lanes : Settled(m)') /\ ClearsOnlyWhenGone
  <2>1. UNCHANGED <<jitId, pc, cur>> /\ \A i \in Ids : reg'[i] \in {reg[i], "none"}
    BY <1>2, ReapLeavesLanes
  <2>2. \A m \in Lanes : CycleKnows(m) BY DEF LeftInv
  <2> QED BY <1>0, <2>1, <2>2, LaneConstants DEF Settled, CycleKnows, ClearsOnlyWhenGone
<1>3. CASE UNCHANGED vars
  BY <1>3 DEF vars, laneVars, opVars, Settled, ClearsOnlyWhenGone
<1> QED BY <1>1, <1>2, <1>3 DEF Next

\* On a host that destroys no lanes and whose calls to GitHub are answered, the id of a
\* registration leaves its lane's record only once the registration is gone, wherever
\* cycles crash and whichever records and clears fail.
THEOREM RecordsOutliveGhosts ==
  ASSUME OnlyReaps, "api" \notin Faults
  PROVE  Spec => [][ClearsOnlyWhenGone]_vars
<1> DEFINE AllSettled == \A l \in Lanes : Settled(l)
<1>1. Init => LeftInv /\ AllSettled
  <2> SUFFICES ASSUME Init PROVE LeftInv /\ AllSettled
    OBVIOUS
  <2> QED BY DEF Init, LeftInv, ReapPcs, CycleKnows, Settled
<1>2. TypeOK /\ LeftInv /\ AllSettled /\ [Next]_vars => (LeftInv /\ AllSettled)' /\ [ClearsOnlyWhenGone]_vars
  <2> SUFFICES ASSUME TypeOK, LeftInv, AllSettled, [Next]_vars
               PROVE  (LeftInv /\ AllSettled)' /\ ClearsOnlyWhenGone
    OBVIOUS
  <2>1. LeftInv' BY OnlyReaps, LeftStep
  <2>2. AllSettled' /\ ClearsOnlyWhenGone BY OnlyReaps, SettledStep
  <2> QED BY <2>1, <2>2
<1> QED BY <1>1, <1>2, TypeCorrect, PTL DEF Spec
=============================================================================
