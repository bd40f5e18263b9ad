--------------------------- MODULE TuiViewsProofs ---------------------------
(***************************************************************************)
(* Proofs about TuiViews, for any rows, orgs, filters and tabs, any        *)
(* subjects, groups and repositories, and any number of commands and       *)
(* answers outstanding: lists, cursors and panels stay well-formed         *)
(* whatever is answered late, and what the operator confirms or saves      *)
(* takes away only what she was shown.                                     *)
(***************************************************************************)
EXTENDS TuiViews, FiniteSetTheorems, TLAPS

-----------------------------------------------------------------------------
(* A bag of commands and answers.                                          *)

\* How often x is in the bag B.
Copies(x, B) == IF x \in DOMAIN B THEN B[x] ELSE 0

Posted(B, m)      == B (+) SetToBag({m})
Answered(B, m, R) == (B (-) SetToBag({m})) (+) SetToBag(R)

\* One more command, or one taken out and those of R put in its place.
LEMMA PostedBag ==
  ASSUME NEW B, IsABag(B), NEW m
  PROVE  /\ IsABag(Posted(B, m)) /\ DOMAIN Posted(B, m) = DOMAIN B \cup {m}
         /\ \A x \in DOMAIN B : x # m => Posted(B, m)[x] = B[x]
         /\ m \notin DOMAIN B => Posted(B, m)[m] = 1
BY DEF Posted, IsABag, SetToBag, (+), BagIn, BagToSet

LEMMA AnsweredBag ==
  ASSUME NEW B, IsABag(B), NEW m \in DOMAIN B, NEW R
  PROVE  LET C == Answered(B, m, R)
         IN  /\ IsABag(C)
             /\ DOMAIN C \subseteq DOMAIN B \cup R
             /\ (DOMAIN B \ {m}) \cup R \subseteq DOMAIN C
             /\ \A x \in DOMAIN C : C[x] <= Copies(x, B) + (IF x \in R THEN 1 ELSE 0)
             /\ B[m] = 1 /\ m \notin R => m \notin DOMAIN C
<1> DEFINE C == Answered(B, m, R)
           D == B (-) SetToBag({m})
<1>1. IsABag(D) /\ DOMAIN D = {x \in DOMAIN B : x # m \/ B[x] > 1}
      /\ \A x \in DOMAIN D : D[x] = B[x] - IF x = m THEN 1 ELSE 0
  BY DEF IsABag, SetToBag, (-), BagIn, BagToSet
<1>2. C = D (+) SetToBag(R)
  BY DEF Answered
<1> HIDE DEF C, D
<1>3. DOMAIN C = DOMAIN D \cup R
  BY <1>2 DEF SetToBag, (+), BagToSet
<1>4. \A x \in DOMAIN C : C[x] = (IF x \in DOMAIN D THEN D[x] ELSE 0) + (IF x \in R THEN 1 ELSE 0)
  BY <1>2 DEF SetToBag, (+), BagIn, BagToSet
<1>5. \A x \in DOMAIN D : D[x] \in Nat /\ D[x] > 0 /\ D[x] <= B[x] /\ x \in DOMAIN B
  BY <1>1 DEF IsABag
<1>6. IsABag(C)
  <2>1. C = [x \in DOMAIN C |-> C[x]]
    BY <1>2 DEF SetToBag, (+)
  <2>2. \A x \in DOMAIN C : C[x] \in Nat /\ C[x] > 0
    BY <1>3, <1>4, <1>5
  <2> QED BY <2>1, <2>2 DEF IsABag
<1>7. DOMAIN C \subseteq DOMAIN B \cup R /\ (DOMAIN B \ {m}) \cup R \subseteq DOMAIN C
  BY <1>3, <1>1
<1>8. \A x \in DOMAIN C : C[x] <= Copies(x, B) + (IF x \in R THEN 1 ELSE 0)
  <2> SUFFICES ASSUME NEW x \in DOMAIN C PROVE C[x] <= Copies(x, B) + (IF x \in R THEN 1 ELSE 0)
    OBVIOUS
  <2> DEFINE had  == IF x \in DOMAIN D THEN D[x] ELSE 0
             more == IF x \in R THEN 1 ELSE 0
  <2>1. Copies(x, B) \in Nat
    BY DEF Copies, IsABag
  <2>2. had \in Nat /\ had <= Copies(x, B) /\ more \in Nat
    BY <2>1, <1>5 DEF Copies, IsABag
  <2>3. C[x] = had + more
    BY <1>4
  <2> HIDE DEF had, more
  <2>4. C[x] <= Copies(x, B) + more
    BY <2>1, <2>2, <2>3
  <2> QED BY <2>4 DEF more
<1>9. B[m] = 1 /\ m \notin R => m \notin DOMAIN C
  BY <1>1, <1>3
<1> QED BY <1>6, <1>7, <1>8, <1>9 DEF C

-----------------------------------------------------------------------------
(* Rows in their order.                                                    *)

LEMMA RowsAreFinite ==
  ASSUME NEW R, R \subseteq AllRows
  PROVE  IsFiniteSet(R) /\ Cardinality(R) \in Nat /\ (Cardinality(R) = 0 <=> R = {})
<1>1. Order \in Seq(AllRows) /\ DOMAIN Order = 1 .. Len(Order) /\ Len(Order) \in Nat
  BY FleetAssumption
<1>2. Order \in Surjection(1 .. Len(Order), AllRows)
  BY <1>1 DEF Surjection, AllRows
<1>3. IsFiniteSet(1 .. Len(Order))
  BY <1>1, FS_Interval
<1>4. IsFiniteSet(AllRows)
  BY <1>2, <1>3, FS_Surjection
<1>5. IsFiniteSet(R)
  BY <1>4, FS_Subset
<1> QED BY <1>5, FS_CardinalityType, FS_EmptySet

LEMMA BeforeIsAnOrder ==
  /\ \A x : ~Before(x, x)
  /\ \A x, y, z : Before(x, y) /\ Before(y, z) => Before(x, z)
  /\ \A x, y \in AllRows : x = y \/ Before(x, y) \/ Before(y, x)
<1>1. DOMAIN Order = 1 .. Len(Order) /\ Len(Order) \in Nat
      /\ \A i, j \in DOMAIN Order : Order[i] = Order[j] => i = j
  BY FleetAssumption
<1>2. \A i \in DOMAIN Order : i \in Int
  BY <1>1
<1>3. \A x : ~Before(x, x)
  BY <1>1, <1>2 DEF Before
<1>4. ASSUME NEW x, NEW y, NEW z, Before(x, y), Before(y, z) PROVE Before(x, z)
  BY <1>1, <1>2, <1>4 DEF Before
<1>5. ASSUME NEW x \in AllRows, NEW y \in AllRows PROVE x = y \/ Before(x, y) \/ Before(y, x)
  <2>1. PICK i \in DOMAIN Order, j \in DOMAIN Order : Order[i] = x /\ Order[j] = y
    BY DEF AllRows
  <2>2. i = j \/ i < j \/ j < i
    BY <1>2
  <2> QED BY <2>1, <2>2 DEF Before
<1> QED BY <1>3, <1>4, <1>5

\* The rows before r in R are fewer than R, and fewer than those before a later one.
LEMMA PlaceGrows ==
  ASSUME NEW R, R \subseteq AllRows, NEW r \in R
  PROVE  /\ Place(r, R) \in 0 .. Cardinality(R) - 1
         /\ \A x \in R : Before(x, r) => Place(x, R) < Place(r, R)
<1> DEFINE Below(y) == {x \in R : Before(x, y)}
<1>1. \A y : Below(y) \subseteq AllRows /\ Below(y) \subseteq R
  OBVIOUS
<1>2. \A y : IsFiniteSet(Below(y)) /\ Cardinality(Below(y)) \in Nat
  BY <1>1, RowsAreFinite
<1>3. IsFiniteSet(R) /\ Cardinality(R) \in Nat
  BY RowsAreFinite
<1>4. Cardinality(Below(r)) < Cardinality(R)
  <2>1. r \notin Below(r)
    BY BeforeIsAnOrder
  <2>2. Below(r) # R
    BY <2>1
  <2>3. Cardinality(Below(r)) <= Cardinality(R) /\ Cardinality(Below(r)) # Cardinality(R)
    BY <1>1, <1>3, <2>2, FS_Subset
  <2> QED BY <1>2, <1>3, <2>3
<1>5. ASSUME NEW x \in R, Before(x, r) PROVE Cardinality(Below(x)) < Cardinality(Below(r))
  <2>1. Below(x) \subseteq Below(r)
    BY <1>5, BeforeIsAnOrder
  <2>2. x \in Below(r) /\ x \notin Below(x)
    BY <1>5, BeforeIsAnOrder
  <2>3. Below(x) # Below(r)
    BY <2>2
  <2>4. Cardinality(Below(x)) <= Cardinality(Below(r)) /\ Cardinality(Below(x)) # Cardinality(Below(r))
    BY <1>2, <2>1, <2>3, FS_Subset
  <2> QED BY <1>2, <2>4
<1> QED BY <1>2, <1>3, <1>4, <1>5 DEF Place

\* Every place of a list has exactly one row.
LEMMA PlacesAreTaken ==
  ASSUME NEW R, R \subseteq AllRows, NEW c \in 0 .. Cardinality(R) - 1
  PROVE  \E r \in R : {x \in R : Place(x, R) = c} = {r}
<1> DEFINE n == Cardinality(R)
           f == [r \in R |-> Place(r, R)]
<1>1. IsFiniteSet(R) /\ n \in Nat
  BY RowsAreFinite
<1>2. \A x, y \in R : Place(x, R) = Place(y, R) => x = y
  <2> SUFFICES ASSUME NEW x \in R, NEW y \in R, Place(x, R) = Place(y, R), x # y PROVE FALSE
    OBVIOUS
  <2>1. Before(x, y) \/ Before(y, x)
    BY BeforeIsAnOrder
  <2>2. Place(x, R) < Place(y, R) \/ Place(y, R) < Place(x, R)
    BY <2>1, PlaceGrows
  <2>3. Place(x, R) \in Int /\ Place(y, R) \in Int
    BY PlaceGrows
  <2> QED BY <2>2, <2>3
<1>3. \A x \in R : Place(x, R) \in 0 .. n - 1
  BY PlaceGrows
<1>4. f \in Injection(R, 0 .. n - 1)
  BY <1>2, <1>3 DEF Injection, IsInjective
<1>5. IsFiniteSet(0 .. n - 1) /\ Cardinality(0 .. n - 1) = n
  BY <1>1, FS_Interval
<1>6. f \in Surjection(R, 0 .. n - 1)
  BY <1>1, <1>4, <1>5, FS_Injection
<1>7. PICK r \in R : f[r] = c
  BY <1>6 DEF Surjection
<1>8. {x \in R : Place(x, R) = c} = {r}
  BY <1>2, <1>7
<1> QED BY <1>8

-----------------------------------------------------------------------------
(* The steps of the lists by their groups: what each leaves alone.         *)

Ticked == onAutoTickMsg(TRUE) \/ onAutoTickMsg(FALSE)

\* What a step of the lists is, and what a joint step is for them.
LoopStep == Beside \/ Told \/ Ticked \/ CloseForm \/ dismissOp \/ Looking \/ Marking \/ Forms \/ Asking
SharedStep ==
  /\ UNCHANGED <<fleet, budget, snap, fed, fleetLoaded, orgVisible, listVars, vtab, autoOn, asking, ticks, form>>
  /\ \/ UNCHANGED reads /\ Loads
     \/ \E t \in {"acted", "actFailed"} : Post(Cmd(t)) /\ UNCHANGED <<busyLoading, lost>>
     \/ Cmd("save") \in DOMAIN reads /\ Answer(Cmd("save"), {}) /\ LeftLoading

LEMMA LoopSteps ==
  ASSUME NEW free \in BOOLEAN, FleetStep(free)
  PROVE  LoopStep
<1>1. onAutoTickMsg(free) => Ticked
  BY DEF Ticked
<1> QED BY <1>1 DEF FleetStep, Keys, LoopStep

LEMMA BesideFrame ==
  Beside => /\ UNCHANGED <<snap, fed, fleetLoaded, orgVisible, query, cursor, marks>>
            /\ UNCHANGED <<vtab, busyLoading, autoOn, asking, ticks, form, lost>>
BY DEF Beside, FleetChanges, FleetFast, AuditHost, RunAct, listVars, loopVars

LEMMA ToldFrame ==
  Told => UNCHANGED <<fleet, budget, orgVisible, query, marks, vtab, autoOn, asking>>
<1>1. onFleetMsg \/ onHostTierMsg \/ onTabMsg => UNCHANGED <<fleet, budget, orgVisible, query, marks, vtab, autoOn, asking>>
  BY DEF onFleetMsg, onHostTierMsg, onTabMsg, listVars
<1>2. onDoneMsg => UNCHANGED <<fleet, budget, orgVisible, query, marks, vtab, autoOn, asking>>
  BY DEF onDoneMsg, onActionMsg, onGroupSavedMsg, onRunnerGroupsMsg, onReloadMsg, listVars
<1>3. Swallow \/ SwallowTick => UNCHANGED <<fleet, budget, orgVisible, query, marks, vtab, autoOn, asking>>
  BY DEF Swallow, SwallowTick, listVars
<1> QED BY <1>1, <1>2, <1>3 DEF Told

\* Of what is told, only a listing or an audit changes the lists.
LEMMA ToldListsFrame ==
  Told => onFleetMsg \/ onHostTierMsg \/ UNCHANGED <<snap, fed, cursor>>
<1>1. onTabMsg \/ Swallow \/ SwallowTick => UNCHANGED <<snap, fed, cursor>>
  BY DEF onTabMsg, Swallow, SwallowTick, listVars
<1>2. onDoneMsg => UNCHANGED <<snap, fed, cursor>>
  BY DEF onDoneMsg, onActionMsg, onGroupSavedMsg, onRunnerGroupsMsg, onReloadMsg, listVars
<1> QED BY <1>1, <1>2 DEF Told

LEMMA FormsFrame ==
  Ticked \/ CloseForm \/ Forms =>
    UNCHANGED <<fleet, budget, snap, fed, fleetLoaded, orgVisible, query, cursor, marks, vtab, autoOn, asking>>
BY DEF Ticked, onAutoTickMsg, CloseForm, Forms, OpenForm, startEditRunner, listVars

LEMMA LookingFrame ==
  Looking => UNCHANGED <<fleet, budget, snap, fed, fleetLoaded, query, marks, asking, form>>
BY DEF Looking, Refresh, toggleAuto, enterTab, orgFilterKey, jumpFromDrift, listVars, loopVars

LEMMA MarkingFrame ==
  Marking => /\ UNCHANGED <<fleet, budget, snap, fed, fleetLoaded, orgVisible, vtab>>
             /\ UNCHANGED <<busyLoading, autoOn, reads, asking, ticks, form, lost>>
BY DEF Marking, updateFilter, moveCursor, toggleSelect, SetMarks, selectAllVisible, onEsc, loopVars

LEMMA AskingFrame ==
  Asking \/ dismissOp => UNCHANGED <<budget, snap, fed, fleetLoaded, orgVisible, query, cursor, vtab, autoOn, ticks, form>>
BY DEF Asking, askDelete, askOther, startRecreate, startSweep, Ask, Cancel, runConfirmed, runPendingOp, runOnConfirm,
   dismissOp, listVars, loopVars

-----------------------------------------------------------------------------
(* The lists: types, one part of the state at a time.                      *)

FleetOK == /\ fleet \in [rows : SUBSET AllRows, drifted : SUBSET AllRows]
           /\ fleet.drifted \subseteq fleet.rows /\ budget \in 0 .. MaxEvents
ListsOK == /\ snap \in [rows : SUBSET AllRows, class : [AllRows -> Classes]] /\ fed \subseteq Orgs
           /\ query \in [Kinds -> SUBSET AllRows]
           /\ cursor \in [Kinds -> Int] /\ \A k \in Kinds : CursorFits(k)
ScreenOK == /\ orgVisible \subseteq Orgs /\ (orgVisible = {} \/ orgVisible # Orgs)
            /\ vtab \in ViewTabs /\ autoOn \in BOOLEAN
LoopOK == /\ busyLoading \in BOOLEAN /\ fleetLoaded \in BOOLEAN /\ form \in BOOLEAN
          /\ ticks \in 0 .. MaxTicks /\ lost \subseteq {"load", "tick"}
AskedOK == marks \in [Kinds -> SUBSET AllRows] /\ asking \in Asks
ReadsOK == IsABag(reads) /\ BagToSet(reads) \subseteq Reads

LEMMA FleetParts == FleetTypeOK <=> FleetOK /\ ListsOK /\ ScreenOK /\ LoopOK /\ AskedOK /\ ReadsOK
BY DEF FleetTypeOK, FleetOK, ListsOK, ScreenOK, LoopOK, AskedOK, ReadsOK

LEMMA TabsFit == /\ \A t : KindOfTab(t) \in Kinds
                 /\ \A k : RowsOf(k) \subseteq AllRows
BY FleetAssumption DEF KindOfTab, Kinds, RowsOf

LEMMA ShownFits ==
  ASSUME ListsOK, NEW k \in Kinds
  PROVE  /\ Listed(k) \subseteq AllRows /\ Listed(k) \subseteq RowsOf(k)
         /\ Shown(k) \subseteq AllRows /\ Shown(k) \subseteq Listed(k)
         /\ selected(k) \subseteq Listed(k) /\ selectedRows(k) \subseteq Listed(k)
         /\ targetsOn(k) \subseteq Listed(k)
BY TabsFit DEF Listed, ListedUnder, Shown, ShownOf, selected, selectedRows, targetsOn

\* The messages by their kind.
LEMMA ReadsKnown ==
  ASSUME ReadsOK, NEW m \in DOMAIN reads
  PROVE  /\ m.t = "fleetMsg" => m \in [t : {"fleetMsg"}, rows : SUBSET AllRows]
         /\ m.t = "hostTierMsg" => m \in [t : {"hostTierMsg"}, rows : SUBSET AllRows, bad : SUBSET AllRows]
         /\ m.t = "act" => m \in [t : {"act"}, rows : SUBSET AllRows]
BY DEF ReadsOK, Reads, Cmd, BagToSet

LEMMA PostKept ==
  ASSUME ReadsOK, NEW m \in Reads, Post(m)
  PROVE  ReadsOK' /\ DOMAIN reads' = DOMAIN reads \cup {m}
<1>1. IsABag(reads) /\ DOMAIN reads \subseteq Reads
  BY DEF ReadsOK, BagToSet
<1>2. reads' = Posted(reads, m)
  BY DEF Post, Posted
<1>3. IsABag(reads') /\ DOMAIN (reads') = DOMAIN reads \cup {m}
  BY <1>1, <1>2, PostedBag
<1> QED BY <1>1, <1>3 DEF ReadsOK, IsABag, BagToSet

LEMMA AnswerKept ==
  ASSUME ReadsOK, NEW m \in DOMAIN reads, NEW R \in SUBSET Reads, Answer(m, R)
  PROVE  /\ ReadsOK' /\ (DOMAIN reads \ {m}) \cup R \subseteq DOMAIN reads'
         /\ DOMAIN reads' \subseteq DOMAIN reads \cup R
<1>1. IsABag(reads) /\ DOMAIN reads \subseteq Reads
  BY DEF ReadsOK, BagToSet
<1>2. reads' = Answered(reads, m, R)
  BY DEF Answer, Answered
<1>3. /\ IsABag(reads') /\ DOMAIN (reads') \subseteq DOMAIN reads \cup R
      /\ (DOMAIN reads \ {m}) \cup R \subseteq DOMAIN (reads')
  BY <1>1, <1>2, AnsweredBag
<1> QED BY <1>1, <1>3 DEF ReadsOK, IsABag, BagToSet

-----------------------------------------------------------------------------
(* What m.loading waits for.                                               *)

Waited(m) == m.t \notin Audits \cup {"tier"}
Pending   == \E m \in DOMAIN reads : Waited(m)
Written   == busyLoading' => "load" \in lost'
\* What is sent off to end rows ends none but those that were asked about.
OnTargets(m) == m.t = "act" => m.rows \subseteq asking.targets

LEMMA CmdsAreReads ==
  ASSUME NEW t \in {"fleet", "load", "acted", "actFailed", "save", "scan", "reload"}
  PROVE  Cmd(t) \in Reads /\ Waited(Cmd(t)) /\ Cmd(t).t # "act"
BY DEF Reads, Cmd, Waited, Audits

LEMMA TiersAreReads ==
  /\ Cmd("tier") \in Reads /\ ~Waited(Cmd("tier")) /\ Cmd("tierFailed") \in Reads
  /\ Cmd("tier").t # "act" /\ Cmd("tierFailed").t # "act"
  /\ \A R \in SUBSET AllRows : Act(R) \in Reads /\ Waited(Act(R)) /\ Act(R).rows = R
BY DEF Reads, Cmd, Act, Waited, Audits

LEMMA LoadsAreReads ==
  ASSUME NEW t
  PROVE  loadOf(t) \in Reads /\ Waited(loadOf(t)) /\ loadOf(t).t # "act"
BY CmdsAreReads DEF loadOf

\* A step begins what is waited for, or answers a message: with one that is waited
\* for, or with m.loading reset or written off, or it was not waited for.
Begun == \E m \in Reads : Waited(m) /\ OnTargets(m) /\ Post(m)
Answering == \E m \in DOMAIN reads, R \in SUBSET Reads :
  /\ Answer(m, R) /\ \A x \in R : x.t # "act"
  /\ \/ Written
     \/ \E x \in R : Waited(x)
     \/ ~Waited(m) /\ UNCHANGED <<busyLoading, lost>>
Idling == UNCHANGED <<reads, busyLoading>> /\ ("load" \in lost => "load" \in lost')

LEMMA BesideReads ==
  ASSUME FleetTypeOK, Beside
  PROVE  Idling \/ Answering
<1> USE FleetParts
<1>1. CASE FleetChanges
  BY <1>1 DEF FleetChanges, loopVars, Idling
<1>2. CASE FleetFast
  <2>1. [t |-> "fleetMsg", rows |-> fleet.rows] \in Reads
    BY DEF Reads, FleetOK
  <2>2. Waited([t |-> "fleetMsg", rows |-> fleet.rows])
    BY DEF Waited, Audits
  <2> QED BY <1>2, <2>1, <2>2 DEF FleetFast, Answering
<1>3. CASE AuditHost
  <2>1. [t |-> "hostTierMsg", rows |-> fleet.rows, bad |-> fleet.drifted] \in Reads
    BY DEF Reads, FleetOK
  <2>2. PICK R \in SUBSET Reads : Answer(Cmd("tier"), R) /\ \A x \in R : x.t # "act"
    BY <1>3, <2>1, TiersAreReads DEF AuditHost
  <2> QED BY <1>3, <2>2, TiersAreReads DEF AuditHost, Answering, loopVars
<1>4. CASE RunAct
  <2>1. PICK m \in DOMAIN reads : Answer(m, {Cmd("acted")}) \/ Answer(m, {Cmd("actFailed")})
    BY <1>4 DEF RunAct
  <2> QED BY <2>1, CmdsAreReads DEF Answering
<1> QED BY <1>1, <1>2, <1>3, <1>4 DEF Beside

LEMMA LeftIsWritten == LeftLoading => Written
BY DEF LeftLoading, Written

LEMMA LoadedIsWritten == Loaded => Written
BY DEF Loaded, Written

LEMMA ToldReads ==
  ASSUME FleetTypeOK, Told
  PROVE  Idling \/ Answering
<1> USE LeftIsWritten, LoadedIsWritten
<1>0. {} \in SUBSET Reads
  OBVIOUS
<1>1. CASE onFleetMsg
  <2>1. PICK m \in DOMAIN reads : Loaded /\ Answer(m, IF HostCapable THEN {Cmd("tier")} ELSE {})
    BY <1>1 DEF onFleetMsg
  <2> DEFINE R == IF HostCapable THEN {Cmd("tier")} ELSE {}
  <2>2. R \in SUBSET Reads /\ \A x \in R : x.t # "act"
    BY TiersAreReads
  <2>3. Answer(m, R) /\ Written
    BY <2>1
  <2> HIDE DEF R
  <2> QED BY <2>2, <2>3 DEF Answering
<1>2. CASE onHostTierMsg
  <2>1. PICK m \in DOMAIN reads : m.t \in Audits /\ Answer(m, {})
    BY <1>2 DEF onHostTierMsg, Audits
  <2> QED BY <1>0, <1>2, <2>1 DEF onHostTierMsg, loopVars, Waited, Answering
<1>3. CASE onTabMsg
  BY <1>0, <1>3 DEF onTabMsg, Answering
<1>4. CASE onDoneMsg
  <2>1. CASE onActionMsg
    BY <1>0, <2>1, LoadsAreReads DEF onActionMsg, Answering
  <2>2. CASE onGroupSavedMsg
    BY <1>0, <2>2, CmdsAreReads DEF onGroupSavedMsg, Answering
  <2>3. CASE onRunnerGroupsMsg
    BY <1>0, <2>3 DEF onRunnerGroupsMsg, Answering
  <2>4. CASE onReloadMsg
    BY <1>0, <2>4, LoadsAreReads DEF onReloadMsg, Answering
  <2> QED BY <1>4, <2>1, <2>2, <2>3, <2>4 DEF onDoneMsg
<1>5. CASE Swallow
  <2>1. PICK m \in DOMAIN reads :
          /\ Answer(m, {})
          /\ IF m.t \in Audits THEN UNCHANGED <<busyLoading, lost>> ELSE LeftLoading
    BY <1>5 DEF Swallow
  <2>2. CASE m.t \in Audits
    BY <1>0, <2>1, <2>2 DEF Waited, Answering
  <2>3. CASE m.t \notin Audits
    <3>1. Written
      BY <2>1, <2>3
    <3> QED BY <1>0, <2>1, <3>1 DEF Answering
  <2> QED BY <2>2, <2>3
<1>6. CASE SwallowTick
  BY <1>6 DEF SwallowTick, Idling
<1> QED BY <1>1, <1>2, <1>3, <1>4, <1>5, <1>6 DEF Told

LEMMA KeysReads ==
  ASSUME FleetTypeOK, Ticked \/ CloseForm \/ dismissOp \/ Looking \/ Marking \/ Forms \/ Asking
  PROVE  Idling \/ Begun
<1>1. ASSUME NEW t, Begin(loadOf(t)) PROVE Begun
  BY <1>1, LoadsAreReads DEF Begin, Begun, OnTargets
<1>2. CASE Ticked
  BY <1>1, <1>2 DEF Ticked, onAutoTickMsg, reloadCurrent, Idling
<1>3. CASE CloseForm
  <2>1. CASE UNCHANGED <<busyLoading, reads, lost>>
    BY <2>1 DEF Idling
  <2>2. CASE \E m \in {Act({}), Cmd("save"), Cmd("reload")} : Begin(m)
    BY <2>2, CmdsAreReads, TiersAreReads DEF Begin, Begun, OnTargets
  <2> QED BY <1>3, <2>1, <2>2 DEF CloseForm
<1>4. CASE dismissOp
  BY <1>1, <1>4 DEF dismissOp, reloadCurrent
<1>5. CASE Looking
  <2>1. CASE Refresh \/ enterTab \/ orgFilterKey
    BY <1>1, <2>1 DEF Refresh, enterTab, orgFilterKey, reloadCurrent, Idling
  <2>2. CASE toggleAuto
    BY <2>2 DEF toggleAuto, Idling
  <2>3. CASE jumpFromDrift
    BY <2>3 DEF jumpFromDrift, loopVars, Idling
  <2> QED BY <1>5, <2>1, <2>2, <2>3 DEF Looking
<1>6. CASE Marking
  BY <1>6, MarkingFrame DEF Idling
<1>7. CASE Forms
  <2>1. CASE OpenForm
    BY <2>1 DEF OpenForm, Idling
  <2>2. CASE startEditRunner
    BY <2>2, CmdsAreReads DEF startEditRunner, Begin, Begun, OnTargets
  <2> QED BY <1>7, <2>1, <2>2 DEF Forms
<1>8. CASE Asking
  <2>1. CASE askDelete \/ askOther \/ startRecreate \/ startSweep \/ Cancel \/ runPendingOp
    BY <2>1 DEF askDelete, askOther, startRecreate, startSweep, Ask, Cancel, runPendingOp, loopVars, Idling
  <2>2. CASE runOnConfirm
    <3>1. asking.targets \in SUBSET AllRows
      BY DEF FleetTypeOK, Asks
    <3> QED BY <2>2, <3>1, CmdsAreReads, TiersAreReads DEF runOnConfirm, Struck, Begin, Begun, OnTargets
  <2> QED BY <1>8, <2>1, <2>2 DEF Asking, runConfirmed
<1> QED BY <1>2, <1>3, <1>4, <1>5, <1>6, <1>7, <1>8

LEMMA ReadsMove ==
  ASSUME FleetTypeOK, LoopStep
  PROVE  Idling \/ Begun \/ Answering
BY BesideReads, ToldReads, KeysReads DEF LoopStep

LEMMA ReadsKept ==
  ASSUME FleetTypeOK, LoopStep \/ SharedStep
  PROVE  ReadsOK'
<1> USE FleetParts
<1>1. CASE UNCHANGED reads
  BY <1>1 DEF ReadsOK, IsABag, BagToSet
<1>2. CASE LoopStep
  BY <1>1, <1>2, ReadsMove, PostKept, AnswerKept DEF Idling, Begun, Answering
<1>3. CASE SharedStep
  <2>1. {} \in SUBSET Reads
    OBVIOUS
  <2> QED BY <1>1, <1>3, <2>1, PostKept, AnswerKept, CmdsAreReads DEF SharedStep
<1> QED BY <1>2, <1>3

\* What is loading stays under way: an answer that takes it away resets m.loading,
\* or begins another, or m.loading is left set.
LEMMA LoadsKept ==
  ASSUME FleetTypeOK, LoopStep, busyLoading', "load" \notin lost'
  PROVE  Pending' \/ (busyLoading /\ "load" \notin lost /\ (Pending => Pending'))
<1>0. ReadsOK
  BY FleetParts
<1>1. CASE Idling
  BY <1>1 DEF Idling, Pending
<1>2. CASE Begun
  BY <1>0, <1>2, PostKept DEF Begun, Pending
<1>3. CASE Answering
  <2>1. PICK m \in DOMAIN reads, R \in SUBSET Reads :
          /\ Answer(m, R)
          /\ \/ \E x \in R : Waited(x)
             \/ ~Waited(m) /\ UNCHANGED <<busyLoading, lost>>
    BY <1>3 DEF Answering, Written
  <2>2. (DOMAIN reads \ {m}) \cup R \subseteq DOMAIN reads'
    BY <1>0, <2>1, AnswerKept
  <2> QED BY <2>1, <2>2 DEF Pending
<1> QED BY <1>1, <1>2, <1>3, ReadsMove

\* The tick is followed by another, until it is disarmed or a form has taken it.
LEMMA LossKeepsTicks ==
  Loads \/ Loaded \/ LeftLoading => ("tick" \in lost <=> "tick" \in lost')
BY DEF Loads, Loaded, LeftLoading

LEMMA TicksKept ==
  ASSUME FleetTypeOK, TickIsUnderWay, LoopStep \/ SharedStep
  PROVE  TickIsUnderWay'
<1> USE LossKeepsTicks DEF TickIsUnderWay
<1>1. CASE UNCHANGED <<autoOn, ticks>> /\ ("tick" \in lost <=> "tick" \in lost')
  BY <1>1
<1>2. CASE Beside \/ Marking
  BY <1>1, <1>2, BesideFrame, MarkingFrame
<1>3. CASE Told
  <2>1. CASE onFleetMsg \/ onHostTierMsg \/ onTabMsg
    BY <1>1, <2>1 DEF onFleetMsg, onHostTierMsg, onTabMsg, loopVars
  <2>2. CASE onDoneMsg
    BY <1>1, <2>2 DEF onDoneMsg, onActionMsg, onGroupSavedMsg, onRunnerGroupsMsg, onReloadMsg
  <2>3. CASE Swallow
    BY <1>1, <2>3 DEF Swallow
  <2>4. CASE SwallowTick
    BY <2>4 DEF SwallowTick
  <2> QED BY <1>3, <2>1, <2>2, <2>3, <2>4 DEF Told
<1>4. CASE Ticked
  BY <1>4 DEF Ticked, onAutoTickMsg, reloadCurrent, Begin
<1>5. CASE CloseForm \/ Forms
  BY <1>1, <1>5 DEF CloseForm, Forms, OpenForm, startEditRunner, Begin
<1>6. CASE toggleAuto
  <2>1. ticks \in Nat
    BY FleetParts DEF LoopOK
  <2> QED BY <1>6, <2>1 DEF toggleAuto
<1>7. CASE Refresh \/ enterTab \/ orgFilterKey \/ jumpFromDrift
  BY <1>1, <1>7 DEF Refresh, enterTab, orgFilterKey, jumpFromDrift, reloadCurrent, Begin, loopVars
<1>8. CASE Asking \/ dismissOp
  BY <1>1, <1>8 DEF Asking, askDelete, askOther, startRecreate, startSweep, Ask, Cancel, runConfirmed, runPendingOp,
     runOnConfirm, dismissOp, reloadCurrent, Begin, loopVars
<1>9. CASE SharedStep
  BY <1>1, <1>9 DEF SharedStep
<1> QED BY <1>2, <1>3, <1>4, <1>5, <1>6, <1>7, <1>8, <1>9 DEF LoopStep, Looking

LEMMA LoopKept ==
  ASSUME FleetTypeOK, LoopStep \/ SharedStep
  PROVE  LoopOK'
<1> USE FleetParts
<1>0. /\ busyLoading \in BOOLEAN /\ fleetLoaded \in BOOLEAN /\ form \in BOOLEAN
      /\ ticks \in 0 .. MaxTicks /\ lost \subseteq {"load", "tick"} /\ autoOn \in BOOLEAN /\ MaxTicks \in Nat
  BY FleetAssumption DEF LoopOK, ScreenOK
<1>1. ASSUME Loads \/ Loaded \/ LeftLoading PROVE busyLoading' \in BOOLEAN /\ lost' \subseteq {"load", "tick"}
  BY <1>0, <1>1 DEF Loads, Loaded, LeftLoading
<1>2. CASE UNCHANGED <<busyLoading, fleetLoaded, form, ticks, lost>>
  BY <1>0, <1>2 DEF LoopOK
<1>3. CASE UNCHANGED <<fleetLoaded, form, ticks>> /\ (Loads \/ Loaded \/ LeftLoading)
  BY <1>0, <1>1, <1>3 DEF LoopOK
<1>4. CASE Beside \/ Marking
  BY <1>2, <1>4, BesideFrame, MarkingFrame
<1>5. CASE Told
  <2>1. CASE onFleetMsg \/ onHostTierMsg \/ onTabMsg
    BY <1>0, <1>1, <1>2, <2>1 DEF onFleetMsg, onHostTierMsg, onTabMsg, loopVars, LoopOK
  <2>2. CASE onDoneMsg
    BY <1>0, <1>1, <2>2 DEF onDoneMsg, onActionMsg, onGroupSavedMsg, onRunnerGroupsMsg, onReloadMsg, LoopOK
  <2>3. CASE Swallow
    BY <1>2, <1>3, <2>3 DEF Swallow
  <2>4. CASE SwallowTick
    BY <1>0, <2>4 DEF SwallowTick, LoopOK
  <2> QED BY <1>5, <2>1, <2>2, <2>3, <2>4 DEF Told
<1>6. CASE Ticked
  <2>1. CASE UNCHANGED ticks /\ Loads
    BY <1>3, <1>6, <2>1 DEF Ticked, onAutoTickMsg, fleetVars
  <2>2. CASE ticks > 0 /\ ticks' = ticks - 1 /\ UNCHANGED <<busyLoading, lost>>
    <3>1. UNCHANGED <<fleetLoaded, form>>
      BY <1>6 DEF Ticked, onAutoTickMsg
    <3> QED BY <1>0, <2>2, <3>1 DEF LoopOK
  <2> QED BY <1>6, <2>1, <2>2 DEF Ticked, onAutoTickMsg, reloadCurrent, Begin
<1>7. CASE CloseForm \/ Forms
  BY <1>0, <1>1, <1>7 DEF CloseForm, Forms, OpenForm, startEditRunner, Begin, LoopOK
<1>8. CASE toggleAuto
  <2>1. UNCHANGED <<fleetLoaded, form, busyLoading>>
    BY <1>8 DEF toggleAuto
  <2>2. \/ UNCHANGED <<ticks, lost>>
        \/ ticks < MaxTicks /\ ticks' = ticks + 1 /\ lost' = lost \ {"tick"}
    BY <1>8 DEF toggleAuto
  <2>3. ticks' \in 0 .. MaxTicks
    BY <1>0, <2>2
  <2>4. lost' \subseteq {"load", "tick"}
    BY <1>0, <2>2
  <2> QED BY <1>0, <2>1, <2>3, <2>4 DEF LoopOK
<1>9. CASE Refresh \/ enterTab \/ orgFilterKey \/ jumpFromDrift
  BY <1>2, <1>3, <1>9 DEF Refresh, enterTab, orgFilterKey, jumpFromDrift, reloadCurrent, Begin, loopVars
<1>10. CASE Asking \/ dismissOp
  BY <1>2, <1>3, <1>10, AskingFrame DEF Asking, askDelete, askOther, startRecreate, startSweep, Ask, Cancel, runConfirmed,
     runPendingOp, runOnConfirm, dismissOp, reloadCurrent, Begin, loopVars
<1>11. CASE SharedStep
  BY <1>2, <1>3, <1>11 DEF SharedStep
<1> QED BY <1>4, <1>5, <1>6, <1>7, <1>8, <1>9, <1>10, <1>11 DEF LoopStep, Looking

LEMMA FleetKept ==
  ASSUME FleetTypeOK, LoopStep \/ SharedStep
  PROVE  FleetOK'
<1> USE FleetParts, FleetAssumption
<1>1. CASE UNCHANGED <<fleet, budget>>
  BY <1>1 DEF FleetOK
<1>2. CASE FleetChanges
  BY <1>2 DEF FleetChanges, FleetOK
<1>3. CASE AuditHost
  BY <1>3 DEF AuditHost, FleetOK
<1>4. CASE RunAct
  BY <1>4 DEF RunAct, FleetOK
<1>5. CASE runPendingOp
  BY <1>5 DEF runPendingOp, FleetOK
<1>6. CASE FleetFast
  BY <1>1, <1>6 DEF FleetFast
<1>7. CASE askDelete \/ askOther \/ startRecreate \/ startSweep \/ Cancel \/ runOnConfirm \/ dismissOp
  BY <1>1, <1>7 DEF askDelete, askOther, startRecreate, startSweep, Ask, Cancel, runOnConfirm, dismissOp
<1>8. CASE Told \/ Ticked \/ CloseForm \/ Forms \/ Looking \/ Marking
  BY <1>1, <1>8, ToldFrame, FormsFrame, LookingFrame, MarkingFrame
<1>9. CASE SharedStep
  BY <1>1, <1>9 DEF SharedStep
<1> QED BY <1>2, <1>3, <1>4, <1>5, <1>6, <1>7, <1>8, <1>9 DEF LoopStep, Beside, Asking, runConfirmed

LEMMA KeepFits ==
  ASSUME NEW c \in Int, c >= -1, NEW n \in Nat
  PROVE  KeepCursor(c, n) \in -1 .. n - 1
BY DEF KeepCursor

\* A cursor is at least -1.
LEMMA CursorsAreLow ==
  ASSUME ListsOK, NEW k \in Kinds
  PROVE  cursor[k] \in Int /\ cursor[k] >= -1
<1>1. CursorFits(k) /\ cursor[k] \in Int
  BY DEF ListsOK
<1>2. Cardinality(Shown(k)) \in Nat
  BY ShownFits, RowsAreFinite
<1> QED BY <1>1, <1>2 DEF CursorFits

\* However the rows change under a list, its clamped cursor fits what it then shows.
LEMMA ClampedFits ==
  ASSUME ListsOK, snap' \in [rows : SUBSET AllRows, class : [AllRows -> Classes]], fed' \subseteq Orgs,
         query' \in [Kinds -> SUBSET AllRows], cursor' = KeepCursors(snap', fed', query')
  PROVE  ListsOK'
<1>1. ASSUME NEW k \in Kinds PROVE cursor'[k] \in Int /\ CursorFits(k)'
  <2> DEFINE R == ShownOf(ListedUnder(snap', fed', k), query'[k])
  <2>1. R \subseteq AllRows
    BY DEF ShownOf, ListedUnder
  <2>2. Cardinality(R) \in Nat
    BY <2>1, RowsAreFinite
  <2>3. cursor'[k] = KeepCursor(cursor[k], Cardinality(R))
    BY DEF KeepCursors
  <2>4. cursor'[k] \in -1 .. Cardinality(R) - 1
    BY <2>2, <2>3, CursorsAreLow, KeepFits
  <2>5. R = Shown(k)'
    BY DEF Shown, Listed
  <2> HIDE DEF R
  <2>6. cursor'[k] \in Int
    BY <2>2, <2>4
  <2> QED BY <2>4, <2>5, <2>6 DEF CursorFits
<1>2. cursor' \in [Kinds -> Int]
  <2>1. cursor' = [k \in Kinds |-> cursor'[k]]
    BY DEF KeepCursors
  <2> QED BY <1>1, <2>1
<1> QED BY <1>1, <1>2 DEF ListsOK

\* A cursor put on a row of its list fits it.
LEMMA MovedFits ==
  ASSUME ListsOK, UNCHANGED <<snap, fed, query>>, NEW k \in Kinds, NEW i \in Int,
         (CursorFits(k) /\ i = cursor[k]) \/ i \in 0 .. Cardinality(Shown(k)) - 1,
         cursor' = [cursor EXCEPT ![k] = i]
  PROVE  ListsOK'
<1>1. cursor' \in [Kinds -> Int]
  BY DEF ListsOK
<1>2. \A j \in Kinds : Shown(j)' = Shown(j)
  BY DEF Shown, Listed
<1>3. ASSUME NEW j \in Kinds PROVE CursorFits(j)'
  <2>1. CursorFits(j)
    BY DEF ListsOK
  <2>2. cursor'[j] = IF j = k THEN i ELSE cursor[j]
    BY DEF ListsOK
  <2>3. Cardinality(Shown(k)) \in Nat
    BY ShownFits, RowsAreFinite
  <2>4. CASE i = cursor[k]
    BY <1>2, <2>1, <2>2, <2>4 DEF CursorFits
  <2>5. CASE i \in 0 .. Cardinality(Shown(k)) - 1
    BY <1>2, <2>1, <2>2, <2>3, <2>5 DEF CursorFits
  <2> QED BY <2>4, <2>5
<1> QED BY <1>1, <1>3 DEF ListsOK

LEMMA ListsKept ==
  ASSUME FleetTypeOK, LoopStep \/ SharedStep
  PROVE  ListsOK'
<1> USE FleetParts
<1>1. CASE UNCHANGED <<snap, fed, query, cursor>>
  BY <1>1 DEF ListsOK, CursorFits, Shown, Listed
<1>2. CASE onFleetMsg
  <2>1. PICK m \in DOMAIN reads : /\ m.t = "fleetMsg" /\ UNCHANGED query
                                  /\ feedFleetViews([rows |-> m.rows, class |-> [r \in AllRows |-> "unaudited"]])
    BY <1>2 DEF onFleetMsg
  <2>2. m.rows \in SUBSET AllRows
    BY <2>1, ReadsKnown
  <2>3. [r \in AllRows |-> "unaudited"] \in [AllRows -> Classes]
    BY DEF Classes
  <2>4. snap' \in [rows : SUBSET AllRows, class : [AllRows -> Classes]]
    BY <2>1, <2>2, <2>3 DEF feedFleetViews
  <2> QED BY <2>1, <2>4, ClampedFits DEF feedFleetViews, ListsOK, ScreenOK
<1>3. CASE onHostTierMsg
  <2>1. PICK m \in DOMAIN reads : /\ UNCHANGED query
                                  /\ \/ m.t = "hostTierMsg" /\ feedFleetViews(MergeHostTier(m))
                                     \/ UNCHANGED <<snap, fed, cursor>>
    BY <1>3 DEF onHostTierMsg
  <2>2. CASE UNCHANGED <<snap, fed, cursor>>
    BY <1>1, <2>1, <2>2
  <2>3. CASE feedFleetViews(MergeHostTier(m))
    <3>1. snap.rows \in SUBSET AllRows /\ snap.class \in [AllRows -> Classes]
      BY DEF ListsOK
    <3> DEFINE c == [r \in AllRows |-> IF r \notin snap.rows \cap m.rows THEN snap.class[r]
                                       ELSE IF r \in m.bad THEN "drifted" ELSE "healthy"]
    <3>2. c \in [AllRows -> Classes]
      BY <3>1 DEF Classes
    <3>3. MergeHostTier(m) = [snap EXCEPT !.class = c]
      BY DEF MergeHostTier
    <3> HIDE DEF c
    <3>4. snap' \in [rows : SUBSET AllRows, class : [AllRows -> Classes]]
      BY <2>3, <3>2, <3>3 DEF feedFleetViews, ListsOK
    <3> QED BY <2>1, <2>3, <3>4, ClampedFits DEF feedFleetViews, ListsOK, ScreenOK
  <2> QED BY <2>1, <2>2, <2>3
<1>4. CASE updateFilter
  <2>1. PICK q \in Queries \cup {AllRows} : /\ query' = [query EXCEPT ![KindOfTab(vtab)] = q]
                                            /\ cursor' = KeepCursors(snap, fed, query')
                                            /\ UNCHANGED <<snap, fed>>
    BY <1>4 DEF updateFilter
  <2>2. q \subseteq AllRows
    BY FleetAssumption
  <2>3. query' \in [Kinds -> SUBSET AllRows]
    BY <2>1, <2>2 DEF ListsOK
  <2> QED BY <2>1, <2>3, ClampedFits DEF ListsOK
<1>5. CASE moveCursor
  <2>1. PICK i \in 0 .. Cardinality(AllRows) - 1 :
          /\ i < Cardinality(Shown(KindOfTab(vtab))) /\ cursor' = [cursor EXCEPT ![KindOfTab(vtab)] = i]
          /\ UNCHANGED <<snap, fed, query>>
    BY <1>5 DEF moveCursor
  <2>2. KindOfTab(vtab) \in Kinds
    BY TabsFit
  <2>3. Cardinality(Shown(KindOfTab(vtab))) \in Nat /\ Cardinality(AllRows) \in Nat
    BY <2>2, ShownFits, RowsAreFinite
  <2>4. i \in Int /\ i \in 0 .. Cardinality(Shown(KindOfTab(vtab))) - 1
    BY <2>1, <2>3
  <2> QED BY <2>1, <2>2, <2>4, MovedFits
<1>6. CASE jumpFromDrift
  <2>1. PICK r : LET k == IF r \in SlotRows THEN "slot" ELSE "runner"
                 IN  cursor' = [cursor EXCEPT ![k] = IF r \in Shown(k) THEN Place(r, Shown(k)) ELSE @]
    BY <1>6 DEF jumpFromDrift
  <2>2. UNCHANGED <<snap, fed, query>>
    BY <1>6 DEF jumpFromDrift
  <2> DEFINE k == IF r \in SlotRows THEN "slot" ELSE "runner"
             i == IF r \in Shown(k) THEN Place(r, Shown(k)) ELSE cursor[k]
  <2>3. k \in Kinds
    BY DEF Kinds
  <2>4. cursor' = [cursor EXCEPT ![k] = i]
    BY <2>1
  <2> HIDE DEF k
  <2>5. CursorFits(k) /\ cursor[k] \in Int
    BY <2>3 DEF ListsOK
  <2>6. Shown(k) \subseteq AllRows /\ Cardinality(Shown(k)) \in Nat
    BY <2>3, ShownFits, RowsAreFinite
  <2>7. i \in Int /\ ((CursorFits(k) /\ i = cursor[k]) \/ i \in 0 .. Cardinality(Shown(k)) - 1)
    BY <2>5, <2>6, PlaceGrows
  <2> HIDE DEF i
  <2> QED BY <2>2, <2>3, <2>4, <2>7, MovedFits
<1>7. CASE Told
  BY <1>1, <1>2, <1>3, <1>7, ToldFrame, ToldListsFrame
<1>8. CASE Looking
  BY <1>1, <1>6, <1>8 DEF Looking, Refresh, toggleAuto, enterTab, orgFilterKey, listVars
<1>9. CASE Marking
  BY <1>1, <1>4, <1>5, <1>9 DEF Marking, toggleSelect, SetMarks, selectAllVisible, onEsc
<1>10. CASE Beside \/ Ticked \/ CloseForm \/ Forms \/ Asking \/ dismissOp
  BY <1>1, <1>10, BesideFrame, FormsFrame, AskingFrame
<1>11. CASE SharedStep
  BY <1>1, <1>11 DEF SharedStep, listVars
<1> QED BY <1>7, <1>8, <1>9, <1>10, <1>11 DEF LoopStep

LEMMA ScreenKept ==
  ASSUME FleetTypeOK, LoopStep \/ SharedStep
  PROVE  ScreenOK'
<1> USE FleetParts DEF ScreenOK
<1>1. CASE UNCHANGED <<orgVisible, vtab, autoOn>>
  BY <1>1
<1>2. CASE Beside \/ Told \/ Ticked \/ CloseForm \/ Forms \/ Marking \/ Asking \/ dismissOp
  BY <1>1, <1>2, BesideFrame, ToldFrame, FormsFrame, MarkingFrame, AskingFrame
<1>3. CASE toggleAuto
  BY <1>3 DEF toggleAuto
<1>4. CASE enterTab
  BY <1>4 DEF enterTab
<1>5. CASE orgFilterKey
  <2>1. PICK S \in SUBSET Orgs : orgVisible' = orgFilterResult(S)
    BY <1>5 DEF orgFilterKey
  <2>2. orgVisible' \subseteq Orgs /\ (orgVisible' = {} \/ orgVisible' # Orgs)
    BY <2>1 DEF orgFilterResult
  <2> QED BY <1>5, <2>2 DEF orgFilterKey
<1>6. CASE jumpFromDrift
  <2>1. UNCHANGED <<orgVisible, autoOn>> /\ vtab = "drift"
    BY <1>6 DEF jumpFromDrift
  <2>2. PICK r : vtab' = IF r \in SlotRows THEN "ephemeral" ELSE "persistent"
    BY <1>6 DEF jumpFromDrift
  <2> QED BY <2>1, <2>2, FleetAssumption
<1>7. CASE Refresh
  BY <1>1, <1>7 DEF Refresh
<1>8. CASE SharedStep
  BY <1>1, <1>8 DEF SharedStep
<1> QED BY <1>2, <1>3, <1>4, <1>5, <1>6, <1>7, <1>8 DEF LoopStep, Looking

LEMMA AskedFits ==
  ASSUME AskedOK, UNCHANGED marks, NEW what \in {"each", "one", "group", "restore", "sweep"}, NEW T \in SUBSET AllRows,
         asking' = [what |-> what, targets |-> T, stage |-> "confirm"]
  PROVE  AskedOK'
BY DEF AskedOK, Asks

LEMMA MarksFit ==
  ASSUME AskedOK, UNCHANGED asking, NEW k \in Kinds, NEW M \in SUBSET AllRows, SetMarks(k, M)
  PROVE  AskedOK'
BY DEF AskedOK, SetMarks

LEMMA AskedKept ==
  ASSUME FleetTypeOK, LoopStep \/ SharedStep
  PROVE  AskedOK'
<1> USE FleetParts
<1> DEFINE here == KindOfTab(vtab)
<1>0. here \in Kinds /\ marks[here] \in SUBSET AllRows /\ Shown(here) \in SUBSET AllRows
      /\ targetsOn(here) \in SUBSET AllRows /\ selected(here) \in SUBSET AllRows
  <2>1. here \in Kinds
    BY TabsFit
  <2>2. Listed(here) \subseteq AllRows
    BY <2>1, ShownFits
  <2> QED BY <2>1, <2>2, ShownFits DEF AskedOK
<1> HIDE DEF here
<1>1. CASE UNCHANGED <<marks, asking>>
  BY <1>1 DEF AskedOK
<1>2. CASE Beside \/ Told \/ Ticked \/ CloseForm \/ Forms \/ Looking
  BY <1>1, <1>2, BesideFrame, ToldFrame, FormsFrame, LookingFrame
<1>3. CASE toggleSelect
  <2>1. PICK r \in selected(here) : SetMarks(here, IF r \in marks[here] THEN marks[here] \ {r} ELSE marks[here] \cup {r})
    BY <1>3 DEF toggleSelect, here
  <2>2. (IF r \in marks[here] THEN marks[here] \ {r} ELSE marks[here] \cup {r}) \in SUBSET AllRows
    BY <1>0
  <2> QED BY <1>0, <2>1, <2>2, MarksFit DEF SetMarks
<1>4. CASE selectAllVisible
  <2>1. SetMarks(here, IF allVisibleSelected(here) THEN {} ELSE marks[here] \cup Shown(here))
    BY <1>4 DEF selectAllVisible, here
  <2>2. (IF allVisibleSelected(here) THEN {} ELSE marks[here] \cup Shown(here)) \in SUBSET AllRows
    BY <1>0
  <2> QED BY <1>0, <2>1, <2>2, MarksFit DEF SetMarks
<1>5. CASE updateFilter \/ moveCursor \/ onEsc
  BY <1>1, <1>5 DEF updateFilter, moveCursor, onEsc, AskedOK
<1>6. CASE askDelete
  <2>1. PICK what \in {"each", "one"} : Ask(what, targetsOn(here))
    BY <1>6 DEF askDelete, here
  <2> QED BY <1>0, <2>1, AskedFits DEF Ask, listVars
<1>7. CASE startRecreate
  BY <1>7, <1>0, AskedFits DEF startRecreate, Ask, listVars, here
<1>8. CASE askOther
  BY <1>8, AskedFits DEF askOther, Ask, listVars
<1>9. CASE startSweep
  <2>1. sweepScope \in SUBSET AllRows
    <3>1. "runner" \in Kinds
      BY DEF Kinds
    <3> QED BY <3>1, TabsFit, ShownFits DEF sweepScope, selectionOnly
  <2> QED BY <1>9, <2>1, AskedFits DEF startSweep, Ask, listVars
<1>10. CASE Cancel \/ dismissOp \/ runOnConfirm
  BY <1>10 DEF Cancel, dismissOp, runOnConfirm, NoAsk, AskedOK, Asks, listVars
<1>11. CASE runPendingOp
  BY <1>11 DEF runPendingOp, AskedOK, Asks, listVars
<1>12. CASE SharedStep
  BY <1>1, <1>12 DEF SharedStep, listVars
<1> QED BY <1>2, <1>3, <1>4, <1>5, <1>6, <1>7, <1>8, <1>9, <1>10, <1>11, <1>12
        DEF LoopStep, Marking, Asking, runConfirmed

LEMMA FleetStarts == FleetInit => FleetTypeOK
<1> SUFFICES ASSUME FleetInit PROVE FleetTypeOK
  OBVIOUS
<1> USE FleetAssumption DEF FleetInit, Blank
<1>1. FleetOK
  BY DEF FleetOK
<1>2. ListsOK
  <2>1. [r \in AllRows |-> "unaudited"] \in [AllRows -> Classes]
    BY DEF Classes
  <2>2. \A k \in Kinds : Shown(k) = {} /\ cursor[k] = 0
    BY DEF Shown, ShownOf, Listed, ListedUnder
  <2> QED BY <2>1, <2>2 DEF ListsOK, CursorFits
<1>3. ScreenOK /\ LoopOK
  <2>1. ScreenOK
    BY DEF ScreenOK
  <2>2. 0 \in 0 .. MaxTicks
    OBVIOUS
  <2> QED BY <2>1, <2>2 DEF LoopOK
<1>4. AskedOK
  BY DEF AskedOK, Asks, NoAsk
<1>5. ReadsOK
  BY DEF ReadsOK, IsABag, BagToSet, SetToBag, Reads
<1> QED BY <1>1, <1>2, <1>3, <1>4, <1>5, FleetParts

LEMMA FleetTyped == FleetTypeOK /\ (LoopStep \/ SharedStep) => FleetTypeOK'
BY FleetKept, ListsKept, ScreenKept, LoopKept, AskedKept, ReadsKept
   DEF FleetTypeOK, FleetOK, ListsOK, ScreenOK, LoopOK, AskedOK, ReadsOK

LEMMA CursorIsOnARow ==
  ASSUME FleetTypeOK, NEW k \in Kinds, Shown(k) # {}
  PROVE  cursor[k] = -1 \/ \E r \in Shown(k) : selected(k) = {r}
<1>1. ListsOK
  BY FleetParts
<1>2. CursorFits(k) /\ cursor[k] \in Int /\ cursor[k] >= -1
  BY <1>1, CursorsAreLow DEF ListsOK
<1>3. Shown(k) \subseteq AllRows /\ Cardinality(Shown(k)) \in Nat
  BY <1>1, ShownFits, RowsAreFinite
<1>4. CASE cursor[k] # -1
  <2>1. cursor[k] \in 0 .. Cardinality(Shown(k)) - 1
    BY <1>2, <1>3, <1>4 DEF CursorFits
  <2> QED BY <1>3, <2>1, PlacesAreTaken DEF selected
<1> QED BY <1>4

-----------------------------------------------------------------------------
(* An operation strikes what was listed when it was asked.                 *)

StrikesStep ==
  /\ asking.stage = "none" /\ asking'.what \in {"each", "one"} =>
       asking'.targets # {} /\ asking'.targets \subseteq Listed(KindOfTab(vtab))
  /\ asking.stage # "none" /\ asking'.stage # "none" => asking'.targets = asking.targets
  /\ runConfirmed => /\ fleet.rows \ fleet'.rows \subseteq asking.targets
                     /\ asking.what = "sweep" => fleet' = fleet
  /\ \A m \in DOMAIN reads' \ DOMAIN reads : m.t = "act" => m.rows \subseteq asking.targets

\* An operation that is over leaves nothing behind.
AtRest == asking.stage = "none" => asking = NoAsk

LEMMA RestKept ==
  ASSUME FleetTypeOK, AtRest, LoopStep \/ SharedStep
  PROVE  AtRest'
<1>1. CASE UNCHANGED asking
  BY <1>1 DEF AtRest, NoAsk
<1>2. CASE askDelete \/ askOther \/ startRecreate \/ startSweep
  BY <1>2 DEF askDelete, askOther, startRecreate, startSweep, Ask, AtRest
<1>3. CASE Cancel \/ dismissOp \/ runOnConfirm
  BY <1>3 DEF Cancel, dismissOp, runOnConfirm, AtRest, NoAsk
<1>4. CASE runPendingOp
  <2>1. asking'.stage = "done"
    BY <1>4 DEF runPendingOp, FleetTypeOK, Asks
  <2> QED BY <2>1 DEF AtRest
<1>5. CASE Beside \/ Told \/ Ticked \/ CloseForm \/ Forms \/ Looking \/ Marking
  BY <1>1, <1>5, BesideFrame, ToldFrame, FormsFrame, LookingFrame, MarkingFrame
<1>6. CASE SharedStep
  BY <1>1, <1>6 DEF SharedStep
<1> QED BY <1>2, <1>3, <1>4, <1>5, <1>6 DEF LoopStep, Asking, runConfirmed

\* Whatever is newly sent off to end rows ends none but those that were asked about.
SentStep == \A m \in DOMAIN reads' \ DOMAIN reads : m.t = "act" => m.rows \subseteq asking.targets

LEMMA SendsOnlyThat ==
  ASSUME FleetTypeOK, LoopStep \/ SharedStep
  PROVE  SentStep
<1>0. ReadsOK
  BY FleetParts
<1>1. ASSUME NEW R \in SUBSET Reads, \A x \in R : x.t # "act", NEW m \in DOMAIN reads, Answer(m, R) PROVE SentStep
  BY <1>0, <1>1, AnswerKept DEF SentStep
<1>2. ASSUME NEW m \in Reads, OnTargets(m), Post(m) PROVE SentStep
  BY <1>0, <1>2, PostKept DEF OnTargets, SentStep
<1>3. CASE LoopStep
  <2>1. CASE Idling
    BY <2>1 DEF Idling, SentStep
  <2>2. CASE Begun
    BY <1>2, <2>2 DEF Begun
  <2>3. CASE Answering
    BY <1>1, <2>3 DEF Answering
  <2> QED BY <1>3, <2>1, <2>2, <2>3, ReadsMove
<1>4. CASE SharedStep
  <2>1. CASE UNCHANGED reads
    BY <2>1 DEF SentStep
  <2>2. CASE \E t \in {"acted", "actFailed"} : Post(Cmd(t))
    BY <1>2, <2>2, CmdsAreReads DEF OnTargets
  <2>3. CASE Cmd("save") \in DOMAIN reads /\ Answer(Cmd("save"), {})
    BY <1>1, <2>3
  <2> QED BY <1>4, <2>1, <2>2, <2>3 DEF SharedStep
<1> QED BY <1>3, <1>4

LEMMA StrikesOnlyThat ==
  ASSUME FleetTypeOK, AtRest, LoopStep \/ SharedStep
  PROVE  StrikesStep
<1>0. asking \in Asks /\ fleet \in [rows : SUBSET AllRows, drifted : SUBSET AllRows] /\ ListsOK
      /\ (asking.stage = "none" => asking.what = "none")
  BY FleetParts DEF FleetTypeOK, AtRest, NoAsk
<1> DEFINE here == KindOfTab(vtab)
<1>1. here \in Kinds /\ targetsOn(here) \subseteq Listed(here)
  BY <1>0, TabsFit, ShownFits
<1>2. SentStep
  BY SendsOnlyThat
<1> USE <1>2 DEF SentStep
<1>3. CASE runConfirmed
  <2>1. asking.stage = "confirm"
    BY <1>3 DEF runConfirmed, runPendingOp, runOnConfirm
  <2>2. CASE runPendingOp
    <3>1. PICK gone \in SUBSET (Struck \cap fleet.rows) :
            /\ asking.what = "sweep" => gone = {}
            /\ fleet' = [rows |-> fleet.rows \ gone, drifted |-> fleet.drifted \ gone]
      BY <2>2 DEF runPendingOp
    <3>2. fleet.rows \ fleet'.rows \subseteq asking.targets
      BY <3>1 DEF Struck
    <3>3. gone = {} => fleet' = fleet
      BY <1>0, <3>1
    <3>4. asking'.targets = asking.targets
      BY <1>0, <2>2 DEF runPendingOp, Asks
    <3> QED BY <2>1, <3>1, <3>2, <3>3, <3>4 DEF StrikesStep
  <2>3. CASE runOnConfirm
    <3>1. asking'.stage = "none" /\ fleet' = fleet
      BY <2>3 DEF runOnConfirm, NoAsk
    <3> QED BY <2>1, <3>1 DEF StrikesStep
  <2> QED BY <1>3, <2>2, <2>3 DEF runConfirmed
<1>4. CASE UNCHANGED asking /\ ~runConfirmed
  BY <1>0, <1>4 DEF StrikesStep
<1>5. CASE (askDelete \/ startRecreate) /\ ~runConfirmed
  <2>1. PICK what : Ask(what, targetsOn(here))
    BY <1>5 DEF askDelete, startRecreate
  <2>2. asking.stage = "none" /\ targetsOn(here) # {}
    BY <1>5 DEF askDelete, startRecreate, OnTab, NoAsk
  <2> QED BY <1>1, <1>5, <2>1, <2>2 DEF Ask, StrikesStep
<1>6. CASE (startSweep \/ askOther) /\ ~runConfirmed
  <2>1. asking.stage = "none" /\ asking'.what \notin {"each", "one"}
    BY <1>6 DEF startSweep, askOther, Ask, OnTab, NoAsk
  <2> QED BY <1>6, <2>1 DEF StrikesStep
<1>7. CASE (Cancel \/ dismissOp) /\ ~runConfirmed
  BY <1>0, <1>7 DEF Cancel, dismissOp, NoAsk, StrikesStep
<1>8. CASE Beside \/ Told \/ Ticked \/ CloseForm \/ Forms \/ Looking \/ Marking \/ SharedStep
  <2>1. UNCHANGED asking
    BY <1>8, BesideFrame, ToldFrame, FormsFrame, LookingFrame, MarkingFrame DEF SharedStep
  <2> QED BY <1>3, <1>4, <2>1
<1> QED BY <1>3, <1>5, <1>6, <1>7, <1>8 DEF LoopStep, Asking

-----------------------------------------------------------------------------
(* The panels: types and the subject of a log.                             *)

InfoPanels   == [kind : {"info"}, of : Subjects, state : {"", "looking", "none", "found", "error"},
                 job : Subjects \cup {"none"}]
LogPanels    == [kind : {"log"}, of : Subjects \cup {"captured"}, follow : BOOLEAN,
                 shows : Subjects \cup {"none", "captured"}, line : 0 .. MaxLines]
PickerPanels == [kind : {"picker"}, of : Groups, loading : BOOLEAN, sel : SUBSET Repos, out : SUBSET Repos]

WorldOK == /\ lines \in 0 .. MaxLines /\ bad \in 0 .. MaxBad
           /\ access \in [Groups -> SUBSET Repos] /\ calm \in BOOLEAN /\ missed \in BOOLEAN
PanelOK == panel \in {NoPanel} \cup InfoPanels \cup LogPanels \cup PickerPanels
CallsOK == IsABag(calls) /\ BagToSet(calls) \subseteq Calls

LEMMA PanelParts == PanelsTypeOK <=> WorldOK /\ PanelOK /\ CallsOK /\ logStatic \in BOOLEAN
BY DEF PanelsTypeOK, WorldOK, PanelOK, CallsOK, InfoPanels, LogPanels, PickerPanels

LEMMA PanelKinds ==
  ASSUME PanelOK
  PROVE  /\ Open("none") => panel = NoPanel
         /\ Open("info") => panel \in InfoPanels
         /\ Open("log") => panel \in LogPanels
         /\ Open("picker") => panel \in PickerPanels
<1>1. NoPanel.kind = "none"
  BY DEF NoPanel
<1>2. \A x \in InfoPanels : x.kind = "info"
  BY DEF InfoPanels
<1>3. \A x \in LogPanels : x.kind = "log"
  BY DEF LogPanels
<1>4. \A x \in PickerPanels : x.kind = "picker"
  BY DEF PickerPanels
<1> QED BY <1>1, <1>2, <1>3, <1>4 DEF PanelOK, Open

LEMMA CallKinds ==
  ASSUME CallsOK, NEW m \in DOMAIN calls
  PROVE  /\ m.t = "job" => m.of \in Subjects
         /\ m.t = "jobLookupMsg" => m.found \in Subjects \cup {"none", "error"}
         /\ m.t = "logs" => m.of \in Subjects
         /\ m.t = "logsMsg" => m.of \in Subjects /\ m.line \in 0 .. MaxLines
         /\ m.t = "repos" => m.of \in Groups
         /\ m.t = "reposLoadedMsg" => m.cur \in SUBSET Repos
         /\ m.t = "setRepos" => m.of \in Groups /\ m.ids \in SUBSET Repos /\ m.out \in SUBSET Repos
<1>1. m \in Calls
  BY DEF CallsOK, BagToSet
<1>2. \/ m \in [t : {"job"}, of : Subjects]
      \/ m \in [t : {"jobLookupMsg"}, found : Subjects \cup {"none", "error"}]
      \/ m \in [t : {"logs"}, of : Subjects]
      \/ m \in [t : {"logsMsg"}, of : Subjects, line : 0 .. MaxLines]
      \/ m \in [t : {"logTick"}]
      \/ m \in [t : {"repos"}, of : Groups]
      \/ m \in [t : {"reposLoadedMsg"}, cur : SUBSET Repos]
      \/ m \in [t : {"setRepos"}, of : Groups, ids : SUBSET Repos, out : SUBSET Repos]
  BY <1>1 DEF Calls
<1> QED BY <1>2

LEMMA CallsFit ==
  /\ \A s \in Subjects : [t |-> "job", of |-> s] \in Calls /\ [t |-> "logs", of |-> s] \in Calls
  /\ \A s \in Subjects \cup {"none", "error"} : [t |-> "jobLookupMsg", found |-> s] \in Calls
  /\ \A s \in Subjects, n \in 0 .. MaxLines : [t |-> "logsMsg", of |-> s, line |-> n] \in Calls
  /\ [t |-> "logTick"] \in Calls
  /\ \A g \in Groups : [t |-> "repos", of |-> g] \in Calls
  /\ \A R \in SUBSET Repos : [t |-> "reposLoadedMsg", cur |-> R] \in Calls
  /\ \A g \in Groups : \A R, O \in SUBSET Repos : [t |-> "setRepos", of |-> g, ids |-> R, out |-> O] \in Calls
BY DEF Calls

LEMMA CallKept ==
  ASSUME CallsOK, NEW m \in Calls, Call(m)
  PROVE  /\ CallsOK' /\ DOMAIN calls' = DOMAIN calls \cup {m}
         /\ \A x \in DOMAIN calls : x # m => calls'[x] = calls[x]
         /\ m \notin DOMAIN calls => calls'[m] = 1
<1>1. IsABag(calls) /\ DOMAIN calls \subseteq Calls
  BY DEF CallsOK, BagToSet
<1>2. calls' = Posted(calls, m)
  BY DEF Call, Posted
<1>3. /\ IsABag(calls') /\ DOMAIN (calls') = DOMAIN calls \cup {m}
      /\ \A x \in DOMAIN calls : x # m => calls'[x] = calls[x]
      /\ m \notin DOMAIN calls => calls'[m] = 1
  BY <1>1, <1>2, PostedBag
<1> QED BY <1>1, <1>3 DEF CallsOK, IsABag, BagToSet

LEMMA ReturnKept ==
  ASSUME CallsOK, NEW m \in DOMAIN calls, NEW R \in SUBSET Calls, Return(m, R)
  PROVE  /\ CallsOK' /\ DOMAIN calls' \subseteq DOMAIN calls \cup R
         /\ (DOMAIN calls \ {m}) \cup R \subseteq DOMAIN calls'
         /\ \A x \in DOMAIN calls' : calls'[x] <= Copies(x, calls) + (IF x \in R THEN 1 ELSE 0)
         /\ calls[m] = 1 /\ m \notin R => m \notin DOMAIN calls'
<1>1. IsABag(calls) /\ DOMAIN calls \subseteq Calls
  BY DEF CallsOK, BagToSet
<1>2. calls' = Answered(calls, m, R)
  BY DEF Return, Answered
<1>3. /\ IsABag(calls') /\ DOMAIN (calls') \subseteq DOMAIN calls \cup R
      /\ (DOMAIN calls \ {m}) \cup R \subseteq DOMAIN (calls')
      /\ \A x \in DOMAIN (calls') : calls'[x] <= Copies(x, calls) + (IF x \in R THEN 1 ELSE 0)
      /\ calls[m] = 1 /\ m \notin R => m \notin DOMAIN (calls')
  BY <1>1, <1>2, AnsweredBag
<1> QED BY <1>1, <1>3 DEF CallsOK, IsABag, BagToSet

SaveEnds == \E ok \in BOOLEAN : setGroupReposCmd(ok)

LEMMA PanelSteps ==
  PanelsNext =>
    \/ JobLookup \/ LogGrows \/ logsCmd \/ loadReposCmd
    \/ onJobLookupMsg \/ onLogsMsg \/ onLogTickMsg \/ onReposLoadedMsg \/ SwallowCall
    \/ openRunnerInfo \/ beginLogs \/ openCapturedLog \/ manageRepos
    \/ closeInfo \/ toggleFollow \/ closeLogs \/ toggleCursor \/ closePicker \/ SaveRepos \/ SaveEnds
BY DEF PanelsNext, PanelsBeside, PanelsTold, PanelsOpen, PanelsKeys, SaveEnds

LEMMA WorldKept ==
  ASSUME PanelsTypeOK, PanelsNext
  PROVE  WorldOK'
<1> USE PanelParts, PanelsAssumption DEF WorldOK
<1>1. CASE UNCHANGED World
  BY <1>1 DEF World
<1>2. CASE LogGrows
  BY <1>2 DEF LogGrows
<1>0. CASE Fail /\ UNCHANGED <<lines, access, missed>>
  <2>1. bad' \in 0 .. MaxBad
    BY <1>0 DEF Fail
  <2>2. calm' \in BOOLEAN
    BY <1>0, Zenon DEF Fail
  <2> QED BY <1>0, <2>1, <2>2
<1>3. CASE JobLookup \/ loadReposCmd
  BY <1>0, <1>1, <1>3 DEF JobLookup, loadReposCmd, World
<1>4. CASE manageRepos
  <2>1. calm' \in BOOLEAN
    BY <1>4, Zenon DEF manageRepos
  <2>2. UNCHANGED <<lines, access, bad, missed>>
    BY <1>4 DEF manageRepos
  <2> QED BY <2>1, <2>2
<1>5. CASE SaveEnds
  <2>1. PICK m \in DOMAIN calls : /\ m.t = "setRepos" /\ UNCHANGED <<lines, missed>>
                                  /\ \/ access' = [access EXCEPT ![m.of] = m.ids] /\ UNCHANGED <<bad, calm>>
                                     \/ Fail /\ UNCHANGED access
    BY <1>5 DEF SaveEnds, setGroupReposCmd
  <2>2. m.of \in Groups /\ m.ids \in SUBSET Repos
    BY <2>1, CallKinds
  <2>3. CASE access' = [access EXCEPT ![m.of] = m.ids] /\ UNCHANGED <<bad, calm>>
    BY <2>1, <2>2, <2>3
  <2>4. CASE Fail /\ UNCHANGED access
    BY <1>0, <2>1, <2>4
  <2> QED BY <2>1, <2>3, <2>4
<1>6. CASE \/ openRunnerInfo \/ onJobLookupMsg \/ closeInfo \/ beginLogs \/ openCapturedLog \/ logsCmd \/ onLogsMsg
           \/ onLogTickMsg \/ onReposLoadedMsg \/ toggleCursor \/ SaveRepos \/ closePicker
  BY <1>1, <1>6 DEF openRunnerInfo, onJobLookupMsg, closeInfo, beginLogs, openCapturedLog, logsCmd, onLogsMsg,
     onLogTickMsg, onReposLoadedMsg, toggleCursor, SaveRepos, closePicker
<1>7. CASE toggleFollow \/ closeLogs
  <2>1. missed' = missed \/ missed' = FALSE
    BY <1>7 DEF toggleFollow, closeLogs
  <2>2. UNCHANGED <<lines, access, bad, calm>>
    BY <1>7 DEF toggleFollow, closeLogs
  <2> QED BY <2>1, <2>2
<1>8. CASE SwallowCall
  <2>1. missed' \in BOOLEAN
    BY <1>8, Zenon DEF SwallowCall
  <2>2. UNCHANGED <<lines, access, bad, calm>>
    BY <1>8 DEF SwallowCall
  <2> QED BY <2>1, <2>2
<1> QED BY <1>2, <1>3, <1>4, <1>5, <1>6, <1>7, <1>8, PanelSteps

LEMMA CallsKept ==
  ASSUME PanelsTypeOK, LogIsOfSubject, PanelsNext
  PROVE  CallsOK'
<1> USE PanelParts
<1>1. CASE UNCHANGED calls
  BY <1>1 DEF CallsOK, IsABag, BagToSet
<1>2. ASSUME NEW m \in Calls, Call(m) PROVE CallsOK'
  BY <1>2, CallKept
<1>3. ASSUME NEW m \in DOMAIN calls, NEW R \in SUBSET Calls, Return(m, R) PROVE CallsOK'
  BY <1>3, ReturnKept
<1>4. CASE openRunnerInfo \/ beginLogs \/ manageRepos
  BY <1>1, <1>2, <1>4, CallsFit DEF openRunnerInfo, beginLogs, manageRepos
<1>5. CASE JobLookup
  BY <1>3, <1>5, CallsFit, CallKinds DEF JobLookup
<1>6. CASE onJobLookupMsg \/ onReposLoadedMsg \/ SaveEnds \/ SwallowCall
  BY <1>3, <1>6 DEF onJobLookupMsg, onReposLoadedMsg, SaveEnds, setGroupReposCmd, SwallowCall
<1>7. CASE logsCmd
  BY <1>3, <1>7, CallsFit, CallKinds DEF logsCmd, WorldOK
<1>8. CASE onLogsMsg
  BY <1>3, <1>8, CallsFit DEF onLogsMsg
<1>9. CASE onLogTickMsg
  <2>1. PICK m \in DOMAIN calls : Return(m, IF Polls THEN {[t |-> "logs", of |-> panel.of]} ELSE {})
    BY <1>9 DEF onLogTickMsg
  <2>2. Polls => panel.of \in Subjects
    BY PanelKinds DEF Polls, LogIsOfSubject, LogPanels
  <2>3. (IF Polls THEN {[t |-> "logs", of |-> panel.of]} ELSE {}) \in SUBSET Calls
    BY <2>2, CallsFit
  <2> QED BY <1>3, <2>1, <2>3
<1>10. CASE toggleFollow
  BY <1>1, <1>2, <1>10, CallsFit DEF toggleFollow
<1>11. CASE loadReposCmd
  <2>1. PICK m \in DOMAIN calls : m.t = "repos" /\ (\/ Return(m, {[t |-> "reposLoadedMsg", cur |-> access[m.of]]})
                                                    \/ Return(m, {[t |-> "reposLoadedMsg", cur |-> {}]}))
    BY <1>11 DEF loadReposCmd
  <2>2. access[m.of] \in SUBSET Repos
    BY <2>1, CallKinds DEF WorldOK
  <2> QED BY <1>3, <2>1, <2>2, CallsFit
<1>12. CASE SaveRepos
  <2>1. panel \in PickerPanels
    BY <1>12, PanelKinds DEF SaveRepos, MaySave
  <2> QED BY <1>2, <1>12, <2>1, CallsFit DEF SaveRepos, PickerPanels
<1>13. CASE closeInfo \/ LogGrows \/ openCapturedLog \/ closeLogs \/ toggleCursor \/ closePicker
  BY <1>1, <1>13 DEF closeInfo, LogGrows, openCapturedLog, closeLogs, toggleCursor, closePicker, World
<1> QED BY <1>4, <1>5, <1>6, <1>7, <1>8, <1>9, <1>10, <1>11, <1>12, <1>13, PanelSteps

\* A panel that follows keeps being polled: the handler of its tick asks for its log,
\* and that of its log for the next tick; answers of others are not Polling.
LEMMA PollsKept ==
  ASSUME PanelsTypeOK, LogIsOfSubject, FollowIsPolled, PanelsNext
  PROVE  FollowIsPolled'
<1> USE PanelParts
<1> DEFINE Due == Open("log") /\ panel.follow /\ ~missed
           Tick == [t |-> "logTick"]
<1>0. FollowIsPolled <=> (Due => \E m \in DOMAIN calls : Polling(m))
  BY DEF FollowIsPolled, BagToSet
<1>1. SUFFICES ASSUME Due' PROVE \E m \in DOMAIN (calls') : Polling(m)'
  BY DEF FollowIsPolled, BagToSet
<1>2. CASE UNCHANGED <<panel, calls, missed>>
  BY <1>0, <1>1, <1>2 DEF Polling, Open
<1>3. ASSUME NEW m \in DOMAIN calls, NEW R \in SUBSET Calls, Return(m, R), ~Polling(m), UNCHANGED <<panel, missed>>
      PROVE  \E x \in DOMAIN (calls') : Polling(x)'
  <2>1. DOMAIN calls \ {m} \subseteq DOMAIN (calls')
    BY <1>3, ReturnKept
  <2> QED BY <1>0, <1>1, <1>3, <2>1 DEF Polling, Open
<1>4. CASE openRunnerInfo \/ closeInfo \/ beginLogs \/ openCapturedLog \/ closeLogs \/ manageRepos \/ SaveRepos \/ closePicker
  <2>1. panel' = NoPanel \/ panel'.kind # "log" \/ panel'.follow = FALSE
    <3>1. CASE openRunnerInfo \/ manageRepos
      <4>1. PICK s, g, w : \/ panel' = [kind |-> "info", of |-> s, state |-> w, job |-> "none"]
                           \/ panel' = [kind |-> "picker", of |-> g, loading |-> TRUE, sel |-> {}, out |-> {}]
        BY <3>1 DEF openRunnerInfo, manageRepos
      <4> QED BY <4>1
    <3>2. CASE beginLogs \/ openCapturedLog
      <4>1. PICK s, w : panel' = LogPanel(s, w)
        BY <3>2 DEF beginLogs, openCapturedLog
      <4>2. LogPanel(s, w).follow = FALSE
        BY DEF LogPanel
      <4> QED BY <4>1, <4>2
    <3>3. CASE closeInfo \/ closeLogs \/ SaveRepos \/ closePicker
      BY <3>3 DEF closeInfo, closeLogs, SaveRepos, closePicker
    <3> QED BY <1>4, <3>1, <3>2, <3>3
  <2> QED BY <1>1, <2>1 DEF Open, NoPanel
<1>5. CASE LogGrows
  BY <1>2, <1>5 DEF LogGrows
<1>6. CASE toggleCursor
  <2>1. panel \in PickerPanels
    BY <1>6, PanelKinds DEF toggleCursor
  <2>2. panel'.kind = panel.kind
    BY <1>6, <2>1 DEF toggleCursor, PickerPanels
  <2> QED BY <1>1, <1>6, <2>2 DEF toggleCursor, Open
<1>7. CASE JobLookup \/ loadReposCmd \/ SaveEnds
  <2>1. PICK m \in DOMAIN calls, R \in SUBSET Calls :
          m.t \in {"job", "repos", "setRepos"} /\ Return(m, R) /\ UNCHANGED <<panel, missed>>
    <3>1. CASE JobLookup
      BY <3>1, CallsFit, CallKinds DEF JobLookup
    <3>2. CASE loadReposCmd
      <4>1. PICK m \in DOMAIN calls : m.t = "repos" /\ UNCHANGED <<panel, missed>>
                                     /\ (\/ Return(m, {[t |-> "reposLoadedMsg", cur |-> access[m.of]]})
                                         \/ Return(m, {[t |-> "reposLoadedMsg", cur |-> {}]}))
        BY <3>2 DEF loadReposCmd
      <4>2. access[m.of] \in SUBSET Repos
        BY <4>1, CallKinds DEF WorldOK
      <4> QED BY <4>1, <4>2, CallsFit
    <3>3. CASE SaveEnds
      <4>1. PICK m \in DOMAIN calls : m.t = "setRepos" /\ Return(m, {}) /\ UNCHANGED <<panel, missed>>
        BY <3>3 DEF SaveEnds, setGroupReposCmd
      <4>2. {} \in SUBSET Calls
        OBVIOUS
      <4> QED BY <4>1, <4>2
    <3> QED BY <1>7, <3>1, <3>2, <3>3
  <2>2. ~Polling(m)
    BY <2>1 DEF Polling
  <2> QED BY <1>3, <2>1, <2>2
<1>8. CASE onJobLookupMsg \/ onReposLoadedMsg
  <2>1. PICK m \in DOMAIN calls :
          /\ m.t \in {"jobLookupMsg", "reposLoadedMsg"} /\ Return(m, {})
          /\ UNCHANGED missed
          /\ panel' = panel \/ ((Open("info") \/ Open("picker")) /\ panel'.kind = panel.kind)
    <3>1. Open("info") => panel \in InfoPanels
      BY PanelKinds
    <3>2. Open("picker") => panel \in PickerPanels
      BY PanelKinds
    <3>3. CASE onJobLookupMsg
      BY <3>1, <3>3 DEF onJobLookupMsg, World, InfoPanels
    <3>4. CASE onReposLoadedMsg
      BY <3>2, <3>4 DEF onReposLoadedMsg, World, PickerPanels
    <3> QED BY <1>8, <3>3, <3>4
  <2>2. panel' = panel
    BY <1>1, <2>1 DEF Open
  <2>3. ~Polling(m) /\ {} \in SUBSET Calls
    BY <2>1 DEF Polling
  <2> QED BY <1>3, <2>1, <2>2, <2>3
<1>9. CASE logsCmd
  <2>1. PICK m \in DOMAIN calls : /\ m.t = "logs" /\ UNCHANGED <<panel, missed>>
                                 /\ Return(m, {[t |-> "logsMsg", of |-> m.of, line |-> lines]})
    BY <1>9 DEF logsCmd, World
  <2> DEFINE Log == [t |-> "logsMsg", of |-> m.of, line |-> lines]
  <2>2. Log \in Calls
    BY <2>1, CallsFit, CallKinds DEF WorldOK
  <2>3. CASE m.of = panel.of
    <3>1. Log \in DOMAIN (calls')
      BY <2>1, <2>2, ReturnKept
    <3> QED BY <2>1, <2>3, <3>1 DEF Polling
  <2>4. CASE m.of # panel.of
    <3>1. ~Polling(m)
      BY <2>1, <2>4 DEF Polling
    <3> QED BY <1>3, <2>1, <2>2, <3>1
  <2> QED BY <2>3, <2>4
<1>10. CASE onLogsMsg
  <2>1. PICK m \in DOMAIN calls :
          /\ m.t = "logsMsg"
          /\ IF ~Wanted(m) THEN Return(m, {}) /\ UNCHANGED panel
             ELSE /\ panel' = [panel EXCEPT !.shows = m.of, !.line = m.line]
                  /\ Return(m, IF panel.follow THEN {Tick} ELSE {})
    BY <1>10 DEF onLogsMsg
  <2>0. UNCHANGED missed
    BY <1>10 DEF onLogsMsg, World
  <2>2. CASE Wanted(m)
    <3>1. panel \in LogPanels
      BY <2>2, PanelKinds DEF Wanted
    <3>2. panel'.follow = panel.follow
      BY <2>1, <2>2, <3>1 DEF LogPanels
    <3>3. Return(m, {Tick})
      BY <1>1, <2>1, <2>2, <3>2
    <3>4. Tick \in DOMAIN (calls')
      BY <3>3, CallsFit, ReturnKept
    <3> QED BY <3>4 DEF Polling
  <2>3. CASE ~Wanted(m)
    <3>1. Open("log")
      BY <1>1, <2>1, <2>3 DEF Open
    <3>2. ~Polling(m) /\ {} \in SUBSET Calls
      BY <2>1, <2>3, <3>1 DEF Wanted, Polling
    <3> QED BY <1>3, <2>0, <2>1, <2>3, <3>2
  <2> QED BY <2>2, <2>3
<1>11. CASE onLogTickMsg
  <2>1. PICK m \in DOMAIN calls : /\ Return(m, IF Polls THEN {[t |-> "logs", of |-> panel.of]} ELSE {})
                                 /\ UNCHANGED panel
    BY <1>11 DEF onLogTickMsg
  <2>2. Polls
    BY <1>1, <2>1 DEF Polls, Open
  <2>3. [t |-> "logs", of |-> panel.of] \in Calls
    BY <2>2, PanelKinds, CallsFit DEF Polls, LogIsOfSubject, LogPanels
  <2>4. [t |-> "logs", of |-> panel.of] \in DOMAIN (calls')
    BY <2>1, <2>2, <2>3, ReturnKept
  <2> QED BY <2>1, <2>4 DEF Polling
<1>12. CASE toggleFollow
  <2>1. panel \in LogPanels
    BY <1>12, PanelKinds DEF toggleFollow
  <2>2. ~panel.follow
    BY <1>1, <1>12, <2>1 DEF toggleFollow, LogPanels
  <2>3. Tick \in DOMAIN (calls')
    BY <1>12, <2>2, CallsFit, CallKept DEF toggleFollow
  <2> QED BY <2>3 DEF Polling
<1>13. CASE SwallowCall
  <2>1. missed'
    BY <1>1, <1>13 DEF SwallowCall, Open
  <2> QED BY <1>1, <2>1
<1> QED
  BY <1>4, <1>5, <1>6, <1>7, <1>8, <1>9, <1>10, <1>11, <1>12, <1>13, PanelSteps

\* Panel and captured flag together: what a panel's title and text may be.
ShownOK == PanelOK /\ logStatic \in BOOLEAN /\ LogIsOfSubject

LEMMA NothingShown ==
  ASSUME panel' = NoPanel, logStatic' = FALSE
  PROVE  ShownOK'
BY DEF ShownOK, PanelOK, NoPanel, LogIsOfSubject, Open

\* A panel of another kind is none of a log's business.
LEMMA OtherShown ==
  ASSUME panel' \in {NoPanel} \cup InfoPanels \cup PickerPanels, logStatic' = FALSE
  PROVE  ShownOK'
<1>1. CASE panel' = NoPanel
  BY <1>1, NothingShown
<1>2. CASE panel' \in InfoPanels
  <2>1. panel'.kind = "info"
    BY <1>2 DEF InfoPanels
  <2> QED BY <1>2, <2>1 DEF ShownOK, PanelOK, LogIsOfSubject, Open
<1>3. CASE panel' \in PickerPanels
  <2>1. panel'.kind = "picker"
    BY <1>3 DEF PickerPanels
  <2> QED BY <1>3, <2>1 DEF ShownOK, PanelOK, LogIsOfSubject, Open
<1> QED BY <1>1, <1>2, <1>3

LEMMA LogShown ==
  ASSUME NEW s \in Subjects \cup {"captured"}, NEW f \in BOOLEAN, NEW n \in 0 .. MaxLines, NEW w \in {"none", s},
         panel' = [kind |-> "log", of |-> s, follow |-> f, shows |-> w, line |-> n],
         logStatic' \in BOOLEAN, logStatic' <=> s = "captured", f => s # "captured"
  PROVE  ShownOK'
<1>1. panel' \in LogPanels
  BY DEF LogPanels
<1>2. LogIsOfSubject'
  BY DEF LogIsOfSubject, Open
<1> QED BY <1>1, <1>2 DEF ShownOK, PanelOK

LEMMA NotStatic ==
  ASSUME ShownOK, ~Open("log")
  PROVE  logStatic = FALSE
BY DEF ShownOK, LogIsOfSubject

LEMMA ShownKept ==
  ASSUME PanelsTypeOK, LogIsOfSubject, PanelsNext
  PROVE  ShownOK'
<1> USE PanelParts, PanelsAssumption
<1>0. ShownOK
  BY DEF ShownOK
<1>1. CASE UNCHANGED <<panel, logStatic>>
  BY <1>0, <1>1 DEF ShownOK, PanelOK, LogIsOfSubject, Open
<1>2. CASE openRunnerInfo
  <2>1. PICK s \in Subjects : \/ panel' = [kind |-> "info", of |-> s, state |-> "looking", job |-> "none"]
                              \/ panel' = [kind |-> "info", of |-> s, state |-> "", job |-> "none"]
    BY <1>2 DEF openRunnerInfo
  <2>2. panel' \in InfoPanels
    <3>1. [kind |-> "info", of |-> s, state |-> "looking", job |-> "none"] \in InfoPanels
      BY DEF InfoPanels
    <3>2. [kind |-> "info", of |-> s, state |-> "", job |-> "none"] \in InfoPanels
      BY DEF InfoPanels
    <3> QED BY <2>1, <3>1, <3>2
  <2>3. ~Open("log") /\ UNCHANGED logStatic
    BY <1>2 DEF openRunnerInfo, Open
  <2> QED BY <1>0, <2>2, <2>3, NotStatic, OtherShown
<1>3. CASE onJobLookupMsg
  <2>1. PICK m \in DOMAIN calls :
          /\ m.t = "jobLookupMsg"
          /\ panel' = IF ~Open("info") THEN panel
                      ELSE IF m.found \in {"error", "none"} THEN [panel EXCEPT !.state = m.found]
                      ELSE [panel EXCEPT !.state = "found", !.job = m.found]
    BY <1>3 DEF onJobLookupMsg
  <2>2. UNCHANGED logStatic
    BY <1>3 DEF onJobLookupMsg
  <2>3. CASE ~Open("info")
    BY <1>1, <2>1, <2>2, <2>3
  <2>4. CASE Open("info")
    <3>1. panel \in InfoPanels /\ m.found \in Subjects \cup {"none", "error"}
      BY <2>1, <2>4, PanelKinds, CallKinds
    <3>2. panel' \in InfoPanels
      BY <2>1, <2>4, <3>1 DEF InfoPanels
    <3>3. ~Open("log")
      BY <2>4 DEF Open
    <3> QED BY <1>0, <2>2, <3>2, <3>3, NotStatic, OtherShown
  <2> QED BY <2>3, <2>4
<1>4. CASE closeInfo \/ SaveRepos \/ closePicker
  <2>1. ~Open("log") /\ panel' = NoPanel /\ UNCHANGED logStatic
    BY <1>4 DEF closeInfo, SaveRepos, MaySave, closePicker, Open
  <2> QED BY <1>0, <2>1, NotStatic, NothingShown
<1>5. CASE beginLogs
  <2>1. PICK s \in Subjects : panel' = LogPanel(s, "none") /\ UNCHANGED logStatic
    BY <1>5 DEF beginLogs, World
  <2>2. ~Open("log")
    BY <1>5 DEF beginLogs, Open
  <2>3. s # "captured"
    OBVIOUS
  <2>4. logStatic' = FALSE
    BY <1>0, <2>1, <2>2, NotStatic
  <2>5. 0 \in 0 .. MaxLines
    OBVIOUS
  <2> QED BY <2>1, <2>3, <2>4, <2>5, LogShown DEF LogPanel
<1>6. CASE openCapturedLog
  <2>1. panel' = [kind |-> "log", of |-> "captured", follow |-> FALSE, shows |-> "captured", line |-> 0]
        /\ logStatic' = TRUE
    BY <1>6 DEF openCapturedLog, LogPanel
  <2>2. 0 \in 0 .. MaxLines
    OBVIOUS
  <2> QED BY <2>1, <2>2, LogShown
<1>7. CASE onLogsMsg
  <2>1. PICK m \in DOMAIN calls :
          /\ m.t = "logsMsg"
          /\ IF ~Wanted(m) THEN UNCHANGED panel ELSE panel' = [panel EXCEPT !.shows = m.of, !.line = m.line]
          /\ UNCHANGED logStatic
    BY <1>7 DEF onLogsMsg
  <2>2. CASE ~Wanted(m)
    BY <1>1, <2>1, <2>2
  <2>3. CASE Wanted(m)
    <3>1. panel \in LogPanels /\ m.line \in 0 .. MaxLines /\ Open("log") /\ m.of = panel.of
      BY <2>1, <2>3, PanelKinds, CallKinds DEF Wanted
    <3>2. panel' = [kind |-> "log", of |-> panel.of, follow |-> panel.follow, shows |-> panel.of, line |-> m.line]
      BY <2>1, <2>3, <3>1 DEF LogPanels
    <3>3. panel.of \in Subjects \cup {"captured"} /\ panel.follow \in BOOLEAN
      BY <3>1 DEF LogPanels
    <3>4. logStatic' \in BOOLEAN /\ (logStatic' <=> panel.of = "captured") /\ (panel.follow => panel.of # "captured")
      BY <1>0, <2>1, <3>1 DEF LogIsOfSubject, ShownOK
    <3> QED BY <3>1, <3>2, <3>3, <3>4, LogShown
  <2> QED BY <2>2, <2>3
<1>8. CASE toggleFollow
  <2>1. Open("log") /\ ~logStatic /\ panel' = [panel EXCEPT !.follow = ~@] /\ UNCHANGED logStatic
    BY <1>8 DEF toggleFollow
  <2>2. panel \in LogPanels
    BY <2>1, PanelKinds
  <2>3. panel' = [kind |-> "log", of |-> panel.of, follow |-> ~panel.follow, shows |-> panel.shows, line |-> panel.line]
    BY <2>1, <2>2 DEF LogPanels
  <2>4. panel.of \in Subjects \cup {"captured"} /\ (~panel.follow) \in BOOLEAN /\ panel.line \in 0 .. MaxLines
    BY <2>2 DEF LogPanels
  <2>5. panel.shows \in {"none", panel.of} /\ panel.of # "captured" /\ logStatic' \in BOOLEAN /\ (logStatic' <=> panel.of = "captured")
    BY <1>0, <2>1 DEF LogIsOfSubject, ShownOK
  <2> QED BY <2>3, <2>4, <2>5, LogShown
<1>9. CASE closeLogs
  BY <1>9, NothingShown DEF closeLogs
<1>10. CASE manageRepos
  <2>1. PICK g \in Groups : panel' = [kind |-> "picker", of |-> g, loading |-> TRUE, sel |-> {}, out |-> {}]
    BY <1>10 DEF manageRepos
  <2>2. panel' \in PickerPanels
    BY <2>1 DEF PickerPanels
  <2>3. ~Open("log") /\ UNCHANGED logStatic
    BY <1>10 DEF manageRepos, Open
  <2> QED BY <1>0, <2>2, <2>3, NotStatic, OtherShown
<1>11. CASE onReposLoadedMsg
  <2>1. PICK m \in DOMAIN calls :
          /\ m.t = "reposLoadedMsg"
          /\ panel' = IF Open("picker") THEN [panel EXCEPT !.loading = FALSE, !.sel = @ \cup m.cur] ELSE panel
    BY <1>11 DEF onReposLoadedMsg
  <2>2. UNCHANGED logStatic
    BY <1>11 DEF onReposLoadedMsg
  <2>3. CASE Open("picker")
    <3>1. panel \in PickerPanels /\ m.cur \in SUBSET Repos
      BY <2>1, <2>3, PanelKinds, CallKinds
    <3>2. panel' \in PickerPanels
      BY <2>1, <2>3, <3>1 DEF PickerPanels
    <3>3. ~Open("log")
      BY <2>3 DEF Open
    <3> QED BY <1>0, <2>2, <3>2, <3>3, NotStatic, OtherShown
  <2> QED BY <1>1, <2>1, <2>2, <2>3
<1>12. CASE toggleCursor
  <2>1. PICK r \in Repos : panel' = IF r \in panel.sel
                                    THEN [panel EXCEPT !.sel = @ \ {r}, !.out = @ \cup {r}]
                                    ELSE [panel EXCEPT !.sel = @ \cup {r}, !.out = @ \ {r}]
    BY <1>12 DEF toggleCursor
  <2>2. Open("picker") /\ UNCHANGED logStatic
    BY <1>12 DEF toggleCursor
  <2>3. panel \in PickerPanels /\ ~Open("log")
    BY <2>2, PanelKinds DEF Open
  <2>4. panel' \in PickerPanels
    BY <2>1, <2>3 DEF PickerPanels
  <2> QED BY <1>0, <2>2, <2>3, <2>4, NotStatic, OtherShown
<1>13. CASE JobLookup \/ LogGrows \/ logsCmd \/ onLogTickMsg \/ loadReposCmd \/ SaveEnds \/ SwallowCall
  BY <1>1, <1>13 DEF JobLookup, LogGrows, logsCmd, onLogTickMsg, loadReposCmd, SaveEnds, setGroupReposCmd, SwallowCall
<1> QED BY <1>2, <1>3, <1>4, <1>5, <1>6, <1>7, <1>8, <1>9, <1>10, <1>11, <1>12, <1>13, PanelSteps

-----------------------------------------------------------------------------
(* The picker: what it waits for, and what it and a save may lack.         *)

PickerTruth == OneOutstanding /\ PickerWaits /\ PickerShows /\ SaveKeeps

LEMMA CalmStays == PanelsNext /\ calm' => calm
<1> QED BY PanelSteps
   DEF openRunnerInfo, JobLookup, onJobLookupMsg, closeInfo, LogGrows, beginLogs, openCapturedLog, logsCmd,
       onLogsMsg, onLogTickMsg, toggleFollow, closeLogs, manageRepos, loadReposCmd, onReposLoadedMsg, toggleCursor,
       SaveRepos, closePicker, SaveEnds, setGroupReposCmd, SwallowCall, World, Fail

\* No load and no save is outstanding that was not.
NoMore == CallsOK' /\ \A x \in DOMAIN calls' : OfPicker(x) => x \in DOMAIN calls /\ calls'[x] <= calls[x]

LEMMA CallNoMore ==
  ASSUME CallsOK, NEW m \in Calls, ~OfPicker(m), Call(m)
  PROVE  NoMore
<1>1. /\ CallsOK' /\ DOMAIN calls' = DOMAIN calls \cup {m}
      /\ \A x \in DOMAIN calls : x # m => calls'[x] = calls[x]
  BY CallKept
<1>2. ASSUME NEW x \in DOMAIN calls', OfPicker(x) PROVE x \in DOMAIN calls /\ calls'[x] <= calls[x]
  <2>1. x # m /\ x \in DOMAIN calls
    BY <1>1, <1>2
  <2>2. calls[x] \in Nat /\ calls'[x] = calls[x]
    BY <1>1, <2>1 DEF CallsOK, IsABag
  <2> QED BY <2>1, <2>2
<1> QED BY <1>1, <1>2 DEF NoMore

LEMMA NoneIsNoMore ==
  ASSUME CallsOK, UNCHANGED calls
  PROVE  NoMore
BY DEF NoMore, CallsOK, IsABag, BagToSet

LEMMA ReturnNoMore ==
  ASSUME CallsOK, NEW m \in DOMAIN calls, NEW R \in SUBSET Calls, \A x \in R : ~OfPicker(x), Return(m, R)
  PROVE  NoMore
<1>1. /\ CallsOK' /\ DOMAIN calls' \subseteq DOMAIN calls \cup R
      /\ \A x \in DOMAIN calls' : calls'[x] <= Copies(x, calls) + (IF x \in R THEN 1 ELSE 0)
  BY ReturnKept
<1>2. ASSUME NEW x \in DOMAIN calls', OfPicker(x) PROVE x \in DOMAIN calls /\ calls'[x] <= calls[x]
  <2>1. x \notin R /\ x \in DOMAIN calls
    BY <1>1, <1>2
  <2>2. Copies(x, calls) = calls[x] /\ calls[x] \in Nat
    BY <2>1 DEF Copies, CallsOK, IsABag
  <2> QED BY <1>1, <2>1, <2>2
<1> QED BY <1>1, <1>2 DEF NoMore

\* The only message of the picker that is outstanding is answered by those of R.
LEMMA Consumed ==
  ASSUME CallsOK, OneOutstanding, NEW m \in DOMAIN calls, OfPicker(m), NEW R \in SUBSET Calls, m \notin R,
         Return(m, R)
  PROVE  CallsOK' /\ \A x \in DOMAIN calls' : OfPicker(x) => x \in R /\ calls'[x] = 1
<1>0. \A x, y \in DOMAIN calls : OfPicker(x) /\ OfPicker(y) => x = y /\ calls[x] = 1
  BY DEF OneOutstanding, BagToSet
<1>1. /\ CallsOK' /\ DOMAIN calls' \subseteq DOMAIN calls \cup R /\ m \notin DOMAIN calls'
      /\ \A x \in DOMAIN calls' : calls'[x] <= Copies(x, calls) + (IF x \in R THEN 1 ELSE 0)
  BY <1>0, ReturnKept
<1>2. ASSUME NEW x \in DOMAIN calls', OfPicker(x) PROVE x \in R /\ calls'[x] = 1
  <2>1. x \notin DOMAIN calls /\ x \in R
    BY <1>0, <1>1, <1>2
  <2>2. Copies(x, calls) = 0
    BY <2>1 DEF Copies
  <2>3. calls'[x] \in Nat /\ calls'[x] > 0
    BY <1>1 DEF CallsOK, IsABag
  <2> QED BY <1>1, <2>1, <2>2, <2>3
<1> QED BY <1>1, <1>2

\* A step that adds no load and no save and leaves the picker as it is, or closes it.
LEMMA PickerQuiet ==
  ASSUME CallsOK, PickerTruth, NoMore, UNCHANGED access, panel' = panel \/ ~Open("picker")'
  PROVE  PickerTruth'
<1>1. ASSUME NEW x \in DOMAIN calls', OfPicker(x) PROVE x \in DOMAIN calls /\ calls'[x] = 1
  <2>1. x \in DOMAIN calls /\ calls'[x] <= calls[x]
    BY <1>1 DEF NoMore
  <2>2. calls[x] = 1
    BY <1>1, <2>1 DEF PickerTruth, OneOutstanding, BagToSet
  <2>3. calls'[x] \in Nat /\ calls'[x] > 0
    BY DEF NoMore, CallsOK, IsABag
  <2> QED BY <2>1, <2>2, <2>3
<1>2. OneOutstanding'
  BY <1>1 DEF PickerTruth, OneOutstanding, BagToSet
<1>3. SaveKeeps'
  BY <1>1 DEF PickerTruth, SaveKeeps, BagToSet, OfPicker
<1>4. PickerWaits' /\ PickerShows'
  BY <1>1 DEF PickerTruth, PickerWaits, PickerShows, Outstanding, OfPicker, LoadOfPicker, BagToSet, Open
<1> QED BY <1>2, <1>3, <1>4 DEF PickerTruth

\* Nothing outstanding, no picker waiting.
LEMMA NothingOutstanding ==
  ASSUME \A x \in DOMAIN calls' : ~OfPicker(x), PickerWaits', PickerShows'
  PROVE  PickerTruth'
BY DEF PickerTruth, OneOutstanding, SaveKeeps, OfPicker, BagToSet

LEMMA PickerStep ==
  ASSUME PanelsTypeOK, LogIsOfSubject, PickerTruth, PanelsNext, calm'
  PROVE  PickerTruth'
<1> USE PanelParts
<1>0. /\ \A x, y \in DOMAIN calls : OfPicker(x) /\ OfPicker(y) => x = y /\ calls[x] = 1
      /\ PickerWaits /\ PickerShows /\ SaveKeeps /\ OneOutstanding
  BY DEF PickerTruth, OneOutstanding, BagToSet
<1>1. CASE manageRepos
  <2>1. PICK g \in Groups : /\ panel' = [kind |-> "picker", of |-> g, loading |-> TRUE, sel |-> {}, out |-> {}]
                            /\ Call([t |-> "repos", of |-> g]) /\ ~Outstanding /\ UNCHANGED access
    BY <1>1 DEF manageRepos
  <2> DEFINE n == [t |-> "repos", of |-> g]
  <2>2. n \in Calls /\ \A x \in DOMAIN calls : ~OfPicker(x)
    BY <2>1, CallsFit DEF Outstanding, OfPicker
  <2>3. OfPicker(n) /\ n.t = "repos" /\ n.of = g
    BY DEF OfPicker
  <2>4. DOMAIN calls' = DOMAIN calls \cup {n} /\ calls'[n] = 1
    BY <2>1, <2>2, <2>3, CallKept
  <2> HIDE DEF n
  <2>5. OneOutstanding' /\ SaveKeeps'
    BY <2>2, <2>3, <2>4 DEF OneOutstanding, SaveKeeps, OfPicker, BagToSet
  <2>6. PickerWaits'
    BY <2>1, <2>2, <2>3, <2>4 DEF PickerWaits, LoadOfPicker, BagToSet
  <2>7. PickerShows'
    BY <2>1 DEF PickerShows
  <2> QED BY <2>5, <2>6, <2>7 DEF PickerTruth
<1>2. CASE loadReposCmd
  <2>1. PICK m \in DOMAIN calls : m.t = "repos" /\ Return(m, {[t |-> "reposLoadedMsg", cur |-> access[m.of]]})
    BY <1>2 DEF loadReposCmd, Fail
  <2> DEFINE n == [t |-> "reposLoadedMsg", cur |-> access[m.of]]
  <2>2. OfPicker(m) /\ OfPicker(n) /\ n.t = "reposLoadedMsg" /\ n.cur = access[m.of] /\ n # m
    BY <2>1 DEF OfPicker
  <2>3. n \in Calls
    BY <2>1, CallKinds, CallsFit DEF WorldOK
  <2>4. UNCHANGED <<panel, access>>
    BY <1>2 DEF loadReposCmd
  <2>5. Return(m, {n})
    BY <2>1
  <2> HIDE DEF n
  <2>6. \A x \in DOMAIN calls' : OfPicker(x) => x = n /\ calls'[x] = 1
    BY <1>0, <2>2, <2>3, <2>5, Consumed
  <2>7. OneOutstanding' /\ SaveKeeps'
    BY <2>2, <2>6 DEF OneOutstanding, SaveKeeps, OfPicker, BagToSet
  <2>8. Open("picker") => panel.loading /\ LoadOfPicker(m)
    BY <1>0, <2>2 DEF PickerWaits, PickerShows, Outstanding, OfPicker, BagToSet
  <2>9. PickerWaits' /\ PickerShows'
    BY <1>0, <2>1, <2>2, <2>4, <2>6, <2>8 DEF PickerWaits, PickerShows, LoadOfPicker, BagToSet, Open
  <2> QED BY <2>7, <2>9 DEF PickerTruth
<1>3. CASE onReposLoadedMsg
  <2>1. PICK m \in DOMAIN calls :
          /\ m.t = "reposLoadedMsg" /\ Return(m, {})
          /\ panel' = IF Open("picker") THEN [panel EXCEPT !.loading = FALSE, !.sel = @ \cup m.cur] ELSE panel
          /\ UNCHANGED access
    BY <1>3 DEF onReposLoadedMsg, World
  <2>2. OfPicker(m)
    BY <2>1 DEF OfPicker
  <2>3. \A x \in DOMAIN calls' : ~OfPicker(x)
    BY <1>0, <2>1, <2>2, Consumed
  <2>4. CASE ~Open("picker")
    BY <2>1, <2>3, <2>4, NothingOutstanding DEF PickerWaits, PickerShows, Open
  <2>5. CASE Open("picker")
    <3>1. panel \in PickerPanels
      BY <2>5, PanelKinds
    <3>2. panel.loading /\ m.cur = access[panel.of]
      BY <1>0, <2>1, <2>2, <2>5 DEF PickerWaits, PickerShows, Outstanding, OfPicker, LoadOfPicker, BagToSet
    <3>3. panel'.of = panel.of /\ panel'.loading = FALSE /\ panel'.sel = panel.sel \cup access[panel.of]
      BY <2>1, <2>5, <3>1, <3>2 DEF PickerPanels
    <3>4. PickerWaits' /\ PickerShows'
      BY <2>1, <2>3, <3>3 DEF PickerWaits, PickerShows, Outstanding, OfPicker
    <3> QED BY <2>3, <3>4, NothingOutstanding
  <2> QED BY <2>4, <2>5
<1>4. CASE toggleCursor
  <2>1. PICK r \in Repos : panel' = IF r \in panel.sel
                                    THEN [panel EXCEPT !.sel = @ \ {r}, !.out = @ \cup {r}]
                                    ELSE [panel EXCEPT !.sel = @ \cup {r}, !.out = @ \ {r}]
    BY <1>4 DEF toggleCursor
  <2>2. Open("picker") /\ ~panel.loading /\ UNCHANGED <<access, calls>>
    BY <1>4 DEF toggleCursor, World
  <2>3. panel \in PickerPanels
    BY <2>2, PanelKinds
  <2>4. panel'.of = panel.of /\ panel'.loading = panel.loading
        /\ \/ panel'.sel = panel.sel \ {r} /\ panel'.out = panel.out \cup {r}
           \/ panel'.sel = panel.sel \cup {r} /\ panel'.out = panel.out \ {r}
    BY <2>1, <2>3 DEF PickerPanels
  <2>5. ~Outstanding /\ access[panel.of] \ panel.sel \subseteq panel.out
    BY <1>0, <2>2 DEF PickerShows
  <2>6. PickerWaits' /\ PickerShows'
    BY <2>2, <2>4, <2>5 DEF PickerWaits, PickerShows, Outstanding
  <2>7. \A x \in DOMAIN calls' : ~OfPicker(x)
    BY <2>2, <2>5 DEF Outstanding, OfPicker
  <2> QED BY <2>6, <2>7, NothingOutstanding
<1>5. CASE SaveRepos
  <2> DEFINE n == [t |-> "setRepos", of |-> panel.of, ids |-> panel.sel, out |-> panel.out]
  <2>1. Open("picker") /\ ~panel.loading /\ panel' = NoPanel /\ Call(n) /\ UNCHANGED access
    BY <1>5 DEF SaveRepos, MaySave, World
  <2>2. panel \in PickerPanels
    BY <2>1, PanelKinds
  <2>3. n \in Calls
    BY <2>2, CallsFit DEF PickerPanels
  <2>4. ~Outstanding /\ access[panel.of] \ panel.sel \subseteq panel.out
    BY <1>0, <2>1 DEF PickerShows
  <2>5. OfPicker(n) /\ access[n.of] \ n.ids \subseteq n.out
    BY <2>4 DEF OfPicker
  <2> HIDE DEF n
  <2>6. \A x \in DOMAIN calls : ~OfPicker(x)
    BY <2>4 DEF Outstanding, OfPicker
  <2>7. DOMAIN calls' = DOMAIN calls \cup {n} /\ calls'[n] = 1
    BY <2>1, <2>3, <2>5, <2>6, CallKept
  <2>8. OneOutstanding' /\ SaveKeeps'
    BY <2>1, <2>5, <2>6, <2>7 DEF OneOutstanding, SaveKeeps, OfPicker, BagToSet
  <2>9. PickerWaits' /\ PickerShows'
    BY <2>1 DEF PickerWaits, PickerShows, Open, NoPanel
  <2> QED BY <2>8, <2>9 DEF PickerTruth
<1>6. CASE SaveEnds
  <2>1. PICK m \in DOMAIN calls : m.t = "setRepos" /\ Return(m, {})
    BY <1>6 DEF SaveEnds, setGroupReposCmd
  <2>2. OfPicker(m)
    BY <2>1 DEF OfPicker
  <2>3. \A x \in DOMAIN calls' : ~OfPicker(x)
    BY <1>0, <2>1, <2>2, Consumed
  <2>4. ~Open("picker")
    BY <1>0, <2>1, <2>2 DEF PickerWaits, PickerShows, Outstanding, LoadOfPicker, BagToSet
  <2>5. UNCHANGED panel
    BY <1>6 DEF SaveEnds, setGroupReposCmd
  <2> QED BY <2>3, <2>4, <2>5, NothingOutstanding DEF PickerWaits, PickerShows, Open
<1>7. CASE openRunnerInfo
  <2>1. PICK s \in Subjects : \/ Call([t |-> "job", of |-> s])
                              \/ UNCHANGED calls
    BY <1>7 DEF openRunnerInfo
  <2>2. [t |-> "job", of |-> s] \in Calls /\ ~OfPicker([t |-> "job", of |-> s])
    BY CallsFit DEF OfPicker
  <2>3. PICK x : \/ panel' = [kind |-> "info", of |-> x, state |-> "looking", job |-> "none"]
                 \/ panel' = [kind |-> "info", of |-> x, state |-> "", job |-> "none"]
    BY <1>7 DEF openRunnerInfo
  <2>4. panel'.kind = "info"
    <3>1. CASE panel' = [kind |-> "info", of |-> x, state |-> "looking", job |-> "none"]
      BY <3>1
    <3>2. CASE panel' = [kind |-> "info", of |-> x, state |-> "", job |-> "none"]
      BY <3>2
    <3> QED BY <2>3, <3>1, <3>2
  <2>5. UNCHANGED access
    BY <1>7 DEF openRunnerInfo, World
  <2> QED BY <2>1, <2>2, <2>4, <2>5, CallNoMore, NoneIsNoMore, PickerQuiet DEF Open
<1>8. CASE JobLookup
  <2>1. PICK m \in DOMAIN calls : /\ m.t = "job"
                                  /\ \E found \in {m.of, "none"} : Return(m, {[t |-> "jobLookupMsg", found |-> found]})
    BY <1>8 DEF JobLookup, Fail
  <2>2. PICK found \in {m.of, "none"} : Return(m, {[t |-> "jobLookupMsg", found |-> found]})
    BY <2>1
  <2>3. [t |-> "jobLookupMsg", found |-> found] \in Calls /\ ~OfPicker([t |-> "jobLookupMsg", found |-> found])
    BY <2>1, CallKinds, CallsFit DEF OfPicker
  <2>4. UNCHANGED <<access, panel>>
    BY <1>8 DEF JobLookup
  <2> QED BY <2>2, <2>3, <2>4, ReturnNoMore, PickerQuiet
<1>9. CASE onJobLookupMsg
  <2>1. PICK m \in DOMAIN calls :
          /\ m.t = "jobLookupMsg" /\ Return(m, {})
          /\ panel' = IF ~Open("info") THEN panel
                      ELSE IF m.found \in {"error", "none"} THEN [panel EXCEPT !.state = m.found]
                      ELSE [panel EXCEPT !.state = "found", !.job = m.found]
    BY <1>9 DEF onJobLookupMsg
  <2>2. Open("info") => panel \in InfoPanels
    BY PanelKinds
  <2>3. panel' = panel \/ ~Open("picker")'
    BY <2>1, <2>2 DEF InfoPanels, Open
  <2>4. UNCHANGED access
    BY <1>9 DEF onJobLookupMsg, World
  <2> QED BY <2>1, <2>3, <2>4, ReturnNoMore, PickerQuiet
<1>10. CASE beginLogs
  <2>1. PICK s \in Subjects : panel' = LogPanel(s, "none") /\ Call([t |-> "logs", of |-> s])
    BY <1>10 DEF beginLogs
  <2>2. [t |-> "logs", of |-> s] \in Calls /\ ~OfPicker([t |-> "logs", of |-> s])
    BY CallsFit DEF OfPicker
  <2>3. UNCHANGED access /\ panel'.kind = "log"
    BY <1>10, <2>1 DEF beginLogs, World, LogPanel
  <2> QED BY <2>1, <2>2, <2>3, CallNoMore, PickerQuiet DEF Open
<1>11. CASE logsCmd
  <2>1. PICK m \in DOMAIN calls : m.t = "logs" /\ Return(m, {[t |-> "logsMsg", of |-> m.of, line |-> lines]})
    BY <1>11 DEF logsCmd
  <2> DEFINE n == [t |-> "logsMsg", of |-> m.of, line |-> lines]
  <2>2. n \in Calls /\ ~OfPicker(n)
    BY <2>1, CallKinds, CallsFit DEF OfPicker, WorldOK
  <2>3. UNCHANGED <<access, panel>>
    BY <1>11 DEF logsCmd, World
  <2> QED BY <2>1, <2>2, <2>3, ReturnNoMore, PickerQuiet
<1>12. CASE onLogsMsg
  <2>1. PICK m \in DOMAIN calls :
          IF ~Wanted(m) THEN Return(m, {}) /\ UNCHANGED panel
          ELSE /\ panel' = [panel EXCEPT !.shows = m.of, !.line = m.line]
               /\ Return(m, IF panel.follow THEN {[t |-> "logTick"]} ELSE {})
    BY <1>12 DEF onLogsMsg
  <2>2. [t |-> "logTick"] \in Calls /\ ~OfPicker([t |-> "logTick"])
    BY CallsFit DEF OfPicker
  <2>3. NoMore
    <3>1. CASE ~Wanted(m)
      BY <2>1, <3>1, ReturnNoMore
    <3>2. CASE Wanted(m)
      BY <2>1, <2>2, <3>2, ReturnNoMore
    <3> QED BY <3>1, <3>2
  <2>4. Open("log") => panel \in LogPanels
    BY PanelKinds
  <2>5. panel' = panel \/ ~Open("picker")'
    BY <2>1, <2>4 DEF LogPanels, Open, Wanted
  <2>6. UNCHANGED access
    BY <1>12 DEF onLogsMsg, World
  <2> QED BY <2>3, <2>5, <2>6, PickerQuiet
<1>13. CASE onLogTickMsg
  <2>1. PICK m \in DOMAIN calls : Return(m, IF Polls THEN {[t |-> "logs", of |-> panel.of]} ELSE {})
    BY <1>13 DEF onLogTickMsg
  <2> DEFINE n == [t |-> "logs", of |-> panel.of]
  <2>2. Polls => n \in Calls
    BY PanelKinds, CallsFit DEF Polls, LogIsOfSubject, LogPanels
  <2>3. ~OfPicker(n)
    BY DEF OfPicker
  <2> DEFINE R == IF Polls THEN {n} ELSE {}
  <2>4. R \in SUBSET Calls /\ \A x \in R : ~OfPicker(x)
    BY <2>2, <2>3
  <2>5. UNCHANGED <<access, panel>>
    BY <1>13 DEF onLogTickMsg, World
  <2>6. Return(m, R)
    BY <2>1
  <2> HIDE DEF R
  <2> QED BY <2>4, <2>5, <2>6, ReturnNoMore, PickerQuiet
<1>14. CASE toggleFollow
  <2>1. panel \in LogPanels /\ panel' = [panel EXCEPT !.follow = ~@] /\ UNCHANGED access
    BY <1>14, PanelKinds DEF toggleFollow, World
  <2>2. ~Open("picker")'
    BY <2>1 DEF LogPanels, Open
  <2>3. [t |-> "logTick"] \in Calls /\ ~OfPicker([t |-> "logTick"])
    BY CallsFit DEF OfPicker
  <2>4. UNCHANGED calls \/ Call([t |-> "logTick"])
    BY <1>14 DEF toggleFollow
  <2> QED BY <2>1, <2>2, <2>3, <2>4, CallNoMore, NoneIsNoMore, PickerQuiet
<1>15. CASE closeInfo \/ LogGrows \/ openCapturedLog \/ closeLogs \/ closePicker
  <2>1. UNCHANGED <<calls, access>>
    BY <1>15 DEF closeInfo, LogGrows, openCapturedLog, closeLogs, closePicker, World
  <2>2. panel' = panel \/ panel' = NoPanel \/ panel' = LogPanel("captured", "captured")
    BY <1>15 DEF closeInfo, LogGrows, openCapturedLog, closeLogs, closePicker
  <2>3. NoPanel.kind = "none" /\ LogPanel("captured", "captured").kind = "log"
    BY DEF NoPanel, LogPanel
  <2>4. panel' = panel \/ ~Open("picker")'
    BY <2>2, <2>3 DEF Open
  <2> QED BY <2>1, <2>4, NoneIsNoMore, PickerQuiet
<1>16. CASE SwallowCall
  <2>1. PICK m \in DOMAIN calls : /\ m.t \in {"jobLookupMsg", "logsMsg", "logTick", "reposLoadedMsg"}
                                  /\ Return(m, {})
    BY <1>16 DEF SwallowCall
  <2>2. UNCHANGED <<access, panel>>
    BY <1>16 DEF SwallowCall
  <2>3. NoMore
    BY <2>1, ReturnNoMore
  <2> QED BY <2>2, <2>3, PickerQuiet
<1> QED BY <1>1, <1>2, <1>3, <1>4, <1>5, <1>6, <1>7, <1>8, <1>9, <1>10, <1>11, <1>12, <1>13, <1>14, <1>15, <1>16,
           PanelSteps

-----------------------------------------------------------------------------
(* The invariant of the session's views.                                   *)

PanelsInv == PanelsTypeOK /\ LogIsOfSubject /\ PickerIsTrue /\ FollowIsPolled
ViewsInv ==
  FleetTypeOK /\ AtRest /\ LoadIsUnderWay(SaveOutstanding) /\ TickIsUnderWay /\ PanelsInv

LEMMA PanelsStart == PanelsInit => PanelsInv
<1> SUFFICES ASSUME PanelsInit PROVE PanelsInv
  OBVIOUS
<1> USE PanelsAssumption DEF PanelsInit
<1>1. IsABag(calls) /\ DOMAIN calls = {}
  BY DEF EmptyBag, SetToBag, IsABag
<1>2. WorldOK /\ PanelOK /\ CallsOK /\ logStatic \in BOOLEAN
  <2>1. WorldOK
    <3>1. 0 \in 0 .. MaxLines /\ MaxBad \in 0 .. MaxBad
      OBVIOUS
    <3> QED BY <3>1 DEF WorldOK
  <2>2. PanelOK /\ logStatic \in BOOLEAN
    BY DEF PanelOK
  <2>3. CallsOK
    BY <1>1 DEF CallsOK, BagToSet
  <2> QED BY <2>1, <2>2, <2>3
<1>3. ~Open("log") /\ ~Open("picker")
  BY DEF Open, NoPanel
<1>4. LogIsOfSubject
  BY <1>3 DEF LogIsOfSubject
<1>5. PickerIsTrue
  BY <1>1, <1>3 DEF PickerIsTrue, OneOutstanding, PickerWaits, PickerShows, SaveKeeps, BagToSet
<1>6. FollowIsPolled
  BY <1>3 DEF FollowIsPolled
<1> QED BY <1>2, <1>4, <1>5, <1>6, PanelParts DEF PanelsInv

LEMMA PanelsKept ==
  ASSUME PanelsInv, PanelsNext
  PROVE  PanelsInv'
<1> USE DEF PanelsInv
<1>1. WorldOK' /\ CallsOK' /\ ShownOK'
  BY WorldKept, CallsKept, ShownKept
<1>2. PanelsTypeOK'
  BY <1>1 DEF ShownOK, PanelsTypeOK, WorldOK, PanelOK, CallsOK, InfoPanels, LogPanels, PickerPanels
<1>3. PickerIsTrue'
  BY CalmStays, PickerStep DEF PickerIsTrue, PickerTruth
<1>4. FollowIsPolled'
  BY PollsKept
<1> QED BY <1>1, <1>2, <1>3, <1>4 DEF ShownOK

-----------------------------------------------------------------------------
(* Steps of the session.                                                   *)

ViewsNext == ListsStep \/ PanelsStep \/ JointStep

LEMMA ViewsSteps ==
  ASSUME [ViewsNext]_viewVars
  PROVE  /\ LoopStep \/ SharedStep \/ UNCHANGED fleetVars
         /\ PanelsNext \/ UNCHANGED panelVars
<1>1. CASE ListsStep
  <2>1. NoPanelOpen \in BOOLEAN
    BY DEF NoPanelOpen, Open
  <2>2. FleetStep(NoPanelOpen) => FleetStep(TRUE) \/ FleetStep(FALSE)
    BY <2>1
  <2> QED BY <1>1, <2>2, LoopSteps DEF ListsStep
<1>2. CASE PanelsStep
  BY <1>2 DEF PanelsStep, PanelsNext
<1>3. CASE savePicker
  BY <1>3 DEF savePicker, SharedStep, PanelsNext
<1>4. CASE endSave
  <2>1. PICK ok \in BOOLEAN : setGroupReposCmd(ok) /\ Post(Cmd(IF ok THEN "acted" ELSE "actFailed"))
    BY <1>4 DEF endSave
  <2>2. SharedStep
    BY <1>4, <2>1 DEF endSave, SharedStep, loopVars
  <2> QED BY <2>1, <2>2 DEF PanelsNext
<1>5. CASE onGroupSavedMsgPicker
  BY <1>5 DEF onGroupSavedMsgPicker, SharedStep, PanelsNext, PanelsOpen
<1>6. CASE UNCHANGED viewVars
  BY <1>6 DEF viewVars
<1> QED BY <1>1, <1>2, <1>3, <1>4, <1>5, <1>6 DEF ViewsNext, JointStep

\* A save that is outstanding stays so until it ends, which only a joint step does.
LEMMA SavesStay ==
  ASSUME CallsOK, LogIsOfSubject, PanelsTypeOK, SaveOutstanding, PanelsStep \/ UNCHANGED calls
  PROVE  SaveOutstanding'
<1>0. PICK s \in DOMAIN calls : s.t = "setRepos"
  BY DEF SaveOutstanding, BagToSet
<1>1. SUFFICES s \in DOMAIN calls'
  BY <1>0 DEF SaveOutstanding, BagToSet
<1>2. CASE UNCHANGED calls
  BY <1>0, <1>2
<1>3. ASSUME NEW m \in Calls, Call(m) PROVE s \in DOMAIN calls'
  BY <1>0, <1>3, CallKept
<1>4. ASSUME NEW m \in DOMAIN calls, NEW R, m.t # "setRepos", Return(m, R) PROVE s \in DOMAIN calls'
  <2>1. calls' = Answered(calls, m, R) /\ IsABag(calls)
    BY <1>4 DEF Return, Answered, CallsOK
  <2> QED BY <1>0, <1>4, <2>1, AnsweredBag
<1>5. CASE PanelsBeside
  <2>1. CASE JobLookup
    BY <1>4, <2>1 DEF JobLookup
  <2>2. CASE LogGrows
    BY <1>2, <2>2 DEF LogGrows
  <2>3. CASE logsCmd \/ loadReposCmd
    BY <1>4, <2>3 DEF logsCmd, loadReposCmd
  <2> QED BY <1>5, <2>1, <2>2, <2>3 DEF PanelsBeside
<1>6. CASE PanelsTold
  <2>1. CASE onJobLookupMsg \/ onReposLoadedMsg
    BY <1>4, <2>1 DEF onJobLookupMsg, onReposLoadedMsg
  <2>2. CASE onLogsMsg
    BY <1>4, <2>2 DEF onLogsMsg
  <2>3. CASE onLogTickMsg
    BY <1>4, <2>3 DEF onLogTickMsg
  <2> QED BY <1>6, <2>1, <2>2, <2>3 DEF PanelsTold
<1>7. CASE PanelsOpen
  BY <1>2, <1>3, <1>7, CallsFit DEF PanelsOpen, openRunnerInfo, beginLogs, openCapturedLog, manageRepos
<1>8. CASE PanelsKeys
  BY <1>2, <1>3, <1>8, CallsFit DEF PanelsKeys, closeInfo, toggleFollow, closeLogs, toggleCursor, closePicker, World
<1>9. CASE SwallowCall
  BY <1>4, <1>9 DEF SwallowCall
<1> QED BY <1>2, <1>5, <1>6, <1>7, <1>8, <1>9 DEF PanelsStep

LEMMA LoadIsPending ==
  LoadIsUnderWay(SaveOutstanding) <=> (busyLoading /\ "load" \notin lost => SaveOutstanding \/ Pending)
BY DEF LoadIsUnderWay, Pending, Waited, BagToSet

LEMMA LoadingKept ==
  ASSUME ViewsInv, [ViewsNext]_viewVars
  PROVE  LoadIsUnderWay(SaveOutstanding)'
<1> USE DEF ViewsInv, PanelsInv
<1>0. SUFFICES ASSUME busyLoading', "load" \notin lost' PROVE SaveOutstanding' \/ Pending'
  BY DEF LoadIsUnderWay, Pending, Waited, BagToSet
<1>1. ReadsOK /\ CallsOK
  BY FleetParts, PanelParts
<1>2. CASE ListsStep
  <2>1. LoopStep /\ UNCHANGED calls
    <3>1. FleetStep(NoPanelOpen) => FleetStep(TRUE) \/ FleetStep(FALSE)
      BY DEF NoPanelOpen, Open
    <3> QED BY <1>2, <3>1, LoopSteps DEF ListsStep, panelVars
  <2> QED BY <1>0, <1>1, <2>1, LoadsKept, SavesStay, LoadIsPending
<1>3. CASE PanelsStep
  <2>1. UNCHANGED <<busyLoading, lost, reads>>
    BY <1>3 DEF PanelsStep, fleetVars
  <2>2. Pending => Pending'
    BY <2>1 DEF Pending
  <2> QED BY <1>0, <1>1, <1>3, <2>1, <2>2, SavesStay, LoadIsPending
<1>4. CASE savePicker
  <2> DEFINE n == [t |-> "setRepos", of |-> panel.of, ids |-> panel.sel, out |-> panel.out]
  <2>1. Open("picker") /\ Call(n)
    BY <1>4 DEF savePicker, SaveRepos, MaySave
  <2>2. panel \in PickerPanels
    BY <2>1, PanelParts, PanelKinds
  <2>3. n \in Calls
    BY <2>2, CallsFit DEF PickerPanels
  <2>4. n \in DOMAIN calls'
    BY <1>1, <2>1, <2>3, CallKept
  <2> QED BY <2>4 DEF SaveOutstanding, BagToSet
<1>5. CASE endSave
  <2>1. PICK t \in {"acted", "actFailed"} : Post(Cmd(t))
    BY <1>5 DEF endSave
  <2>2. Cmd(t) \in DOMAIN reads' /\ Waited(Cmd(t))
    BY <1>1, <2>1, CmdsAreReads, PostKept
  <2> QED BY <2>2 DEF Pending
<1>6. CASE onGroupSavedMsgPicker
  BY <1>0, <1>6 DEF onGroupSavedMsgPicker, LeftLoading
<1>7. CASE UNCHANGED viewVars
  <2>1. UNCHANGED <<busyLoading, lost, reads, calls>>
    BY <1>7 DEF viewVars, fleetVars, panelVars
  <2>2. Pending => Pending'
    BY <2>1 DEF Pending
  <2> QED BY <1>0, <1>1, <2>1, <2>2, SavesStay, LoadIsPending
<1> QED BY <1>2, <1>3, <1>4, <1>5, <1>6, <1>7 DEF ViewsNext, JointStep

LEMMA ViewsInvHolds == ViewsSpec => []ViewsInv
<1>1. ViewsInit => ViewsInv
  <2> SUFFICES ASSUME ViewsInit PROVE ViewsInv
    OBVIOUS
  <2>1. AtRest /\ TickIsUnderWay
    BY DEF ViewsInit, FleetInit, Blank, AtRest, TickIsUnderWay
  <2>2. Cmd("fleet") \in DOMAIN reads /\ Waited(Cmd("fleet"))
    BY CmdsAreReads DEF ViewsInit, FleetInit, SetToBag
  <2>3. Pending
    BY <2>2 DEF Pending
  <2> QED BY <2>1, <2>3, LoadIsPending, FleetStarts, PanelsStart DEF ViewsInit, ViewsInv
<1>2. ViewsInv /\ [ViewsNext]_viewVars => ViewsInv'
  <2> SUFFICES ASSUME ViewsInv, [ViewsNext]_viewVars PROVE ViewsInv'
    OBVIOUS
  <2>1. UNCHANGED panelVars => PanelsInv'
    <3> SUFFICES ASSUME UNCHANGED panelVars PROVE PanelsInv'
      OBVIOUS
    <3>1. UNCHANGED <<lines, access, bad, panel, logStatic, calls, calm, missed>>
      BY DEF panelVars
    <3>2. PanelsTypeOK'
      BY <3>1 DEF ViewsInv, PanelsInv, PanelsTypeOK, IsABag, BagToSet
    <3>3. LogIsOfSubject'
      BY <3>1 DEF ViewsInv, PanelsInv, LogIsOfSubject, Open
    <3>4. PickerIsTrue'
      BY <3>1 DEF ViewsInv, PanelsInv, PickerIsTrue, OneOutstanding, PickerWaits, PickerShows, SaveKeeps, Outstanding,
         LoadOfPicker, Open, BagToSet
    <3>5. FollowIsPolled'
      BY <3>1 DEF ViewsInv, PanelsInv, FollowIsPolled, Polling, Open, BagToSet
    <3> QED BY <3>2, <3>3, <3>4, <3>5 DEF PanelsInv
  <2>2. UNCHANGED fleetVars => (FleetTypeOK /\ AtRest /\ TickIsUnderWay)'
    BY DEF ViewsInv, fleetVars, FleetTypeOK, CursorFits, Shown, Listed, IsABag, BagToSet, AtRest, TickIsUnderWay
  <2>3. (FleetTypeOK /\ AtRest /\ TickIsUnderWay)'
    BY <2>2, ViewsSteps, FleetTyped, RestKept, TicksKept DEF ViewsInv
  <2>4. PanelsInv'
    BY <2>1, ViewsSteps, PanelsKept DEF ViewsInv
  <2> QED BY <2>3, <2>4, LoadingKept DEF ViewsInv
<1> QED BY <1>1, <1>2, PTL DEF ViewsSpec, ViewsNext

\* Whatever is answered late, twice over or to another panel: lists, marks and
\* cursors fit the rows, what shows itself loading has its command or answer under
\* way and an armed refresh its tick, but for the answers that leave m.loading set
\* and what an open form takes; a log panel shows its own subject's log, and a picker
\* of a calm session lacks only what was taken out of it (fleetMsg, actionMsg,
\* autoTickMsg, logsMsg and reposLoadedMsg in root.go).
THEOREM ViewsStaySound == ViewsSpec => []ViewsSound
<1>1. ViewsInv => ViewsSound
  BY DEF ViewsInv, PanelsInv, ViewsSound
<1> QED BY <1>1, ViewsInvHolds, PTL

\* While a list shows rows its cursor is on exactly one of them, unless the list
\* has been empty since it last moved: reloads, filters and jumps never leave it
\* between rows or past the last (applyFilter, selected, focusKey).
THEOREM CursorsPointAtOneRow ==
  ViewsSpec => [](\A k \in Kinds : Shown(k) # {} => cursor[k] = -1 \/ \E r \in Shown(k) : selected(k) = {r})
<1>1. ViewsInv => \A k \in Kinds : Shown(k) # {} => cursor[k] = -1 \/ \E r \in Shown(k) : selected(k) = {r}
  BY CursorIsOnARow DEF ViewsInv
<1> QED BY <1>1, ViewsInvHolds, PTL

-----------------------------------------------------------------------------
(* What is confirmed and what is saved.                                    *)

AccessStep == \A g \in Groups : calm /\ access'[g] # access[g] => \E m \in DOMAIN calls : SavedBy(m, g)

LEMMA SavesOnlyThat ==
  ASSUME PanelsTypeOK, PickerIsTrue, PanelsNext
  PROVE  AccessStep
<1>1. CASE UNCHANGED access
  BY <1>1 DEF AccessStep
<1>2. CASE SaveEnds
  <2>1. PICK m \in DOMAIN calls : m.t = "setRepos" /\ (access' = [access EXCEPT ![m.of] = m.ids] \/ UNCHANGED access)
    BY <1>2 DEF SaveEnds, setGroupReposCmd
  <2>2. ASSUME NEW g \in Groups, calm, access'[g] # access[g] PROVE SavedBy(m, g)
    <3>1. access \in [Groups -> SUBSET Repos]
      BY DEF PanelsTypeOK
    <3>2. m.of = g /\ access'[g] = m.ids
      BY <2>1, <2>2, <3>1
    <3>3. access[m.of] \ m.ids \subseteq m.out
      BY <2>1, <2>2 DEF PickerIsTrue, SaveKeeps, BagToSet
    <3> QED BY <2>1, <3>2, <3>3 DEF SavedBy
  <2> QED BY <2>2 DEF AccessStep
<1>3. ~SaveEnds => UNCHANGED access
  BY PanelSteps
     DEF openRunnerInfo, JobLookup, onJobLookupMsg, closeInfo, LogGrows, beginLogs, openCapturedLog,
         logsCmd, onLogsMsg, onLogTickMsg, toggleFollow, closeLogs, manageRepos, loadReposCmd, onReposLoadedMsg,
         toggleCursor, SaveRepos, closePicker, SwallowCall, World
<1> QED BY <1>1, <1>2, <1>3

\* A confirmed operation ends only the rows it was asked about, which were listed
\* then, at once or by the command it sends off, and a save of repository access
\* takes away only what was taken out of a picker that showed it (runConfirmed, the
\* targets of control_ops.go, and enter on the picker in root.go).
THEOREM ViewsActOnWhatWasSeen == ViewsSpec => ActsOnWhatWasSeen
<1>1. ViewsInv /\ [ViewsNext]_viewVars => [StrikesStep]_fleetVars
  BY ViewsSteps, StrikesOnlyThat DEF ViewsInv
<1>2. ViewsInv /\ [ViewsNext]_viewVars => [AccessStep]_panelVars
  BY ViewsSteps, SavesOnlyThat DEF ViewsInv, PanelsInv
<1>3. ViewsSpec => [][StrikesStep]_fleetVars /\ [][AccessStep]_panelVars
  BY <1>1, <1>2, ViewsInvHolds, PTL DEF ViewsSpec, ViewsNext
<1> QED BY <1>3 DEF ActsOnWhatWasSeen, StrikesWhatWasSeen, CleanSaveKeepsAccess, StrikesStep, AccessStep
=============================================================================
