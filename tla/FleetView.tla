----------------------------- MODULE FleetView -----------------------------
(***************************************************************************)
(* What the operator sees of the fleet and what an operation started from  *)
(* it acts on: the two-tier snapshot (GitHub's listing, then the host's    *)
(* audit), read beside the event loop and delivered late; the org filter,  *)
(* the text filter, the cursor and the marks of each list; the targets an  *)
(* operation takes from them; the auto-refresh that keeps it current; and  *)
(* m.loading, which every command sets and not every answer resets.        *)
(***************************************************************************)
EXTENDS Integers, Sequences, FiniteSets, Bags

CONSTANTS
  Order,        \* every row there may be, in the order the snapshot sorts them
  SlotRows,     \* the rows among them that are ephemeral slots
  OrgOf,        \* row -> org
  Queries,      \* a text filter is the set of rows it matches
  ViewTabs,     \* the tabs the operator visits
  HostCapable,  \* the session is elevated and on a runner host
  MaxEvents,    \* bound: changes of the fleet by others, and audits that fail
  MaxReads,     \* bound: commands outstanding beside the event loop
  MaxTicks      \* bound: refresh ticks outstanding

AllRows  == {Order[i] : i \in DOMAIN Order}
RowsOf(k) == IF k = "slot" THEN SlotRows ELSE AllRows \ SlotRows
Kinds    == {"runner", "slot"}
Orgs     == {OrgOf[r] : r \in AllRows}
KindOfTab(t) == IF t = "ephemeral" THEN "slot" ELSE "runner"
ListTab(t)   == t \in {"persistent", "ephemeral"}
fleetTab(t)  == t \in {"persistent", "ephemeral", "drift"}
Classes  == {"unaudited", "healthy", "drifted"}

ASSUME FleetAssumption ==
  /\ Order \in Seq(AllRows) /\ \A i, j \in DOMAIN Order : Order[i] = Order[j] => i = j
  /\ SlotRows \subseteq AllRows /\ OrgOf \in [AllRows -> Orgs]
  /\ ViewTabs \subseteq {"persistent", "ephemeral", "drift", "groups", "settings"}
  /\ "persistent" \in ViewTabs /\ (SlotRows # {} => "ephemeral" \in ViewTabs)
  /\ Queries \subseteq SUBSET AllRows /\ HostCapable \in BOOLEAN
  /\ MaxEvents \in Nat /\ MaxReads \in Nat /\ MaxTicks \in Nat

VARIABLES
  fleet,        \* the fleet itself: its rows, and those that have drifted
  budget,       \* events left
  snap,         \* m.snap: the rows, and the class the audit gave each
  fed,          \* the org filter the lists were last fed under
  fleetLoaded,  \* the snapshot is of the configuration in use
  orgVisible,   \* the org filter; the empty set shows every org
  query,        \* the text filter of each list
  cursor,       \* the cursor of each list, -1 after the list has been empty
  marks,        \* the marked rows of each list
  vtab,         \* the tab
  busyLoading,  \* m.loading
  autoOn,
  reads,        \* the bag of commands and answers beside the event loop
  ticks,        \* refresh ticks outstanding
  form,         \* a form is open, and takes every message
  asking,       \* the operation behind the confirm modal, or running
  lost          \* history: what the loop shows as pending and will not hear of:
                \* "load" while m.loading stays set, "tick" while autoOn does

fleetVars == <<fleet, budget, snap, fed, fleetLoaded, orgVisible, query, cursor, marks,
               vtab, busyLoading, autoOn, reads, ticks, form, asking, lost>>
listVars  == <<query, cursor, marks>>
loopVars  == <<ticks, form, lost>>

NoAsk     == [what |-> "none", targets |-> {}, stage |-> "none"]
Post(m)   == reads' = reads (+) SetToBag({m})
Answer(m, R) == reads' = (reads (-) SetToBag({m})) (+) SetToBag(R)
ReadRoom  == BagCardinality(reads) < MaxReads
Cmd(t)    == [t |-> t]
Act(R)    == [t |-> "act", rows |-> R]

\* m.loading is set where a command begins, and reset where its answer ends it.
Loads  == busyLoading' = TRUE /\ lost' = lost \ {"load"}
Loaded == busyLoading' = FALSE /\ lost' = lost \ {"load"}
\* An answer is taken, or swallowed, that leaves m.loading as it was.
LeftLoading == UNCHANGED busyLoading /\ lost' = lost \cup (IF busyLoading THEN {"load"} ELSE {})
Begin(m) == ReadRoom /\ Loads /\ Post(m)

---------------------------------------------------------------------------
(* The lists                                                               *)

\* visibleRunners, visibleSlots: the rows of a list, before its text filter.
ListedUnder(s, orgs, k) == {r \in s.rows \cap RowsOf(k) : orgs = {} \/ OrgOf[r] \in orgs}
Listed(k) == ListedUnder(snap, fed, k)

\* applyFilter: the rows shown, each at its place in the order of the snapshot.
ShownOf(R, q) == R \cap q
Shown(k) == ShownOf(Listed(k), query[k])
Before(x, r) == \E i, j \in DOMAIN Order : i < j /\ Order[i] = x /\ Order[j] = r
Place(r, R)  == Cardinality({x \in R : Before(x, r)})
\* applyFilter keeps the cursor by its index. The table clamps it when the rows
\* shrink, to -1 when there are none, and nothing raises it but a movement.
KeepCursor(c, n) == IF c >= n THEN n - 1 ELSE c
KeepCursors(s, orgs, q) ==
  [k \in Kinds |-> KeepCursor(cursor[k], Cardinality(ShownOf(ListedUnder(s, orgs, k), q[k])))]

\* The drift list: rows the audit found other than healthy.
DriftRows(s, orgs) ==
  {r \in UNION {ListedUnder(s, orgs, k) : k \in Kinds} : s.class[r] = "drifted"}

selected(k) == {r \in Shown(k) : Place(r, Shown(k)) = cursor[k]}

\* selectedRunners, selectedSlots: the marked rows that are listed, shown or not.
selectedRows(k) == marks[k] \cap Listed(k)

allVisibleSelected(k) == Shown(k) # {} /\ Shown(k) \subseteq marks[k]

feedFleetViews(s) ==
  /\ snap' = s /\ fed' = orgVisible
  /\ cursor' = KeepCursors(s, orgVisible, query)

\* The session before its first load.
Blank ==
  /\ fleet = [rows |-> AllRows, drifted |-> {}]
  /\ budget = MaxEvents
  /\ snap = [rows |-> {}, class |-> [r \in AllRows |-> "unaudited"]]
  /\ fed = {} /\ fleetLoaded = FALSE /\ orgVisible = {}
  /\ query = [k \in Kinds |-> AllRows] /\ cursor = [k \in Kinds |-> 0]
  /\ marks = [k \in Kinds |-> {}]
  /\ vtab = "persistent" /\ autoOn = FALSE
  /\ ticks = 0 /\ form = FALSE /\ asking = NoAsk /\ lost = {}

FleetInit == Blank /\ busyLoading = TRUE /\ reads = SetToBag({Cmd("fleet")})

---------------------------------------------------------------------------
(* The fleet, and the commands beside the event loop                       *)

FleetChanges ==
  /\ budget > 0 /\ budget' = budget - 1
  /\ \E r \in AllRows :
       fleet' = IF r \notin fleet.rows THEN [fleet EXCEPT !.rows = @ \cup {r}]
                ELSE IF r \in fleet.drifted
                     THEN [rows |-> fleet.rows \ {r}, drifted |-> fleet.drifted \ {r}]
                     ELSE [fleet EXCEPT !.drifted = @ \cup {r}]
  /\ UNCHANGED <<snap, fed, fleetLoaded, orgVisible, listVars, vtab, busyLoading, autoOn, reads, asking, loopVars>>

\* FleetFast: GitHub's listing and the slots of this host, nothing audited yet.
FleetFast ==
  /\ Cmd("fleet") \in DOMAIN reads
  /\ Answer(Cmd("fleet"), {[t |-> "fleetMsg", rows |-> fleet.rows]})
  /\ UNCHANGED <<fleet, budget, snap, fed, fleetLoaded, orgVisible, listVars, vtab, busyLoading, autoOn, asking, loopVars>>

\* The audit of the host tier, which fails as a whole or not at all.
AuditHost ==
  /\ Cmd("tier") \in DOMAIN reads
  /\ \/ /\ Answer(Cmd("tier"), {[t |-> "hostTierMsg", rows |-> fleet.rows, bad |-> fleet.drifted]})
        /\ UNCHANGED budget
     \/ /\ budget > 0 /\ budget' = budget - 1
        /\ Answer(Cmd("tier"), {Cmd("tierFailed")})
  /\ UNCHANGED <<fleet, snap, fed, fleetLoaded, orgVisible, listVars, vtab, busyLoading, autoOn, asking, loopVars>>

\* A command behind the confirm modal or a form: what it was to end has gone when
\* it succeeds; when it fails, any part of it may have.
RunAct == \E m \in DOMAIN reads : \E gone \in SUBSET fleet.rows :
  /\ m.t = "act" /\ gone \subseteq m.rows
  /\ \/ m.rows \cap fleet.rows \subseteq gone /\ Answer(m, {Cmd("acted")})
     \/ Answer(m, {Cmd("actFailed")})
  /\ fleet' = [rows |-> fleet.rows \ gone, drifted |-> fleet.drifted \ gone]
  /\ UNCHANGED <<budget, snap, fed, fleetLoaded, orgVisible, listVars, vtab, busyLoading, autoOn, asking, loopVars>>

---------------------------------------------------------------------------
(* Messages. The commands of the other tabs, of saves and of scans change  *)
(* nothing here until their answer comes, and are one step with it.        *)

\* onFleetMsg without the chained audit, as a mutant would.
onFleetMsgAlone == \E m \in DOMAIN reads :
  /\ ~form /\ m.t = "fleetMsg" /\ Loaded /\ fleetLoaded' = TRUE
  /\ feedFleetViews([rows |-> m.rows, class |-> [r \in AllRows |-> "unaudited"]])
  /\ Answer(m, {})
  /\ UNCHANGED <<fleet, budget, orgVisible, query, marks, vtab, autoOn, asking, ticks, form>>

onFleetMsg == \E m \in DOMAIN reads :
  /\ ~form /\ m.t = "fleetMsg" /\ Loaded /\ fleetLoaded' = TRUE
  /\ feedFleetViews([rows |-> m.rows, class |-> [r \in AllRows |-> "unaudited"]])
  /\ Answer(m, IF HostCapable THEN {Cmd("tier")} ELSE {})
  /\ UNCHANGED <<fleet, budget, orgVisible, query, marks, vtab, autoOn, asking, ticks, form>>

\* MergeHostTier: rows the audit does not know keep what they had.
MergeHostTier(m) ==
  [snap EXCEPT !.class = [r \in AllRows |->
     IF r \notin snap.rows \cap m.rows THEN snap.class[r]
     ELSE IF r \in m.bad THEN "drifted" ELSE "healthy"]]

onHostTierMsg == \E m \in DOMAIN reads :
  /\ ~form
  /\ \/ m.t = "hostTierMsg" /\ feedFleetViews(MergeHostTier(m))
     \/ m.t = "tierFailed" /\ UNCHANGED <<snap, fed, cursor>>
  /\ Answer(m, {})
  /\ UNCHANGED <<fleet, budget, fleetLoaded, orgVisible, query, marks, vtab, busyLoading, autoOn, asking, loopVars>>

\* The other tabs' answers, as far as the fleet lists notice them.
onTabMsg ==
  /\ ~form /\ Cmd("load") \in DOMAIN reads
  /\ Answer(Cmd("load"), {}) /\ Loaded
  /\ UNCHANGED <<fleet, budget, snap, fed, fleetLoaded, orgVisible, listVars, vtab, autoOn, asking, ticks, form>>

loadOf(t) == Cmd(IF fleetTab(t) THEN "fleet" ELSE "load")
reloadCurrent == Begin(loadOf(vtab))

\* actionMsg: an error shows, and that is all it does.
onActionMsg ==
  /\ ~form
  /\ \/ Cmd("acted") \in DOMAIN reads /\ Answer(Cmd("acted"), {loadOf(vtab)}) /\ Loads
     \/ Cmd("actFailed") \in DOMAIN reads /\ Answer(Cmd("actFailed"), {}) /\ LeftLoading
  /\ UNCHANGED <<fleet, budget, snap, fed, fleetLoaded, orgVisible, listVars, vtab, autoOn, asking, ticks, form>>

\* groupSavedMsg: the groups are loaded, unless the save failed.
onGroupSavedMsg ==
  /\ ~form /\ Cmd("save") \in DOMAIN reads
  /\ \/ Answer(Cmd("save"), {Cmd("load")}) /\ Loads
     \/ Answer(Cmd("save"), {}) /\ LeftLoading
  /\ UNCHANGED <<fleet, budget, snap, fed, fleetLoaded, orgVisible, listVars, vtab, autoOn, asking, ticks, form>>

\* runnerGroupsMsg: the form that edits a runner opens on the groups there are.
onRunnerGroupsMsg ==
  /\ ~form /\ Cmd("scan") \in DOMAIN reads
  /\ Answer(Cmd("scan"), {}) /\ Loaded /\ form' \in BOOLEAN
  /\ UNCHANGED <<fleet, budget, snap, fed, fleetLoaded, orgVisible, listVars, vtab, autoOn, asking, ticks>>

\* reloadMsg: another configuration is in use, and the snapshot is not of it.
onReloadMsg ==
  /\ ~form /\ Cmd("reload") \in DOMAIN reads
  /\ \/ Answer(Cmd("reload"), {loadOf(vtab)}) /\ Loads /\ fleetLoaded' = FALSE
     \/ Answer(Cmd("reload"), {}) /\ Loaded /\ UNCHANGED fleetLoaded
  /\ UNCHANGED <<fleet, budget, snap, fed, orgVisible, listVars, vtab, autoOn, asking, ticks, form>>

\* The handlers that end a command of the operator's.
onDoneMsg == onActionMsg \/ onGroupSavedMsg \/ onRunnerGroupsMsg \/ onReloadMsg

\* updateForm and its kind: an open form takes whatever comes, and does nothing
\* with it. An audit's answer is no loss: m.loading does not wait for it.
Audits   == {"hostTierMsg", "tierFailed"}
Commands == {"fleet", "tier", "act"}
Swallow == \E m \in DOMAIN reads :
  /\ form /\ m.t \notin Commands
  /\ Answer(m, {})
  /\ IF m.t \in Audits THEN UNCHANGED <<busyLoading, lost>> ELSE LeftLoading
  /\ UNCHANGED <<fleet, budget, snap, fed, fleetLoaded, orgVisible, listVars, vtab, autoOn, asking, ticks, form>>

SwallowTick ==
  /\ form /\ ticks > 0 /\ ticks' = ticks - 1
  /\ lost' = lost \cup (IF autoOn THEN {"tick"} ELSE {})
  /\ UNCHANGED <<fleet, budget, snap, fed, fleetLoaded, orgVisible, listVars, vtab, busyLoading, autoOn, reads, asking, form>>

\* idleForAuto; free: no panel is open.
idle(free) == ~busyLoading /\ asking = NoAsk /\ ~form /\ free

\* autoTickMsg: disarmed it is the last; else there is a next, and a load if idle.
onAutoTickMsg(free) ==
  /\ ~form /\ ticks > 0
  /\ \/ ~autoOn /\ ticks' = ticks - 1 /\ UNCHANGED <<busyLoading, reads, lost>>
     \/ autoOn /\ idle(free) /\ reloadCurrent /\ UNCHANGED ticks
  /\ UNCHANGED <<fleet, budget, snap, fed, fleetLoaded, orgVisible, listVars, vtab, autoOn, asking, form>>

---------------------------------------------------------------------------
(* Keys                                                                    *)

OnTab == asking = NoAsk /\ ~form

Refresh ==
  /\ OnTab /\ reloadCurrent
  /\ UNCHANGED <<fleet, budget, snap, fed, fleetLoaded, orgVisible, listVars, vtab, autoOn, asking, ticks, form>>

toggleAuto ==
  /\ OnTab /\ autoOn' = ~autoOn
  /\ IF autoOn THEN UNCHANGED <<ticks, lost>>
     ELSE ticks < MaxTicks /\ ticks' = ticks + 1 /\ lost' = lost \ {"tick"}
  /\ UNCHANGED <<fleet, budget, snap, fed, fleetLoaded, orgVisible, listVars, vtab, busyLoading, reads, asking, form>>

\* The fleet tabs reuse the snapshot once it has been loaded.
enterTab == \E t \in ViewTabs \ {vtab} :
  /\ OnTab /\ vtab' = t
  /\ IF fleetTab(t) /\ fleetLoaded THEN UNCHANGED <<busyLoading, reads, lost>> ELSE Begin(loadOf(t))
  /\ UNCHANGED <<fleet, budget, snap, fed, fleetLoaded, orgVisible, listVars, autoOn, asking, ticks, form>>

\* result: all orgs, or none, is the empty filter. The lists are fed when the
\* reload of this tab answers.
orgFilterResult(S) == IF S = Orgs THEN {} ELSE S
orgFilterKey == \E S \in SUBSET Orgs :
  /\ OnTab /\ orgVisible' = orgFilterResult(S) /\ orgVisible' # orgVisible
  /\ reloadCurrent
  /\ UNCHANGED <<fleet, budget, snap, fed, fleetLoaded, listVars, vtab, autoOn, asking, ticks, form>>

updateFilter == \E q \in Queries \cup {AllRows} :
  LET k == KindOfTab(vtab) IN
  /\ OnTab /\ ListTab(vtab) /\ q # query[k]
  /\ query' = [query EXCEPT ![k] = q]
  /\ cursor' = KeepCursors(snap, fed, query')
  /\ UNCHANGED <<fleet, budget, snap, fed, fleetLoaded, orgVisible, marks, vtab, busyLoading, autoOn, reads, asking, loopVars>>

\* An arrow, the wheel or a click on a row.
moveCursor == \E i \in 0 .. Cardinality(AllRows) - 1 :
  LET k == KindOfTab(vtab) IN
  /\ OnTab /\ ListTab(vtab) /\ i < Cardinality(Shown(k)) /\ i # cursor[k]
  /\ cursor' = [cursor EXCEPT ![k] = i]
  /\ UNCHANGED <<fleet, budget, snap, fed, fleetLoaded, orgVisible, query, marks, vtab, busyLoading, autoOn, reads, asking, loopVars>>

SetMarks(k, M) ==
  /\ marks' = [marks EXCEPT ![k] = M]
  /\ UNCHANGED <<fleet, budget, snap, fed, fleetLoaded, orgVisible, query, cursor, vtab, busyLoading, autoOn, reads, asking, loopVars>>

toggleSelect == LET k == KindOfTab(vtab) IN
  /\ OnTab /\ ListTab(vtab)
  /\ \E r \in selected(k) : SetMarks(k, IF r \in marks[k] THEN marks[k] \ {r} ELSE marks[k] \cup {r})

selectAllVisible == LET k == KindOfTab(vtab) IN
  /\ OnTab /\ ListTab(vtab) /\ Shown(k) # {}
  /\ SetMarks(k, IF allVisibleSelected(k) THEN {} ELSE marks[k] \cup Shown(k))

onEsc ==
  /\ OnTab /\ ListTab(vtab) /\ marks[KindOfTab(vtab)] # {}
  /\ marks' = [k \in Kinds |-> {}]
  /\ UNCHANGED <<fleet, budget, snap, fed, fleetLoaded, orgVisible, query, cursor, vtab, busyLoading, autoOn, reads, asking, loopVars>>

\* Enter on a drift row goes to its home tab, and to the row if it is shown there.
jumpFromDrift == \E r \in DriftRows(snap, fed) :
  LET k == IF r \in SlotRows THEN "slot" ELSE "runner" IN
  /\ OnTab /\ vtab = "drift"
  /\ vtab' = IF k = "slot" THEN "ephemeral" ELSE "persistent"
  /\ cursor' = [cursor EXCEPT ![k] = IF r \in Shown(k) THEN Place(r, Shown(k)) ELSE @]
  /\ UNCHANGED <<fleet, budget, snap, fed, fleetLoaded, orgVisible, query, marks, busyLoading, autoOn, reads, asking, loopVars>>

\* The keys that open a form on what is shown; the upgrade's opens on any tab.
OpenForm ==
  /\ OnTab /\ (vtab = "drift" => HostCapable) /\ form' = TRUE
  /\ UNCHANGED <<fleet, budget, snap, fed, fleetLoaded, orgVisible, listVars, vtab, busyLoading, autoOn, reads, asking, ticks, lost>>

\* startEditRunner: the groups are loaded before the form opens.
startEditRunner ==
  /\ OnTab /\ vtab = "persistent" /\ selected("runner") # {}
  /\ Begin(Cmd("scan"))
  /\ UNCHANGED <<fleet, budget, snap, fed, fleetLoaded, orgVisible, listVars, vtab, autoOn, asking, ticks, form>>

\* A form is aborted, or its command begins: a change that answers with an
\* actionMsg, the save of a group, or one that reloads the configuration.
CloseForm ==
  /\ form /\ form' = FALSE
  /\ \/ UNCHANGED <<busyLoading, reads, lost>>
     \/ \E m \in {Act({}), Cmd("save"), Cmd("reload")} : Begin(m)
  /\ UNCHANGED <<fleet, budget, snap, fed, fleetLoaded, orgVisible, listVars, vtab, autoOn, asking, ticks>>

---------------------------------------------------------------------------
(* Operations                                                              *)

Ask(what, T) ==
  /\ asking' = [what |-> what, targets |-> T, stage |-> "confirm"]
  /\ UNCHANGED <<fleet, budget, snap, fed, fleetLoaded, orgVisible, listVars, vtab, busyLoading, autoOn, reads, loopVars>>

\* The marked rows of the list, else the row under the cursor.
targetsOn(k) == IF selectedRows(k) # {} THEN selectedRows(k) ELSE selected(k)

\* selectionOnly: the marked runners on any tab, else every runner.
selectionOnly == selectedRows("runner")
sweepScope    == IF selectionOnly # {} THEN selectionOnly ELSE RowsOf("runner")

\* Marked rows go through the op runner, one row through onConfirm.
askDelete == LET k == KindOfTab(vtab) IN
  /\ OnTab /\ ListTab(vtab) /\ targetsOn(k) # {}
  /\ Ask(IF selectedRows(k) # {} THEN "each" ELSE "one", targetsOn(k))

\* askDeleteGroup, and the restore of a backup: onConfirm, and no rows.
askOther ==
  /\ OnTab
  /\ \/ vtab = "groups" /\ Ask("group", {})
     \/ vtab = "settings" /\ Ask("restore", {})

startRecreate == LET k == KindOfTab(vtab) IN
  /\ OnTab /\ HostCapable /\ ListTab(vtab) /\ targetsOn(k) # {}
  /\ Ask("each", targetsOn(k))

\* startRollback, startRefreshUnits
startSweep == OnTab /\ HostCapable /\ Ask("sweep", sweepScope)

Cancel ==
  /\ ~form /\ asking.stage = "confirm" /\ asking' = NoAsk
  /\ UNCHANGED <<fleet, budget, snap, fed, fleetLoaded, orgVisible, listVars, vtab, busyLoading, autoOn, reads, loopVars>>

StruckNow == targetsOn(KindOfTab(vtab))
Struck == asking.targets
ByRunner == asking.what \in {"each", "sweep"}

\* runPendingOp. The rows each operation ends with; one row's failure does not stop
\* the rest, and a recreate that fails after its destroy has lost the row.
runPendingOp ==
  /\ ~form /\ asking.stage = "confirm" /\ ByRunner
  /\ asking' = [asking EXCEPT !.stage = "done"]
  /\ \E gone \in SUBSET (Struck \cap fleet.rows) :
       /\ asking.what = "sweep" => gone = {}
       /\ fleet' = [rows |-> fleet.rows \ gone, drifted |-> fleet.drifted \ gone]
  /\ UNCHANGED <<budget, snap, fed, fleetLoaded, orgVisible, listVars, vtab, busyLoading, autoOn, reads, loopVars>>

\* runConfirmed on an onConfirm: its command runs beside the loop.
runOnConfirm ==
  /\ ~form /\ asking.stage = "confirm" /\ ~ByRunner /\ asking' = NoAsk
  /\ Begin(IF asking.what = "restore" THEN Cmd("reload") ELSE Act(Struck))
  /\ UNCHANGED <<fleet, budget, snap, fed, fleetLoaded, orgVisible, listVars, vtab, autoOn, ticks, form>>

runConfirmed == runPendingOp \/ runOnConfirm

dismissOp ==
  /\ ~form /\ asking.stage = "done" /\ asking' = NoAsk
  /\ marks' = [k \in Kinds |-> {}]
  /\ reloadCurrent
  /\ UNCHANGED <<fleet, budget, snap, fed, fleetLoaded, orgVisible, query, cursor, vtab, autoOn, ticks, form>>

---------------------------------------------------------------------------
\* What goes on beside the loop, and what it is told.
Beside  == FleetChanges \/ FleetFast \/ AuditHost \/ RunAct
Told    == onFleetMsg \/ onHostTierMsg \/ onTabMsg \/ onDoneMsg \/ Swallow \/ SwallowTick
\* What the operator does on a tab, in a form, and about an operation.
Looking == Refresh \/ toggleAuto \/ enterTab \/ orgFilterKey \/ jumpFromDrift
Marking == updateFilter \/ moveCursor \/ toggleSelect \/ selectAllVisible \/ onEsc
Forms   == OpenForm \/ startEditRunner
Asking  == askDelete \/ askOther \/ startRecreate \/ startSweep \/ Cancel \/ runConfirmed

Keys == Looking \/ Marking \/ Forms \/ Asking
FleetStep(free) ==
  Beside \/ Told \/ onAutoTickMsg(free) \/ CloseForm \/ dismissOp \/ (free /\ Keys)

\* The runtime answers a command and delivers its message. Nothing makes the
\* operator press a key.
FleetFairness ==
  /\ WF_fleetVars(FleetFast) /\ WF_fleetVars(AuditHost) /\ WF_fleetVars(RunAct)
  /\ WF_fleetVars(onFleetMsg) /\ WF_fleetVars(onHostTierMsg) /\ WF_fleetVars(onTabMsg)
  /\ WF_fleetVars(onDoneMsg)

---------------------------------------------------------------------------
(* Properties                                                              *)

Reads ==
  {Cmd(t) : t \in {"fleet", "tier", "tierFailed", "load", "acted", "actFailed", "save", "scan", "reload"}}
    \cup [t : {"fleetMsg"}, rows : SUBSET AllRows]
    \cup [t : {"hostTierMsg"}, rows : SUBSET AllRows, bad : SUBSET AllRows]
    \cup [t : {"act"}, rows : SUBSET AllRows]
Asks == [what : {"none", "each", "one", "group", "restore", "sweep"}, targets : SUBSET AllRows,
         stage : {"none", "confirm", "done"}]

\* The cursor is on a row, or its list is or has been empty.
CursorFits(k) ==
  \/ cursor[k] \in -1 .. Cardinality(Shown(k)) - 1
  \/ cursor[k] = 0 /\ Shown(k) = {}

\* Types of the variables and of what is outstanding; every cursor is on a row
\* of its list, or the list is or has been empty (the fields of Model in root.go).
FleetTypeOK ==
  /\ fleet \in [rows : SUBSET AllRows, drifted : SUBSET AllRows] /\ fleet.drifted \subseteq fleet.rows
  /\ snap \in [rows : SUBSET AllRows, class : [AllRows -> Classes]]
  /\ budget \in 0 .. MaxEvents /\ fed \subseteq Orgs
  /\ orgVisible \subseteq Orgs /\ (orgVisible = {} \/ orgVisible # Orgs)
  /\ query \in [Kinds -> SUBSET AllRows] /\ marks \in [Kinds -> SUBSET AllRows]
  /\ cursor \in [Kinds -> Int] /\ \A k \in Kinds : CursorFits(k)
  /\ vtab \in ViewTabs /\ busyLoading \in BOOLEAN /\ autoOn \in BOOLEAN
  /\ IsABag(reads) /\ BagToSet(reads) \subseteq Reads
  /\ asking \in Asks
  /\ fleetLoaded \in BOOLEAN /\ form \in BOOLEAN /\ ticks \in 0 .. MaxTicks /\ lost \subseteq {"load", "tick"}

\* A view that shows itself loading has its command, or the answer, under way,
\* here or in the panels (elsewhere), unless m.loading was left set: by an answer
\* that says only that its command failed, or by a form that took the answer.
\* Without that auto-refresh, which waits while anything loads, would have stopped
\* for good (reloadCurrent, actionMsg, groupSavedMsg, autoTickMsg in root.go).
LoadIsUnderWay(elsewhere) ==
  busyLoading /\ "load" \notin lost =>
    elsewhere \/ \E m \in BagToSet(reads) : m.t \notin Audits \cup {"tier"}

\* Auto-refresh that is armed has a tick outstanding, unless a form took it: ticks
\* that find the loop busy, or a panel open, are followed by another (root.go:349).
TickIsUnderWay == autoOn /\ "tick" \notin lost => ticks > 0

RowsMirror == snap.rows = fleet.rows /\ fed = orgVisible
AuditMirrors ==
  HostCapable => \A r \in fleet.rows :
    snap.class[r] = IF r \in fleet.drifted THEN "drifted" ELSE "healthy"

\* The operator leaves the loop alone, on a fleet tab with auto-refresh armed.
LeftAlone(free) ==
  autoOn /\ fleetTab(vtab) /\ asking = NoAsk /\ ~form /\ Cmd("scan") \notin DOMAIN reads /\ free

\* What an operation on rows is asked about are rows listed on the tab, and they
\* stay its targets until it is dismissed: what is confirmed removes no other row,
\* at once or by the command it sends off, whatever the lists have been reloaded to
\* since, and a sweep removes none (root.go:1724-1810, control_ops.go:256).
StrikesWhatWasSeen ==
  [][/\ asking.stage = "none" /\ asking'.what \in {"each", "one"} =>
          asking'.targets # {} /\ asking'.targets \subseteq Listed(KindOfTab(vtab))
     /\ asking.stage # "none" /\ asking'.stage # "none" => asking'.targets = asking.targets
     /\ runConfirmed => /\ fleet.rows \ fleet'.rows \subseteq asking.targets
                        /\ asking.what = "sweep" => fleet' = fleet
     /\ \A m \in DOMAIN reads' \ DOMAIN reads : m.t = "act" => m.rows \subseteq asking.targets]_fleetVars
=============================================================================
