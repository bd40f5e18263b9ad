----------------------------- MODULE TuiSession -----------------------------
(***************************************************************************)
(* One session of the terminal UI: which overlay a key reaches, how an     *)
(* operation passes its gates (plan preview, typed token, yes/no), what    *)
(* happens to the answers of commands that run beside the event loop, and  *)
(* the operation runner that streams an operation's progress into it.      *)
(***************************************************************************)
EXTENDS Naturals, Sequences, FiniteSets, Bags

CONSTANTS
  Host,         \* hostCapable: the session is elevated and on a runner host
  Tabs,         \* the tabs the operator visits, among those of AllTabs
  Planned,      \* operations started by a dry-run plan, Confirmed those started
  Confirmed,    \* by a yes/no modal, Direct the single commands behind one
  Direct,
  Forms,        \* the forms the operator opens
  Panels,       \* the panels the operator opens, among AllPanels
  Steps,        \* progress events an operation streams
  MaxFlight,    \* bound: commands whose answer is outstanding
  MaxTicks      \* bound: auto-refresh ticks outstanding

AllTabs   == {"health", "persistent", "ephemeral", "groups", "drift", "runs", "settings"}
FleetTabs == {"persistent", "ephemeral", "drift"}
ListTabs  == {"persistent", "ephemeral"}
FilterableTabs == AllTabs \ {"settings"}
AllPanels == {"orgPick", "info", "log", "picker", "filter"}
Gates     == {"preview", "typed", "modal"}
None      == "none"

\* The tokens the operator must type before an operation runs: the host name
\* for a sweep of every runner and for an uninstall, then PURGE when the
\* configuration goes too.
Tokens(o) == CASE o \in {"upgradeAll", "uninstall"} -> 1 [] o = "purge" -> 2 [] OTHER -> 0

ASSUME SessionAssumption ==
  /\ Host \in BOOLEAN /\ Tabs \subseteq AllTabs /\ Tabs # {} /\ Panels \subseteq AllPanels
  /\ None \notin Planned \cup Confirmed \cup Direct
  /\ Steps \in Nat /\ MaxFlight \in Nat /\ MaxTicks \in Nat

Ops == Planned \cup Confirmed \cup Direct

VARIABLES
  tab,
  form,         \* the form that is open, or None
  open,         \* the overlays whose flag is set
  filters,      \* the tabs whose filter input is focused
  gate,         \* pend: pendingOp; t1, t2: pendingTyped and pendingTyped2 are set;
                \* prev, want, asks: what the preview, the typed gate and the modal
                \* on the screen are about; act: onConfirm; given: tokens typed for pend
  op,           \* the operation runner: panel open, running, of what, events left
  make,         \* the create stream: open, events left
  loading, loaded,
  auto,         \* auto-refresh: on, and the ticks outstanding
  flight,       \* the bag of commands whose answer is outstanding
  dropped,      \* what the operator cancelled last, until asked again
  over          \* "no", "quit", or "panic"

sessionVars == <<tab, form, open, filters, gate, op, make, loading, loaded, auto, flight, dropped, over>>

Msg(t)  == [t |-> t, o |-> None]
Plan(o) == [t |-> "preview", o |-> o]
Send(m) == flight' = flight (+) SetToBag({m})
Room    == BagCardinality(flight) < MaxFlight

NoGate == [pend |-> None, t1 |-> FALSE, t2 |-> FALSE, prev |-> None, want |-> None,
           asks |-> None, act |-> None, given |-> 0]
IdleOp == [open |-> FALSE, running |-> FALSE, what |-> None, left |-> 0, given |-> 0]

---------------------------------------------------------------------------
(* Who gets a key                                                          *)
KeyOrder  == <<"orgPick", "info", "log", "preview", "restore", "picker", "typed", "filter", "modal">>

\* The first of order that is in S.
TopOf(order, S) ==
  LET hit == {i \in DOMAIN order : order[i] \in S}
  IN  IF hit = {} THEN "tab" ELSE order[CHOOSE i \in hit : \A j \in hit : i <= j]

Filtering == tab \in filters

Focus ==
  IF form # None THEN "form"
  ELSE IF make.on THEN "make"
  ELSE IF op.open THEN "op"
  ELSE TopOf(KeyOrder, open \cup IF Filtering THEN {"filter"} ELSE {})

Reasked(o) == IF dropped = o THEN None ELSE dropped

Playing(f) == over = "no" /\ Focus = f

idleForAuto == ~loading /\ open = {} /\ form = None /\ ~op.open /\ ~make.on /\ ~Filtering

SessionInit ==
  /\ tab = CHOOSE t \in Tabs : TRUE
  /\ form = None /\ open = {} /\ filters = {}
  /\ gate = NoGate /\ op = IdleOp /\ make = [on |-> FALSE, left |-> 0]
  /\ loading = TRUE /\ loaded = FALSE
  /\ auto = [on |-> FALSE, ticks |-> 0]
  /\ flight = SetToBag({Msg(IF tab \in FleetTabs THEN "fleet" ELSE "load")})
  /\ dropped = None /\ over = "no"

---------------------------------------------------------------------------
(* Loads, tabs, panels and auto-refresh                                    *)

LoadOf(t) == Msg(IF t \in FleetTabs THEN "fleet" ELSE "load")
reloadCurrent == loading' = TRUE /\ Send(LoadOf(tab))

\* The keys reach the tab; a click on the tab bar only minds the overlays, so
\* it leaves a focused filter behind.
SwitchTab(t) ==
  /\ over = "no" /\ form = None /\ ~make.on /\ ~op.open /\ open = {}
  /\ t # tab /\ tab' = t
  /\ IF t \in FleetTabs /\ loaded THEN UNCHANGED <<loading, flight>>
     ELSE Room /\ loading' = TRUE /\ Send(LoadOf(t))
  /\ UNCHANGED <<form, open, filters, gate, op, make, loaded, auto, dropped, over>>

Refresh ==
  /\ Playing("tab") /\ Room /\ reloadCurrent
  /\ UNCHANGED <<tab, form, open, filters, gate, op, make, loaded, auto, dropped, over>>

toggleAuto ==
  /\ Playing("tab")
  /\ \/ auto.on /\ auto' = [auto EXCEPT !.on = FALSE]
     \/ ~auto.on /\ auto.ticks < MaxTicks /\ auto' = [on |-> TRUE, ticks |-> auto.ticks + 1]
  /\ UNCHANGED <<tab, form, open, filters, gate, op, make, loading, loaded, flight, dropped, over>>

\* Information on any tab but Settings, logs on the host's fleet tabs and Runs,
\* the repository picker on Groups, the filter on every list.
MayOpen(p) ==
  CASE p = "orgPick" -> TRUE
    [] p = "info"    -> tab # "settings"
    [] p = "log"     -> Host /\ tab \in FleetTabs \cup {"runs"}
    [] p = "picker"  -> tab = "groups"
    [] p = "filter"  -> tab \in FilterableTabs

OpenPanel(p) ==
  /\ Playing("tab") /\ MayOpen(p)
  /\ IF p = "filter" THEN filters' = filters \cup {tab} /\ UNCHANGED open
     ELSE open' = open \cup {p} /\ UNCHANGED filters
  /\ UNCHANGED <<tab, form, gate, op, make, loading, loaded, auto, flight, dropped, over>>

ClosePanel(p) ==
  /\ Playing(p)
  /\ IF p = "filter" THEN filters' = filters \ {tab} /\ UNCHANGED open
     ELSE open' = open \ {p} /\ UNCHANGED filters
  /\ UNCHANGED <<tab, form, gate, op, make, loading, loaded, auto, flight, dropped, over>>

\* Enter in the org filter reloads; in the repository picker it writes the set.
orgFilterApply ==
  /\ Playing("orgPick") /\ Room /\ open' = open \ {"orgPick"} /\ reloadCurrent
  /\ UNCHANGED <<tab, form, filters, gate, op, make, loaded, auto, dropped, over>>

SavePicker ==
  /\ Playing("picker") /\ Room /\ open' = open \ {"picker"}
  /\ loading' = TRUE /\ Send(Msg("action"))
  /\ UNCHANGED <<tab, form, filters, gate, op, make, loaded, auto, dropped, over>>

---------------------------------------------------------------------------
(* The keys that start something                                           *)

MayPlan(o) ==
  CASE o \in {"fix", "reap"}        -> Host /\ tab \in FleetTabs
    [] o \in {"prune", "provision"} -> Host
    [] OTHER                        -> FALSE

\* startFix, startReap, startPrune, startProvision: the dry run is on its way.
StartPlan(o) ==
  /\ Playing("tab") /\ MayPlan(o) /\ Room
  /\ loading' = TRUE /\ Send(Plan(o))
  /\ UNCHANGED <<tab, form, open, filters, gate, op, make, loaded, auto, dropped, over>>

MayConfirm(o) ==
  CASE o \in {"rollback", "refresh"} -> Host
    [] o = "recreate"    -> Host /\ tab \in ListTabs
    [] o = "destroyMany" -> tab \in ListTabs
    [] o = "backup"      -> tab = "settings"
    [] OTHER             -> FALSE

confirmOp(o) ==
  /\ Playing("tab") /\ MayConfirm(o)
  /\ open' = open \cup {"modal"}
  /\ gate' = [gate EXCEPT !.pend = o, !.asks = o, !.given = 0]
  /\ dropped' = Reasked(o)
  /\ UNCHANGED <<tab, form, filters, op, make, loading, loaded, auto, flight, over>>

MayAsk(o) ==
  CASE o = "destroyOne"  -> tab \in ListTabs
    [] o = "deleteGroup" -> tab = "groups"
    [] OTHER             -> FALSE

\* askDeleteRunner, askDestroySlot, askDeleteGroup.
AskDelete(o) ==
  /\ Playing("tab") /\ MayAsk(o)
  /\ open' = open \cup {"modal"}
  /\ gate' = [gate EXCEPT !.asks = o, !.act = o]
  /\ dropped' = Reasked(o)
  /\ UNCHANGED <<tab, form, filters, op, make, loading, loaded, auto, flight, over>>

\* The Restore card scans for archives, edit on a runner loads its org's groups:
\* what they open arrives with the answer.
StartScan(t, where) ==
  /\ Playing("tab") /\ tab = where /\ Room
  /\ loading' = TRUE /\ Send(Msg(t))
  /\ UNCHANGED <<tab, form, open, filters, gate, op, make, loaded, auto, dropped, over>>

StartRestore    == "restore" \in Direct /\ StartScan("backups", "settings")
startEditRunner == "runnerEdit" \in Forms /\ StartScan("runnerGroups", "persistent")

MayOpenForm(f) ==
  CASE f = "create"     -> tab \in ListTabs
    [] f = "group"      -> tab = "groups"
    [] f = "retention"  -> tab = "health"
    [] f = "upgrade"    -> Host
    [] f = "uninstall"  -> Host /\ tab = "settings"
    [] f \in {"settings", "manifest", "profile", "onboard"} -> tab = "settings"
    [] OTHER            -> FALSE

OpenForm(f) ==
  /\ Playing("tab") /\ MayOpenForm(f) /\ form' = f
  /\ UNCHANGED <<tab, open, filters, gate, op, make, loading, loaded, auto, flight, dropped, over>>

---------------------------------------------------------------------------
(* The open form                                                           *)

FormPlans(f) == CASE f = "upgrade"   -> {"upgradeSome", "upgradeAll"}
                  [] f = "uninstall" -> {"uninstall", "purge"}
                  [] OTHER           -> {}

FormAnswer(f) == CASE f = "group" -> "saved" [] f = "onboard" -> "reload" [] OTHER -> "action"

\* The form is completed: its command runs beside the loop, or a plan does.
FormDone ==
  /\ Playing("form") /\ form # "create" /\ Room
  /\ form' = None /\ loading' = TRUE
  /\ IF FormPlans(form) = {} THEN Send(Msg(FormAnswer(form)))
     ELSE \E o \in FormPlans(form) \cap Planned : Send(Plan(o))
  /\ UNCHANGED <<tab, open, filters, gate, op, make, loaded, auto, dropped, over>>

\* The create wizard starts the stream instead.
CreateDone ==
  /\ Playing("form") /\ form = "create" /\ Room
  /\ form' = None /\ make' = [on |-> TRUE, left |-> Steps] /\ Send(Msg("make"))
  /\ UNCHANGED <<tab, open, filters, gate, op, loading, loaded, auto, dropped, over>>

FormAbort ==
  /\ Playing("form") /\ form' = None
  /\ UNCHANGED <<tab, open, filters, gate, op, make, loading, loaded, auto, flight, dropped, over>>

---------------------------------------------------------------------------
(* The gates                                                               *)

\* runPendingOp on the gate g: the spec is dereferenced, so without a pending
\* operation the program panics. The preview and onConfirm stay as they are.
runPendingOp(g, left) ==
  IF g.pend = None
  THEN over' = "panic" /\ UNCHANGED <<open, gate, op, flight>>
  ELSE /\ open' = left \ {"modal", "typed"}
       /\ gate' = [g EXCEPT !.pend = None, !.t1 = FALSE, !.t2 = FALSE, !.given = 0,
                            !.want = None, !.asks = None]
       /\ op' = [open |-> TRUE, running |-> TRUE, what |-> g.pend, left |-> Steps, given |-> g.given]
       /\ Send(Msg("op"))
       /\ UNCHANGED over

Cancelled(g) == [g EXCEPT !.pend = None, !.t1 = FALSE, !.t2 = FALSE, !.given = 0]

applyPreview ==
  /\ Playing("preview") /\ Room
  /\ LET left == open \ {"preview"} IN
       IF gate.t1
       THEN /\ open' = left \cup {"typed"}
            /\ gate' = [gate EXCEPT !.want = gate.pend, !.prev = None]
            /\ UNCHANGED <<op, flight, over>>
       ELSE runPendingOp([gate EXCEPT !.prev = None], left)
  /\ UNCHANGED <<tab, form, filters, make, loading, loaded, auto, dropped>>

CancelPreviewKeepsOp ==
  /\ Playing("preview")
  /\ open' = open \ {"preview"} /\ gate' = [gate EXCEPT !.prev = None]
  /\ dropped' = gate.prev
  /\ UNCHANGED <<tab, form, filters, op, make, loading, loaded, auto, flight, over>>

CancelPreview ==
  /\ Playing("preview")
  /\ open' = open \ {"preview"} /\ gate' = [Cancelled(gate) EXCEPT !.prev = None]
  /\ dropped' = gate.prev
  /\ UNCHANGED <<tab, form, filters, op, make, loading, loaded, auto, flight, over>>

\* The token matches: the second one is asked for, or the operation runs.
TypedMatch ==
  /\ Playing("typed") /\ Room
  /\ LET g == [gate EXCEPT !.given = IF gate.want = gate.pend THEN @ + 1 ELSE @] IN
       IF gate.t2 THEN gate' = [g EXCEPT !.t2 = FALSE] /\ UNCHANGED <<open, op, flight, over>>
                  ELSE runPendingOp(g, open)
  /\ UNCHANGED <<tab, form, filters, make, loading, loaded, auto, dropped>>

CancelTyped ==
  /\ Playing("typed")
  /\ open' = open \ {"typed"} /\ gate' = [Cancelled(gate) EXCEPT !.want = None]
  /\ dropped' = gate.want
  /\ UNCHANGED <<tab, form, filters, op, make, loading, loaded, auto, flight, over>>

\* A pending operation goes first; else onConfirm, if there is one.
runConfirmed ==
  /\ Playing("modal") /\ Room
  /\ LET left == open \ {"modal"} IN
       IF gate.pend # None
       THEN runPendingOp(gate, left) /\ UNCHANGED loading
       ELSE /\ open' = left /\ gate' = [gate EXCEPT !.act = None, !.asks = None]
            /\ IF gate.act = None THEN UNCHANGED <<loading, flight>>
               ELSE loading' = TRUE /\ Send(Msg(IF gate.act = "restore" THEN "reload" ELSE "action"))
            /\ UNCHANGED <<op, over>>
  /\ UNCHANGED <<tab, form, filters, make, loaded, auto, dropped>>

CancelModal ==
  /\ Playing("modal")
  /\ open' = open \ {"modal"} /\ gate' = [gate EXCEPT !.pend = None, !.act = None, !.asks = None]
  /\ dropped' = gate.asks
  /\ UNCHANGED <<tab, form, filters, op, make, loading, loaded, auto, flight, over>>

\* Enter in the restore picker asks; the pending operation stays as it is.
PickArchive ==
  /\ Playing("restore")
  /\ open' = (open \ {"restore"}) \cup {"modal"}
  /\ gate' = [gate EXCEPT !.asks = "restore", !.act = "restore"]
  /\ dropped' = Reasked("restore")
  /\ UNCHANGED <<tab, form, filters, op, make, loading, loaded, auto, flight, over>>

\* The result panel is dismissed.
DismissOp ==
  /\ Playing("op") /\ ~op.running /\ Room
  /\ op' = IdleOp /\ reloadCurrent
  /\ UNCHANGED <<tab, form, open, filters, gate, make, loaded, auto, dropped, over>>

Quit ==
  /\ over = "no"
  /\ \/ Focus \in {"make", "info", "log", "tab"}
     \/ Focus = "op" /\ op.running
  /\ over' = "quit"
  /\ UNCHANGED <<tab, form, open, filters, gate, op, make, loading, loaded, auto, flight, dropped>>

---------------------------------------------------------------------------
(* Answers                                                                 *)

Take(m) == flight' = flight (-) SetToBag({m})
Swap(m, n) == flight' = (flight (-) SetToBag({m})) (+) SetToBag({n})
Arrives(m) == over = "no" /\ BagIn(m, flight)
Handled(m) == Arrives(m) /\ form = None

\* A form that is open takes every message of the loop as its own.
Swallow(m) ==
  /\ Arrives(m) /\ form # None /\ Take(m)
  /\ UNCHANGED <<tab, form, open, filters, gate, op, make, loading, loaded, auto, dropped, over>>

\* fleetMsg, groupsMsg, healthMsg, runsMsg, settingsMsg.
OnLoaded(t) ==
  /\ Handled(Msg(t)) /\ Take(Msg(t))
  /\ loading' = FALSE /\ loaded' = (loaded \/ t = "fleet")
  /\ UNCHANGED <<tab, form, open, filters, gate, op, make, auto, dropped, over>>

\* actionMsg: the tab is reloaded, after a failure nothing is.
OnAction ==
  /\ Handled(Msg("action"))
  /\ \/ Swap(Msg("action"), LoadOf(tab)) /\ loading' = TRUE
     \/ Take(Msg("action")) /\ UNCHANGED loading
  /\ UNCHANGED <<tab, form, open, filters, gate, op, make, loaded, auto, dropped, over>>

\* reloadMsg: the configuration changed, the fleet is not known any more.
OnReload ==
  /\ Handled(Msg("reload"))
  /\ \/ Swap(Msg("reload"), LoadOf(tab)) /\ loading' = TRUE /\ loaded' = FALSE
     \/ Take(Msg("reload")) /\ loading' = FALSE /\ UNCHANGED loaded
  /\ UNCHANGED <<tab, form, open, filters, gate, op, make, auto, dropped, over>>

\* groupSavedMsg: a group of selected repositories goes on to the picker.
OnSaved ==
  /\ Handled(Msg("saved"))
  /\ \/ Take(Msg("saved")) /\ UNCHANGED <<loading, open>>
     \/ Take(Msg("saved")) /\ "picker" \in Panels /\ open' = open \cup {"picker"} /\ UNCHANGED loading
     \/ Swap(Msg("saved"), Msg("load")) /\ loading' = TRUE /\ UNCHANGED open
  /\ UNCHANGED <<tab, form, filters, gate, op, make, loaded, auto, dropped, over>>

OnPreviewOneToken(o) ==
  /\ Handled(Plan(o)) /\ Take(Plan(o)) /\ loading' = FALSE
  /\ open' = open \cup {"preview"}
  /\ gate' = [gate EXCEPT !.pend = o, !.prev = o, !.t1 = Tokens(o) > 0, !.t2 = FALSE, !.given = 0]
  /\ dropped' = Reasked(o)
  /\ UNCHANGED <<tab, form, filters, op, make, loaded, auto, over>>

\* previewMsg: the plan and its tokens replace what was pending.
OnPreview(o) ==
  /\ Handled(Plan(o)) /\ Take(Plan(o)) /\ loading' = FALSE
  /\ \/ UNCHANGED <<open, gate, dropped>>
     \/ /\ open' = open \cup {"preview"}
        /\ gate' = [gate EXCEPT !.pend = o, !.prev = o, !.t1 = Tokens(o) > 0, !.t2 = Tokens(o) > 1,
                                !.given = 0]
        /\ dropped' = Reasked(o)
  /\ UNCHANGED <<tab, form, filters, op, make, loaded, auto, over>>

OnBackups ==
  /\ Handled(Msg("backups")) /\ Take(Msg("backups")) /\ loading' = FALSE
  /\ open' \in {open, open \cup {"restore"}}
  /\ UNCHANGED <<tab, form, filters, gate, op, make, loaded, auto, dropped, over>>

OnRunnerGroups ==
  /\ Handled(Msg("runnerGroups")) /\ Take(Msg("runnerGroups")) /\ loading' = FALSE
  /\ form' \in {None, "runnerEdit"}
  /\ UNCHANGED <<tab, open, filters, gate, op, make, loaded, auto, dropped, over>>

OnOpOnce ==
  /\ Handled(Msg("op")) /\ Take(Msg("op"))
  /\ op' = IF op.left > 0 THEN [op EXCEPT !.left = @ - 1] ELSE [op EXCEPT !.running = FALSE]
  /\ UNCHANGED <<tab, form, open, filters, gate, make, loading, loaded, auto, dropped, over>>

\* opProgressMsg and opDoneMsg: the worker hands its next event, or its result,
\* to the one command that waits for it; the handler waits again.
OnOp ==
  /\ Handled(Msg("op"))
  /\ \/ op.left > 0 /\ op' = [op EXCEPT !.left = @ - 1] /\ UNCHANGED flight
     \/ op.left = 0 /\ op' = [op EXCEPT !.running = FALSE] /\ Take(Msg("op"))
  /\ UNCHANGED <<tab, form, open, filters, gate, make, loading, loaded, auto, dropped, over>>

\* progressMsg and createDoneMsg.
OnMake ==
  /\ Handled(Msg("make"))
  /\ \/ make.left > 0 /\ make' = [make EXCEPT !.left = @ - 1] /\ UNCHANGED <<flight, loading>>
     \/ /\ make.left = 0 /\ make' = [make EXCEPT !.on = FALSE]
        /\ \/ Take(Msg("make")) /\ UNCHANGED loading
           \/ Swap(Msg("make"), LoadOf(tab)) /\ loading' = TRUE
  /\ UNCHANGED <<tab, form, open, filters, gate, op, loaded, auto, dropped, over>>

\* autoTickMsg: reload when nothing is in the way, and arm the next tick.
OnTick ==
  /\ over = "no" /\ auto.ticks > 0
  /\ IF form # None \/ ~auto.on
     THEN auto' = [auto EXCEPT !.ticks = @ - 1] /\ UNCHANGED <<loading, flight>>
     ELSE /\ UNCHANGED auto
          /\ IF idleForAuto THEN Room /\ reloadCurrent ELSE UNCHANGED <<loading, flight>>
  /\ UNCHANGED <<tab, form, open, filters, gate, op, make, loaded, dropped, over>>

---------------------------------------------------------------------------
Keys ==
  \/ \E t \in Tabs : SwitchTab(t)
  \/ Refresh \/ toggleAuto \/ orgFilterApply \/ SavePicker
  \/ \E p \in Panels : OpenPanel(p) \/ ClosePanel(p)
  \/ ClosePanel("restore")
  \/ \E o \in Planned : StartPlan(o)
  \/ \E o \in Confirmed : confirmOp(o)
  \/ \E o \in Direct : AskDelete(o)
  \/ StartRestore \/ startEditRunner
  \/ \E f \in Forms : OpenForm(f)
  \/ FormDone \/ CreateDone \/ FormAbort
  \/ applyPreview \/ CancelPreview \/ TypedMatch \/ CancelTyped
  \/ runConfirmed \/ CancelModal \/ PickArchive
  \/ DismissOp \/ Quit

Answers ==
  \/ \E m \in BagToSet(flight) : Swallow(m)
  \/ \E t \in {"fleet", "load"} : OnLoaded(t)
  \/ OnAction \/ OnReload \/ OnSaved \/ OnBackups \/ OnRunnerGroups
  \/ \E o \in Planned : OnPreview(o)
  \/ OnOp \/ OnMake \/ OnTick

SessionNext == Keys \/ Answers
SessionSpec == SessionInit /\ [][SessionNext]_sessionVars

\* The event loop handles what arrives, and a command it waits for returns.
SwallowOp == Swallow(Msg("op"))
SessionFairness == WF_sessionVars(OnOp) /\ WF_sessionVars(SwallowOp) /\ WF_sessionVars(OnTick)
FairSession == SessionSpec /\ SessionFairness

---------------------------------------------------------------------------
(* Properties                                                              *)

\* Every flag, gate and stream of the session has a value of its kind
\* (the fields of Model in root.go).
SessionTypeOK ==
  /\ tab \in Tabs /\ form \in Forms \cup {None, "runnerEdit"}
  /\ open \subseteq Gates \cup AllPanels \cup {"restore"} /\ filters \subseteq FilterableTabs
  /\ gate \in [pend : Ops \cup {None}, t1 : BOOLEAN, t2 : BOOLEAN, prev : Ops \cup {None},
               want : Ops \cup {None}, asks : Ops \cup {None}, act : Ops \cup {None}, given : 0..2]
  /\ op \in [open : BOOLEAN, running : BOOLEAN, what : Ops \cup {None}, left : 0..Steps, given : 0..2]
  /\ make \in [on : BOOLEAN, left : 0..Steps]
  /\ loading \in BOOLEAN /\ loaded \in BOOLEAN
  /\ auto \in [on : BOOLEAN, ticks : 0..MaxTicks]
  /\ IsABag(flight)
  /\ dropped \in Ops \cup {None} /\ over \in {"no", "quit", "panic"}

\* An operation that runs was given every token its plan demanded, whatever
\* plans arrived while its gates were open (previewMsg, applyPreview, the
\* typed gate and its chained PURGE in onKey, runPendingOp).
TokensGiven == op.open => op.given >= Tokens(op.what)

\* The plan on the screen is the operation that Apply would run: a later plan
\* replaces both (previewMsg), and no other gate reaches pendingOp below it.
PreviewIsPending == "preview" \in open => gate.pend = gate.prev

\* One worker at a time has one reader: the streams of an operation and of a
\* create never run together, and a running operation has at most one command
\* that waits for its next event (startOp, waitOpCmd, opProgressMsg).
OneWorkerOneReader ==
  /\ ~(op.open /\ make.on)
  /\ BagIn(Msg("op"), flight) => op.running /\ flight[Msg("op")] = 1

\* The gates and the streams of a session agree with each other (Model, onKey,
\* previewMsg, startOp).
SessionSafe == SessionTypeOK /\ TokensGiven /\ PreviewIsPending /\ OneWorkerOneReader

Runs(o) == \/ ~op.open /\ op'.open /\ op'.what = o
           \/ gate.act = o /\ gate'.act = None /\ flight' # flight

\* What the operator cancelled last does not run until it is asked again, from
\* whatever gate the next yes comes (the cancel branches of onKey).
CancelledNeverRuns == [][\A o \in Ops : Runs(o) => o # dropped]_sessionVars

\* A running operation is neither replaced nor set back: every gate waits
\* below the result panel (the order of onKey).
RunningIsKept == [][op.running /\ op'.open => op'.what = op.what /\ op'.left <= op.left]_sessionVars

\* A running operation has the command that waits for its next event, without which
\* its worker would block for ever: no handler drops it, only the form of a runner
\* takes it (startOp, opProgressMsg).
EventsAreRead ==
  [][op'.running /\ (op.running => BagIn(Msg("op"), flight))
       => BagIn(Msg("op"), flight') \/ form = "runnerEdit"]_sessionVars

\* Only what was asked for runs, and once it runs it stays and is heard of (onKey).
RunsAsAsked == CancelledNeverRuns /\ RunningIsKept /\ EventsAreRead

\* An operation runs to its end unless the form that a late list of groups
\* opens takes its events (opProgressMsg waits again, opDoneMsg).
OpEndsUndisturbed ==
  [](form # "runnerEdit") => (op.running ~> ~op.running \/ over # "no")

\* Auto-refresh that is on has a tick to come, however often it was toggled, until the
\* tick dies in a form that takes every message (toggleAuto, autoTickMsg).
TickToCome == auto.on => auto.ticks > 0
AutoStaysArmed == [][TickToCome => TickToCome' \/ form # None]_sessionVars

AskedBy == CASE Focus = "preview" -> gate.prev [] Focus = "typed" -> gate.want
             [] Focus = "modal" -> gate.asks [] OTHER -> None

\* What a yes runs is what its gate asked about (root.go: runConfirmed runs
\* the yes/no-confirmed action). A plan or a list of archives that arrives
\* while another gate is open breaks it.
ConfirmedIsWhatRuns == [][\A o \in Ops : Runs(o) => o = AskedBy]_sessionVars
=============================================================================
