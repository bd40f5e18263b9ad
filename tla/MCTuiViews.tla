----------------------------- MODULE MCTuiViews -----------------------------
(***************************************************************************)
(* The lists and the panels of the terminal UI for model-checking, in      *)
(* four parts: the operator works on one list while it is reloaded; the    *)
(* lists are refreshed under filters, tabs, ticks and forms; panels are    *)
(* opened, filled and closed over lists that have been loaded; and forms   *)
(* open over a panel and take its answers.                                 *)
(***************************************************************************)
EXTENDS TuiViews, TLC

CONSTANTS a1, b1, s1, s2
VARIABLE part

MCOrder == <<a1, b1>>
MCOrgOf == (a1 :> "A") @@ (b1 :> "B")

mcVars == <<part, viewVars>>

\* Everything has been loaded and answered, and the operator has gone to tab t.
Settled(t) ==
  /\ fleet = [rows |-> AllRows, drifted |-> {}] /\ budget = 0
  /\ snap = [rows |-> AllRows, class |-> [r \in AllRows |-> "healthy"]]
  /\ fed = {} /\ fleetLoaded = TRUE /\ orgVisible = {} /\ query = [k \in Kinds |-> AllRows]
  /\ cursor = [k \in Kinds |-> 0] /\ marks = [k \in Kinds |-> {}] /\ vtab = t
  /\ busyLoading = FALSE /\ autoOn = FALSE /\ reads = EmptyBag
  /\ ticks = 0 /\ form = FALSE /\ asking = NoAsk /\ lost = {}

Init ==
  /\ PanelsInit /\ \A g \in Groups : access[g] = Repos
  /\ \/ part \in {"lists", "refresh"} /\ FleetInit
     \/ part = "panels" /\ Settled("groups")
     \/ part = "forms"  /\ Settled("persistent")

\* One row is like the other: where it does not matter, only the first org is chosen.
OneOrg == orgVisible' # {OrgOf[b1]}

OnLists   == Beside \/ Told \/ orgFilterKey \/ Marking \/ Asking \/ dismissOp
OnRefresh ==
  \/ Beside \/ Told \/ onAutoTickMsg(TRUE) \/ (Looking /\ OneOrg) \/ OpenForm \/ CloseForm
  \/ askOther \/ Cancel \/ runConfirmed
OnPanels  ==
  \/ (Beside \/ Told) /\ UNCHANGED panelVars
  \/ reads = EmptyBag /\ (PanelsStep \/ JointStep)
\* A form opens over a Logs panel or a picker, which takes one poll or load.
OnForms   ==
  \/ (Beside \/ Told \/ (NoPanelOpen /\ Forms) \/ CloseForm) /\ UNCHANGED panelVars
  \/ PanelsStep /\ panel'.kind # "info"
  \/ JointStep

Reading(n) == BagCardinality(reads') <= n
Calling(n) == BagCardinality(calls') <= n

Next ==
  /\ UNCHANGED part
  /\ \/ part = "lists"   /\ OnLists   /\ UNCHANGED panelVars /\ Reading(1)
     \/ part = "refresh" /\ OnRefresh /\ UNCHANGED panelVars
     \/ part = "panels"  /\ OnPanels /\ Reading(1)
     \/ part = "forms"   /\ OnForms /\ Reading(1) /\ Calling(1)

Spec == Init /\ [][Next]_mcVars /\ ViewsFairness
=============================================================================
