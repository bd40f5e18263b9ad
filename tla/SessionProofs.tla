--------------------------- MODULE SessionProofs ---------------------------
(***************************************************************************)
(* Proofs about one srm process from the inside, where the keys meet the   *)
(* manager.                                                                *)
(*                                                                         *)
(* TuiSession, for any tabs, operations, forms and panels, any number of   *)
(* events and answers in flight: operations run only when they were asked  *)
(* for, with the tokens their plans demand, and have one reader.  The      *)
(* invariant relates the record of the gates to the overlays on the screen *)
(* and to what was cancelled last.                                         *)
(*                                                                         *)
(* ManagerConfig, for any number of goroutines, edits and failing calls:   *)
(* the dry-run flag is up only within a dry run, the clients follow the    *)
(* configuration, and the locks never leave everyone waiting.              *)
(***************************************************************************)
EXTENDS TuiSession, ManagerConfig, TLAPS

-----------------------------------------------------------------------------
(* The invariant.                                                          *)

PlanOps   == {"fix", "reap", "prune", "provision", "upgradeSome", "upgradeAll", "uninstall", "purge"}
ModalOps  == {"rollback", "refresh", "recreate", "destroyMany", "backup"}
DirectOps == {"destroyOne", "deleteGroup", "restore"}

MsgKinds == {"fleet", "load", "action", "reload", "saved", "backups", "runnerGroups", "op", "make"}
Known == {Msg(t) : t \in MsgKinds} \cup {Plan(o) : o \in PlanOps \cap Planned}

\* Only plans are previewed, and the picker of archives opens when it was asked for.
MessagesFit ==
  /\ BagToSet(flight) \subseteq Known
  /\ BagIn(Msg("backups"), flight) => "restore" \in Direct
  /\ "restore" \in open => "restore" \in Direct

\* Each gate is about operations of its own kind.
GatesFit ==
  /\ gate.pend \in PlanOps \cup ModalOps \cup {None}
  /\ gate.prev \in PlanOps \cup {None} /\ gate.want \in PlanOps \cup {None}
  /\ gate.act \in DirectOps \cup {None}

Count(b) == IF b THEN 1 ELSE 0
Due      == Count(gate.t1) + Count(gate.t2)

\* What was typed and what is still to be typed make up the tokens of what is pending,
\* and the typed gate, where it is on top, asks for that.
TokensAddUp ==
  /\ gate.t1 \/ gate.t2 => gate.pend # None /\ open \cap {"preview", "typed"} # {}
  /\ gate.t2 => gate.t1
  /\ gate.given + Due <= 2
  /\ gate.pend # None => gate.given + Due >= Tokens(gate.pend)
  /\ "typed" \in open => gate.want # None
  /\ "typed" \in open /\ "preview" \notin open /\ gate.pend # None => gate.want = gate.pend /\ gate.t1

\* Only the form for a runner opens over an operation.
FormsYield ==
  /\ op.open => form \in {None, "runnerEdit"}
  /\ op.running => op.open

\* What was cancelled last is neither pending nor what a yes would run.
DroppedRests == dropped # None => gate.pend # dropped /\ gate.act # dropped

SessionInv ==
  /\ SessionTypeOK /\ MessagesFit /\ GatesFit /\ TokensAddUp /\ PreviewIsPending
  /\ FormsYield /\ OneWorkerOneReader /\ TokensGiven /\ DroppedRests

-----------------------------------------------------------------------------
(* The bag of answers.                                                     *)

\* How often m is in the bag B.
Copies(m, B) == IF BagIn(m, B) THEN B[m] ELSE 0

LEMMA SendAdds ==
  ASSUME IsABag(flight), NEW m, Send(m)
  PROVE  /\ IsABag(flight')
         /\ \A x : Copies(x, flight') = Copies(x, flight) + IF x = m THEN 1 ELSE 0
         /\ \A x : BagIn(x, flight') => BagIn(x, flight) \/ x = m
BY DEF IsABag, Send, SetToBag, (+), Copies, BagIn, BagToSet

LEMMA TakeRemoves ==
  ASSUME IsABag(flight), NEW m, BagIn(m, flight), Take(m)
  PROVE  /\ IsABag(flight')
         /\ \A x : Copies(x, flight') = Copies(x, flight) - IF x = m THEN 1 ELSE 0
         /\ \A x : BagIn(x, flight') => BagIn(x, flight)
BY DEF IsABag, Take, SetToBag, (-), Copies, BagIn, BagToSet

LEMMA SwapReplaces ==
  ASSUME IsABag(flight), NEW m, NEW n, BagIn(m, flight), Swap(m, n)
  PROVE  /\ IsABag(flight')
         /\ \A x : Copies(x, flight') = Copies(x, flight) - (IF x = m THEN 1 ELSE 0) + (IF x = n THEN 1 ELSE 0)
         /\ \A x : BagIn(x, flight') => BagIn(x, flight) \/ x = n
BY DEF IsABag, Swap, SetToBag, (-), (+), Copies, BagIn, BagToSet

LEMMA ReadersByCopies ==
  ASSUME IsABag(flight)
  PROVE  (BagIn(Msg("op"), flight) => op.running /\ flight[Msg("op")] = 1)
           <=> Copies(Msg("op"), flight) <= IF op.running THEN 1 ELSE 0
BY DEF IsABag, Copies, BagIn, BagToSet

FlightFits == /\ IsABag(flight) /\ BagToSet(flight) \subseteq Known
              /\ BagIn(Msg("backups"), flight) => "restore" \in Direct

\* A step that leaves operations alone leaves their readers alone.
Quietly == FlightFits' /\ Copies(Msg("op"), flight') <= Copies(Msg("op"), flight)

LEMMA PlainAnswers ==
  /\ \A t \in MsgKinds : Msg(t) \in Known
  /\ \A t, u : Msg(t) = Msg(u) => t = u
  /\ \A o, t : Plan(o) = Msg(t) => t = "preview"
  /\ \A o \in PlanOps \cap Planned : Plan(o) \in Known
  /\ \A o, q : Plan(o) = Plan(q) => o = q
  /\ \A t \in Tabs : LoadOf(t) \in {Msg("fleet"), Msg("load")}
BY DEF Msg, Plan, Known, LoadOf

LEMMA StillQuiet ==
  ASSUME FlightFits, UNCHANGED flight
  PROVE  Quietly
BY DEF Quietly, FlightFits, IsABag, Copies, BagIn, BagToSet

LEMMA SendQuiet ==
  ASSUME FlightFits, NEW m \in Known \ {Msg("op")}, m = Msg("backups") => "restore" \in Direct, Send(m)
  PROVE  Quietly
<1>1. IsABag(flight)
  BY DEF FlightFits
<1>2. FlightFits'
  BY <1>1, SendAdds DEF BagIn, FlightFits
<1>3. Copies(Msg("op"), flight') = Copies(Msg("op"), flight) + 0
  BY <1>1, SendAdds
<1> QED BY <1>1, <1>2, <1>3 DEF Quietly, Copies, BagIn, BagToSet, IsABag

LEMMA TakeQuiet ==
  ASSUME FlightFits, NEW m, BagIn(m, flight), Take(m)
  PROVE  Quietly
<1>1. IsABag(flight)
  BY DEF FlightFits
<1>2. FlightFits'
  BY <1>1, TakeRemoves DEF BagIn, FlightFits
<1>3. Copies(Msg("op"), flight') = Copies(Msg("op"), flight) - IF Msg("op") = m THEN 1 ELSE 0
  BY <1>1, TakeRemoves
<1> QED BY <1>1, <1>2, <1>3 DEF Quietly, Copies, BagIn, BagToSet, IsABag

LEMMA SwapQuiet ==
  ASSUME FlightFits, NEW m, BagIn(m, flight), NEW n \in Known \ {Msg("op"), Msg("backups")}, Swap(m, n)
  PROVE  Quietly
<1>1. IsABag(flight)
  BY DEF FlightFits
<1>2. FlightFits'
  BY <1>1, SwapReplaces DEF BagIn, FlightFits
<1>3. Copies(Msg("op"), flight') = Copies(Msg("op"), flight) - (IF Msg("op") = m THEN 1 ELSE 0) + 0
  BY <1>1, SwapReplaces
<1> QED BY <1>1, <1>2, <1>3 DEF Quietly, Copies, BagIn, BagToSet, IsABag

-----------------------------------------------------------------------------
(* Who gets a key.                                                         *)

LEMMA TopIs ==
  ASSUME NEW S, NEW f, TopOf(KeyOrder, S) = f
  PROVE  /\ f = "tab" => \A g \in {"preview", "typed", "modal"} : g \notin S
         /\ f # "tab" => f \in S /\ \E i \in 1..9 : KeyOrder[i] = f /\ \A j \in 1..9 : KeyOrder[j] \in S => i <= j
<1> DEFINE hit == {i \in 1..9 : KeyOrder[i] \in S}
<1>1. DOMAIN KeyOrder = 1..9
  BY DEF KeyOrder
<1>2. f = IF hit = {} THEN "tab" ELSE KeyOrder[CHOOSE i \in hit : \A j \in hit : i <= j]
  BY <1>1 DEF TopOf
<1>3. KeyOrder[4] = "preview" /\ KeyOrder[7] = "typed" /\ KeyOrder[9] = "modal" /\ \A i \in 1..9 : KeyOrder[i] # "tab"
  BY DEF KeyOrder
<1>4. CASE hit = {}
  BY <1>2, <1>3, <1>4
<1>5. CASE hit # {}
  <2>1. \E i \in hit : \A j \in hit : i <= j
    BY <1>5
  <2> DEFINE i == CHOOSE i \in hit : \A j \in hit : i <= j
  <2>2. i \in hit /\ \A j \in hit : i <= j
    BY <2>1
  <2>3. f = KeyOrder[i]
    BY <1>2, <1>5
  <2> QED BY <2>2, <2>3, <1>3
<1> QED BY <1>4, <1>5

\* What a key that reaches f finds.
Keyed(f) ==
  /\ f # "form" => form = None
  /\ f \notin {"form", "make"} => ~make.on
  /\ f \notin {"form", "make", "op"} => ~op.open
  /\ f = "tab" => open \cap Gates = {}
  /\ f = "preview" => "preview" \in open
  /\ f = "restore" => "restore" \in open
  /\ f = "typed" => "typed" \in open /\ "preview" \notin open
  /\ f = "modal" => "modal" \in open /\ "preview" \notin open /\ "typed" \notin open

LEMMA FocusTells ==
  ASSUME NEW f, Focus = f
  PROVE  Keyed(f)
<1> DEFINE S == open \cup IF Filtering THEN {"filter"} ELSE {}
<1>1. CASE form # None
  BY <1>1 DEF Focus, Keyed
<1>2. CASE form = None /\ make.on
  BY <1>2 DEF Focus, Keyed
<1>3. CASE form = None /\ ~make.on /\ op.open
  BY <1>3 DEF Focus, Keyed
<1>4. CASE form = None /\ ~make.on /\ ~op.open
  <2>1. TopOf(KeyOrder, S) = f
    BY <1>4 DEF Focus
  <2>2. /\ f = "tab" => \A g \in {"preview", "typed", "modal"} : g \notin S
        /\ f # "tab" => f \in S /\ \E i \in 1..9 : KeyOrder[i] = f /\ \A j \in 1..9 : KeyOrder[j] \in S => i <= j
    <3> HIDE DEF S
    <3> QED BY <2>1, TopIs
  <2>3. /\ KeyOrder[1] = "orgPick" /\ KeyOrder[2] = "info" /\ KeyOrder[3] = "log" /\ KeyOrder[4] = "preview"
        /\ KeyOrder[5] = "restore" /\ KeyOrder[6] = "picker" /\ KeyOrder[7] = "typed" /\ KeyOrder[8] = "filter"
        /\ KeyOrder[9] = "modal"
    BY DEF KeyOrder
  <2>4. f = "typed" => "preview" \notin S
    BY <2>2, <2>3
  <2>5. f = "modal" => "preview" \notin S /\ "typed" \notin S
    BY <2>2, <2>3
  <2>6. \A g : g # "filter" => (g \in S <=> g \in open)
    OBVIOUS
  <2>7. f \notin {"form", "make", "op"}
    BY <2>2, <2>3
  <2> QED BY <1>4, <2>2, <2>4, <2>5, <2>6, <2>7 DEF Keyed, Gates
<1> QED BY <1>1, <1>2, <1>3, <1>4

-----------------------------------------------------------------------------
(* Steps that leave the gates and the operation alone.                     *)

LEMMA InitInv == SessionInit => SessionInv
<1> SUFFICES ASSUME SessionInit PROVE SessionInv
  OBVIOUS
<1>1. tab \in Tabs /\ Tabs \subseteq AllTabs
  BY SessionAssumption DEF SessionInit
<1> DEFINE m == Msg(IF tab \in FleetTabs THEN "fleet" ELSE "load")
<1>2. flight = SetToBag({m}) /\ m \in Known /\ m # Msg("op") /\ m # Msg("backups")
  BY DEF SessionInit, Known, MsgKinds, Msg
<1>3. IsABag(flight) /\ BagToSet(flight) = {m}
  BY <1>2 DEF SetToBag, IsABag, BagToSet
<1>4. MessagesFit /\ ~BagIn(Msg("op"), flight)
  BY <1>2, <1>3 DEF MessagesFit, BagIn, SessionInit
<1>5. SessionTypeOK
  <2>1. Steps \in Nat /\ MaxTicks \in Nat
    BY SessionAssumption
  <2>2. make \in [on : BOOLEAN, left : 0..Steps] /\ auto \in [on : BOOLEAN, ticks : 0..MaxTicks]
    BY <2>1 DEF SessionInit
  <2>3. op \in [open : BOOLEAN, running : BOOLEAN, what : Ops \cup {None}, left : 0..Steps, given : 0..2]
    BY <2>1 DEF SessionInit, IdleOp
  <2>4. gate \in [pend : Ops \cup {None}, t1 : BOOLEAN, t2 : BOOLEAN, prev : Ops \cup {None},
                 want : Ops \cup {None}, asks : Ops \cup {None}, act : Ops \cup {None}, given : 0..2]
    BY DEF SessionInit, NoGate
  <2> QED BY <1>1, <1>3, <2>2, <2>3, <2>4 DEF SessionTypeOK, SessionInit
<1> QED
  BY <1>4, <1>5 DEF SessionInit, NoGate, IdleOp, SessionInv, GatesFit, TokensAddUp, Due, Count, PreviewIsPending,
     FormsYield, OneWorkerOneReader, TokensGiven, DroppedRests

LEMMA InvFits == SessionInv => FlightFits
BY DEF SessionInv, SessionTypeOK, MessagesFit, FlightFits

\* Panels, tabs, forms and answers.
LEMMA QuietKept ==
  ASSUME SessionInv, Quietly, UNCHANGED <<gate, op, dropped>>, open' \cap Gates = open \cap Gates,
         tab' \in Tabs, form' \in Forms \cup {None, "runnerEdit"}, op.open => form' \in {None, "runnerEdit"},
         open' \subseteq Gates \cup AllPanels \cup {"restore"}, "restore" \in open' => "restore" \in Direct,
         filters' \subseteq FilterableTabs, make' \in [on : BOOLEAN, left : 0..Steps], make'.on => make.on,
         loading' \in BOOLEAN, loaded' \in BOOLEAN, auto' \in [on : BOOLEAN, ticks : 0..MaxTicks],
         over' \in {"no", "quit", "panic"}
  PROVE  SessionInv'
<1>1. SessionTypeOK'
  BY DEF SessionTypeOK, SessionInv, Quietly, FlightFits
<1>2. MessagesFit'
  BY DEF MessagesFit, Quietly, FlightFits
<1>3. "preview" \in open' <=> "preview" \in open
  BY DEF Gates
<1>4. "typed" \in open' <=> "typed" \in open
  BY DEF Gates
<1>5. GatesFit' /\ PreviewIsPending' /\ FormsYield' /\ TokensGiven' /\ DroppedRests'
  BY <1>3 DEF SessionInv, GatesFit, PreviewIsPending, FormsYield, TokensGiven, DroppedRests
<1>6. TokensAddUp'
  BY <1>3, <1>4 DEF SessionInv, TokensAddUp, Due
<1>7. OneWorkerOneReader'
  <2>1. IsABag(flight) /\ IsABag(flight') /\ OneWorkerOneReader
    BY DEF SessionInv, SessionTypeOK, Quietly, FlightFits
  <2>2. Copies(Msg("op"), flight) <= IF op.running THEN 1 ELSE 0
    BY <2>1, ReadersByCopies DEF OneWorkerOneReader
  <2>3. BagIn(Msg("op"), flight') => op'.running /\ flight'[Msg("op")] = 1
    BY <2>1, <2>2 DEF Quietly, Copies, IsABag, BagIn, BagToSet
  <2> QED BY <2>1, <2>3 DEF OneWorkerOneReader
<1> QED BY <1>1, <1>2, <1>5, <1>6, <1>7 DEF SessionInv

LEMMA TabsKept ==
  ASSUME SessionInv, \/ \E t \in Tabs : SwitchTab(t)
                     \/ Refresh \/ toggleAuto \/ orgFilterApply \/ SavePicker
                     \/ \E p \in Panels : OpenPanel(p) \/ ClosePanel(p)
                     \/ ClosePanel("restore")
  PROVE  SessionInv'
<1>0. FlightFits /\ SessionTypeOK /\ MessagesFit /\ FormsYield
  BY InvFits DEF SessionInv
<1>01. /\ Msg("action") \in Known /\ Msg("action") # Msg("op") /\ Msg("action") # Msg("backups")
       /\ \A t \in Tabs : LoadOf(t) \in Known \ {Msg("op")} /\ LoadOf(t) # Msg("backups")
  BY PlainAnswers DEF MsgKinds
<1>02. UNCHANGED flight => Quietly
  BY <1>0, StillQuiet
<1>03. reloadCurrent => Quietly
  BY <1>0, <1>01, SendQuiet DEF reloadCurrent, SessionTypeOK
<1>1. ASSUME NEW t \in Tabs, SwitchTab(t) PROVE SessionInv'
  <2>1. Quietly
    BY <1>0, <1>01, <1>02, <1>1, SendQuiet DEF SwitchTab
  <2> QED BY <1>0, <1>1, <2>1, QuietKept DEF SwitchTab, SessionTypeOK, MessagesFit, FormsYield
<1>2. CASE Refresh
  BY <1>0, <1>03, <1>2, QuietKept DEF Refresh, reloadCurrent, SessionTypeOK, MessagesFit, FormsYield
<1>3. CASE toggleAuto
  <2>1. auto' \in [on : BOOLEAN, ticks : 0..MaxTicks]
    <3>1. MaxTicks \in Nat /\ auto.ticks \in 0..MaxTicks
      BY <1>0, SessionAssumption DEF SessionTypeOK
    <3>2. CASE auto' = [auto EXCEPT !.on = FALSE]
      BY <1>0, <3>2 DEF SessionTypeOK
    <3>3. CASE auto.ticks < MaxTicks /\ auto' = [on |-> TRUE, ticks |-> auto.ticks + 1]
      BY <3>1, <3>3
    <3> QED BY <1>3, <3>2, <3>3 DEF toggleAuto
  <2> QED BY <1>0, <1>02, <1>3, <2>1, QuietKept DEF toggleAuto, SessionTypeOK, MessagesFit, FormsYield
<1>4. CASE orgFilterApply
  <2>1. open' \cap Gates = open \cap Gates
    BY <1>4 DEF orgFilterApply, Gates
  <2> QED BY <1>0, <1>03, <1>4, <2>1, QuietKept DEF orgFilterApply, reloadCurrent, SessionTypeOK, MessagesFit, FormsYield
<1>5. CASE SavePicker
  <2>1. open' \cap Gates = open \cap Gates /\ Quietly
    BY <1>0, <1>01, <1>5, SendQuiet DEF SavePicker, Gates
  <2> QED BY <1>0, <1>5, <2>1, QuietKept DEF SavePicker, SessionTypeOK, MessagesFit, FormsYield
<1>6. ASSUME NEW p \in Panels, OpenPanel(p) PROVE SessionInv'
  <2>1. p \in AllPanels
    BY SessionAssumption
  <2>2. open' \cap Gates = open \cap Gates /\ open' \subseteq open \cup AllPanels /\ ("restore" \in open' => "restore" \in open)
    BY <1>6, <2>1 DEF OpenPanel, Gates, AllPanels
  <2>3. filters' \subseteq FilterableTabs
    BY <1>0, <1>6 DEF OpenPanel, MayOpen, SessionTypeOK
  <2>4. Quietly
    BY <1>02, <1>6 DEF OpenPanel
  <2> QED BY <1>0, <1>6, <2>2, <2>3, <2>4, QuietKept DEF OpenPanel, SessionTypeOK, MessagesFit, FormsYield
<1>7. ASSUME NEW p \in AllPanels \cup {"restore"}, ClosePanel(p) PROVE SessionInv'
  <2>1. open' \cap Gates = open \cap Gates /\ open' \subseteq open /\ filters' \subseteq filters
    BY <1>7 DEF ClosePanel, Gates, AllPanels
  <2>2. Quietly
    BY <1>02, <1>7 DEF ClosePanel
  <2> QED BY <1>0, <1>7, <2>1, <2>2, QuietKept DEF ClosePanel, SessionTypeOK, MessagesFit, FormsYield
<1>8. Panels \subseteq AllPanels
  BY SessionAssumption
<1> QED BY <1>1, <1>2, <1>3, <1>4, <1>5, <1>6, <1>7, <1>8

LEMMA StartsKept ==
  ASSUME SessionInv, \/ \E o \in Planned : StartPlan(o)
                     \/ StartRestore \/ startEditRunner
                     \/ \E f \in Forms : OpenForm(f)
                     \/ FormDone \/ FormAbort
  PROVE  SessionInv'
<1>0. FlightFits /\ SessionTypeOK /\ MessagesFit /\ FormsYield
  BY InvFits DEF SessionInv
<1>01. /\ \A t \in MsgKinds \ {"op", "backups"} : Msg(t) \in Known \ {Msg("op")} /\ Msg(t) # Msg("backups")
       /\ Msg("backups") \in Known \ {Msg("op")}
       /\ \A o \in PlanOps \cap Planned : Plan(o) \in Known \ {Msg("op")} /\ Plan(o) # Msg("backups")
  BY PlainAnswers DEF MsgKinds
<1>02. UNCHANGED flight => Quietly
  BY <1>0, StillQuiet
<1>1. ASSUME NEW o \in Planned, StartPlan(o) PROVE SessionInv'
  <2>1. o \in PlanOps
    BY <1>1 DEF StartPlan, MayPlan, PlanOps
  <2>2. Quietly
    BY <1>0, <1>01, <1>1, <2>1, SendQuiet DEF StartPlan
  <2> QED BY <1>0, <1>1, <2>2, QuietKept DEF StartPlan, SessionTypeOK, MessagesFit, FormsYield
<1>2. ASSUME NEW t \in {"backups", "runnerGroups"}, NEW where, StartScan(t, where), t = "backups" => "restore" \in Direct
      PROVE SessionInv'
  <2>1. Quietly
    <3>1. Msg(t) \in Known \ {Msg("op")}
      BY <1>01 DEF MsgKinds
    <3>2. Msg(t) = Msg("backups") => "restore" \in Direct
      BY <1>2, PlainAnswers
    <3> QED BY <1>0, <1>2, <3>1, <3>2, SendQuiet DEF StartScan
  <2> QED BY <1>0, <1>2, <2>1, QuietKept DEF StartScan, SessionTypeOK, MessagesFit, FormsYield
<1>3. CASE StartRestore \/ startEditRunner
  BY <1>2, <1>3 DEF StartRestore, startEditRunner
<1>4. ASSUME NEW f \in Forms, OpenForm(f) PROVE SessionInv'
  <2>1. ~op.open
    BY <1>4, FocusTells DEF OpenForm, Playing, Keyed
  <2> QED BY <1>0, <1>02, <1>4, <2>1, QuietKept DEF OpenForm, SessionTypeOK, MessagesFit
<1>5. CASE FormDone
  <2>1. Quietly
    <3>1. CASE FormPlans(form) = {}
      <4>1. FormAnswer(form) \in {"saved", "reload", "action"}
        BY DEF FormAnswer
      <4> QED BY <1>0, <1>01, <1>5, <3>1, <4>1, SendQuiet DEF FormDone, MsgKinds
    <3>2. ASSUME NEW o \in FormPlans(form) \cap Planned, Send(Plan(o)) PROVE Quietly
      <4>1. o \in PlanOps
        BY DEF FormPlans, PlanOps
      <4> QED BY <1>0, <1>01, <3>2, <4>1, SendQuiet
    <3> QED BY <1>5, <3>1, <3>2 DEF FormDone
  <2> QED BY <1>0, <1>5, <2>1, QuietKept DEF FormDone, SessionTypeOK, MessagesFit
<1>6. CASE FormAbort
  BY <1>0, <1>02, <1>6, QuietKept DEF FormAbort, SessionTypeOK, MessagesFit
<1> QED BY <1>1, <1>3, <1>4, <1>5, <1>6

LEMMA AnswersKept ==
  ASSUME SessionInv, \/ \E m \in BagToSet(flight) : Swallow(m)
                     \/ \E t \in {"fleet", "load"} : OnLoaded(t)
                     \/ OnAction \/ OnReload \/ OnSaved \/ OnBackups \/ OnRunnerGroups
                     \/ OnMake \/ OnTick \/ Quit
  PROVE  SessionInv'
<1>0. FlightFits /\ SessionTypeOK /\ MessagesFit /\ FormsYield
  BY InvFits DEF SessionInv
<1>01. /\ Msg("load") \in Known \ {Msg("op"), Msg("backups")}
       /\ LoadOf(tab) \in Known \ {Msg("op"), Msg("backups")}
  BY <1>0, PlainAnswers DEF MsgKinds, SessionTypeOK
<1>02. UNCHANGED flight => Quietly
  BY <1>0, StillQuiet
<1>03. ASSUME NEW m, Arrives(m), Take(m) \/ Swap(m, LoadOf(tab)) \/ Swap(m, Msg("load")) PROVE Quietly
  BY <1>0, <1>01, <1>03, TakeQuiet, SwapQuiet DEF Arrives
<1>1. ASSUME NEW m, Swallow(m) PROVE SessionInv'
  <2>1. Quietly
    BY <1>03, <1>1 DEF Swallow
  <2> QED BY <1>0, <1>1, <2>1, QuietKept DEF Swallow, SessionTypeOK, MessagesFit, FormsYield
<1>2. ASSUME NEW t, OnLoaded(t) PROVE SessionInv'
  <2>1. Quietly
    BY <1>03, <1>2 DEF OnLoaded, Handled
  <2> QED BY <1>0, <1>2, <2>1, QuietKept DEF OnLoaded, SessionTypeOK, MessagesFit, FormsYield
<1>3. CASE OnAction
  <2>1. Quietly
    BY <1>03, <1>3 DEF OnAction, Handled
  <2> QED BY <1>0, <1>3, <2>1, QuietKept DEF OnAction, SessionTypeOK, MessagesFit, FormsYield
<1>4. CASE OnReload
  <2>1. Quietly
    BY <1>03, <1>4 DEF OnReload, Handled
  <2> QED BY <1>0, <1>4, <2>1, QuietKept DEF OnReload, SessionTypeOK, MessagesFit, FormsYield
<1>5. CASE OnSaved
  <2>1. Quietly
    BY <1>03, <1>5 DEF OnSaved, Handled
  <2>2. open' \cap Gates = open \cap Gates /\ open' \subseteq open \cup {"picker"} /\ "picker" \in AllPanels
    BY <1>5 DEF OnSaved, Gates, AllPanels
  <2> QED BY <1>0, <1>5, <2>1, <2>2, QuietKept DEF OnSaved, SessionTypeOK, MessagesFit, FormsYield
<1>6. CASE OnBackups
  <2>1. Quietly
    BY <1>03, <1>6 DEF OnBackups, Handled
  <2>2. open' \cap Gates = open \cap Gates /\ open' \subseteq open \cup {"restore"}
    BY <1>6 DEF OnBackups, Gates
  <2>3. "restore" \in Direct
    BY <1>0, <1>6 DEF OnBackups, Handled, Arrives, MessagesFit
  <2> QED BY <1>0, <1>6, <2>1, <2>2, <2>3, QuietKept DEF OnBackups, SessionTypeOK, FormsYield
<1>7. CASE OnRunnerGroups
  <2>1. Quietly
    BY <1>03, <1>7 DEF OnRunnerGroups, Handled
  <2> QED BY <1>0, <1>7, <2>1, QuietKept DEF OnRunnerGroups, SessionTypeOK, MessagesFit, FormsYield
<1>8. CASE OnMake
  <2>1. Quietly
    BY <1>02, <1>03, <1>8 DEF OnMake, Handled
  <2>2. make' \in [on : BOOLEAN, left : 0..Steps] /\ (make'.on => make.on)
    <3>1. Steps \in Nat /\ make \in [on : BOOLEAN, left : 0..Steps]
      BY <1>0, SessionAssumption DEF SessionTypeOK
    <3>2. CASE make.left > 0 /\ make' = [make EXCEPT !.left = @ - 1]
      BY <3>1, <3>2
    <3>3. CASE make' = [make EXCEPT !.on = FALSE]
      BY <3>1, <3>3
    <3> QED BY <1>8, <3>2, <3>3 DEF OnMake
  <2> QED BY <1>0, <1>8, <2>1, <2>2, QuietKept DEF OnMake, SessionTypeOK, MessagesFit, FormsYield
<1>9. CASE OnTick
  <2>1. Quietly
    <3>1. reloadCurrent => Quietly
      BY <1>0, <1>01, SendQuiet DEF reloadCurrent
    <3> QED BY <1>02, <1>9, <3>1 DEF OnTick
  <2>2. auto' \in [on : BOOLEAN, ticks : 0..MaxTicks] /\ loading' \in BOOLEAN
    <3>1. MaxTicks \in Nat /\ auto \in [on : BOOLEAN, ticks : 0..MaxTicks] /\ auto.ticks > 0
      BY <1>0, <1>9, SessionAssumption DEF OnTick, SessionTypeOK
    <3>2. auto' = auto \/ auto' = [auto EXCEPT !.ticks = @ - 1]
      BY <1>9 DEF OnTick
    <3>3. [auto EXCEPT !.ticks = @ - 1] \in [on : BOOLEAN, ticks : 0..MaxTicks]
      BY <3>1
    <3> QED BY <1>0, <1>9, <3>1, <3>2, <3>3 DEF OnTick, reloadCurrent, SessionTypeOK
  <2> QED BY <1>0, <1>9, <2>1, <2>2, QuietKept DEF OnTick, SessionTypeOK, MessagesFit, FormsYield
<1>10. CASE Quit
  BY <1>0, <1>02, <1>10, QuietKept DEF Quit, SessionTypeOK, MessagesFit, FormsYield
<1> QED BY <1>1, <1>2, <1>3, <1>4, <1>5, <1>6, <1>7, <1>8, <1>9, <1>10

-----------------------------------------------------------------------------
(* The gates.                                                              *)

GateRecs == [pend : Ops \cup {None}, t1 : BOOLEAN, t2 : BOOLEAN, prev : Ops \cup {None},
             want : Ops \cup {None}, asks : Ops \cup {None}, act : Ops \cup {None}, given : 0..2]

\* A gate opens or closes.
GateKept ==
  /\ Quietly /\ UNCHANGED <<op, make, form, tab, filters, loaded, auto, over>> /\ loading' \in BOOLEAN
  /\ open' \subseteq open \cup Gates /\ gate' \in GateRecs /\ dropped' \in Ops \cup {None}
  /\ GatesFit' /\ TokensAddUp' /\ PreviewIsPending' /\ DroppedRests'

LEMMA GateStep == ASSUME SessionInv, GateKept PROVE SessionInv'
<1>1. SessionTypeOK /\ MessagesFit /\ FormsYield /\ OneWorkerOneReader /\ TokensGiven
  BY DEF SessionInv
<1>2. SessionTypeOK'
  BY <1>1 DEF GateKept, GateRecs, SessionTypeOK, Quietly, FlightFits
<1>3. MessagesFit'
  BY <1>1 DEF GateKept, MessagesFit, Quietly, FlightFits, Gates
<1>4. OneWorkerOneReader'
  <2>1. IsABag(flight) /\ IsABag(flight')
    BY <1>1, <1>2 DEF SessionTypeOK
  <2>2. Copies(Msg("op"), flight) <= IF op.running THEN 1 ELSE 0
    BY <1>1, <2>1, ReadersByCopies DEF OneWorkerOneReader
  <2>3. Copies(Msg("op"), flight') <= Copies(Msg("op"), flight) /\ op' = op /\ make' = make
    BY DEF GateKept, Quietly
  <2>4. BagIn(Msg("op"), flight') => op'.running /\ flight'[Msg("op")] = 1
    BY <2>1, <2>2, <2>3 DEF Copies, IsABag, BagIn, BagToSet
  <2> QED BY <1>1, <2>3, <2>4 DEF OneWorkerOneReader
<1>5. FormsYield' /\ TokensGiven'
  BY <1>1 DEF GateKept, FormsYield, TokensGiven
<1> QED BY <1>2, <1>3, <1>4, <1>5 DEF GateKept, SessionInv

LEMMA PlansAreAlien ==
  /\ None \notin Ops /\ None \notin PlanOps /\ None \notin DirectOps /\ None \notin ModalOps
  /\ PlanOps \cap DirectOps = {} /\ ModalOps \cap DirectOps = {}
  /\ \A o \in ModalOps : Tokens(o) = 0
  /\ \A o : Tokens(o) \in 0..2
BY SessionAssumption DEF Ops, PlanOps, ModalOps, DirectOps, None, Tokens

LEMMA GateFields ==
  ASSUME gate \in GateRecs
  PROVE  /\ gate.pend \in Ops \cup {None} /\ gate.t1 \in BOOLEAN /\ gate.t2 \in BOOLEAN
         /\ gate.prev \in Ops \cup {None} /\ gate.want \in Ops \cup {None} /\ gate.asks \in Ops \cup {None}
         /\ gate.act \in Ops \cup {None} /\ gate.given \in 0..2
         /\ gate = [pend |-> gate.pend, t1 |-> gate.t1, t2 |-> gate.t2, prev |-> gate.prev, want |-> gate.want,
                    asks |-> gate.asks, act |-> gate.act, given |-> gate.given]
BY DEF GateRecs

LEMMA OpeningsKept ==
  ASSUME SessionInv, \/ \E o \in Confirmed : confirmOp(o)
                     \/ \E o \in Direct : AskDelete(o)
                     \/ PickArchive
                     \/ \E o \in Planned : OnPreview(o)
  PROVE  SessionInv'
<1>0. /\ FlightFits /\ SessionTypeOK /\ MessagesFit /\ GatesFit /\ TokensAddUp /\ PreviewIsPending /\ DroppedRests
      /\ gate \in GateRecs
  BY InvFits DEF SessionInv, SessionTypeOK, GateRecs
<1>02. UNCHANGED flight => Quietly
  BY <1>0, StillQuiet
<1>1. ASSUME NEW o \in Confirmed, confirmOp(o) PROVE SessionInv'
  <2>1. o \in ModalOps /\ o \in Ops
    BY <1>1 DEF confirmOp, MayConfirm, ModalOps, Ops
  <2>2. open \cap {"preview", "typed", "modal"} = {} /\ open' = open \cup {"modal"}
    BY <1>1, FocusTells DEF confirmOp, Playing, Keyed, Gates
  <2>3. gate' = [gate EXCEPT !.pend = o, !.asks = o, !.given = 0] /\ dropped' = Reasked(o)
    BY <1>1 DEF confirmOp
  <2>4. gate' \in GateRecs
    <3>1. gate' = [pend |-> o, t1 |-> gate.t1, t2 |-> gate.t2, prev |-> gate.prev, want |-> gate.want, asks |-> o,
                   act |-> gate.act, given |-> 0]
      BY <1>0, <2>3, GateFields
    <3>2. 0 \in 0..2
      OBVIOUS
    <3> QED BY <1>0, <2>1, <3>1, <3>2, GateFields DEF GateRecs
  <2>5. /\ gate'.pend = o /\ gate'.given = 0 /\ gate'.t1 = gate.t1 /\ gate'.t2 = gate.t2 /\ gate'.prev = gate.prev
        /\ gate'.want = gate.want /\ gate'.act = gate.act
    BY <1>0, <2>3 DEF GateRecs
  <2>6. ~gate.t1 /\ ~gate.t2
    BY <1>0, <2>2 DEF TokensAddUp
  <2>7. GatesFit' /\ PreviewIsPending'
    BY <1>0, <2>1, <2>2, <2>5 DEF GatesFit, PreviewIsPending
  <2>8. TokensAddUp'
    BY <2>1, <2>2, <2>5, <2>6, PlansAreAlien DEF TokensAddUp, Due, Count
  <2>9. dropped' \in Ops \cup {None} /\ DroppedRests'
    BY <1>0, <2>3, <2>5 DEF Reasked, DroppedRests, SessionTypeOK
  <2> QED BY <1>0, <1>02, <1>1, <2>2, <2>4, <2>7, <2>8, <2>9, GateStep DEF GateKept, confirmOp, SessionTypeOK, Gates
<1>2. ASSUME NEW o \in DirectOps, o \in Ops, gate' = [gate EXCEPT !.asks = o, !.act = o], dropped' = Reasked(o),
             open' \subseteq open \cup {"modal"}, {"preview", "typed"} \cap open \subseteq open',
             UNCHANGED <<tab, form, filters, op, make, loading, loaded, auto, flight, over>>
      PROVE  SessionInv'
  <2>1. gate' \in GateRecs
    BY <1>0, <1>2 DEF GateRecs
  <2>2. /\ gate'.pend = gate.pend /\ gate'.given = gate.given /\ gate'.t1 = gate.t1 /\ gate'.t2 = gate.t2
        /\ gate'.prev = gate.prev /\ gate'.want = gate.want /\ gate'.act = o
    BY <1>0, <1>2 DEF GateRecs
  <2>3. GatesFit' /\ PreviewIsPending'
    BY <1>0, <1>2, <2>2 DEF GatesFit, PreviewIsPending
  <2>4. TokensAddUp'
    BY <1>0, <1>2, <2>2 DEF TokensAddUp, Due
  <2>5. dropped' \in Ops \cup {None} /\ DroppedRests'
    BY <1>0, <1>2, <2>2 DEF Reasked, DroppedRests, SessionTypeOK
  <2> QED BY <1>0, <1>02, <1>2, <2>1, <2>3, <2>4, <2>5, GateStep DEF GateKept, SessionTypeOK, Gates
<1>3. ASSUME NEW o \in Direct, AskDelete(o) PROVE SessionInv'
  <2>1. o \in DirectOps /\ o \in Ops
    BY <1>3 DEF AskDelete, MayAsk, DirectOps, Ops
  <2> QED BY <1>2, <1>3, <2>1 DEF AskDelete
<1>4. CASE PickArchive
  <2>1. "restore" \in DirectOps /\ "restore" \in Ops
    BY <1>0, <1>4, FocusTells DEF PickArchive, Playing, Keyed, MessagesFit, DirectOps, Ops
  <2> QED BY <1>2, <1>4, <2>1 DEF PickArchive
<1>5. ASSUME NEW o \in Planned, OnPreview(o) PROVE SessionInv'
  <2>1. o \in PlanOps /\ o \in Ops
    <3>1. Plan(o) \in Known
      BY <1>0, <1>5 DEF OnPreview, Handled, Arrives, MessagesFit, BagIn
    <3>2. \A t \in MsgKinds : Plan(o) # Msg(t)
      BY PlainAnswers DEF MsgKinds
    <3> QED BY <3>1, <3>2, PlainAnswers DEF Known, Ops
  <2>2. Quietly /\ loading' = FALSE
    BY <1>0, <1>5, TakeQuiet DEF OnPreview, Handled, Arrives
  <2>3. CASE UNCHANGED <<open, gate, dropped>>
    BY <1>0, <1>5, <2>2, <2>3, QuietKept DEF OnPreview, SessionInv, SessionTypeOK, MessagesFit, FormsYield
  <2>4. CASE /\ open' = open \cup {"preview"}
             /\ gate' = [gate EXCEPT !.pend = o, !.prev = o, !.t1 = Tokens(o) > 0, !.t2 = Tokens(o) > 1, !.given = 0]
             /\ dropped' = Reasked(o)
    <3>1. gate' \in GateRecs
      <4>1. gate' = [pend |-> o, t1 |-> Tokens(o) > 0, t2 |-> Tokens(o) > 1, prev |-> o, want |-> gate.want,
                     asks |-> gate.asks, act |-> gate.act, given |-> 0]
        BY <1>0, <2>4, GateFields
      <4>2. (Tokens(o) > 0) \in BOOLEAN /\ (Tokens(o) > 1) \in BOOLEAN
        OBVIOUS
      <4>3. 0 \in 0..2
        OBVIOUS
      <4> QED BY <1>0, <2>1, <4>1, <4>2, <4>3, GateFields DEF GateRecs
    <3>2. /\ gate'.pend = o /\ gate'.given = 0 /\ gate'.t1 = (Tokens(o) > 0) /\ gate'.t2 = (Tokens(o) > 1)
          /\ gate'.prev = o /\ gate'.want = gate.want /\ gate'.act = gate.act
      BY <1>0, <2>4 DEF GateRecs
    <3>3. GatesFit' /\ PreviewIsPending'
      BY <1>0, <2>1, <3>2 DEF GatesFit, PreviewIsPending
    <3>4. TokensAddUp'
      <4>1. Tokens(o) \in 0..2 /\ o # None
        BY <2>1, PlansAreAlien
      <4>2. /\ Due' = Tokens(o) /\ (gate'.t2 => gate'.t1)
        <5>1. CASE Tokens(o) = 0
          <6>1. ~gate'.t1 /\ ~gate'.t2
            <7>1. (Tokens(o) > 0) = FALSE /\ (Tokens(o) > 1) = FALSE
              BY <5>1
            <7> QED BY <3>2, <7>1
          <6> QED BY <5>1, <6>1 DEF Due, Count
        <5>2. CASE Tokens(o) = 1
          <6>1. gate'.t1 /\ ~gate'.t2
            <7>1. (Tokens(o) > 0) = TRUE /\ (Tokens(o) > 1) = FALSE
              BY <5>2
            <7> QED BY <3>2, <7>1
          <6> QED BY <5>2, <6>1 DEF Due, Count
        <5>3. CASE Tokens(o) = 2
          <6>1. gate'.t1 /\ gate'.t2
            <7>1. (Tokens(o) > 0) = TRUE /\ (Tokens(o) > 1) = TRUE
              BY <5>3
            <7> QED BY <3>2, <7>1
          <6> QED BY <5>3, <6>1 DEF Due, Count
        <5> QED BY <4>1, <5>1, <5>2, <5>3
      <4> QED BY <1>0, <2>4, <3>2, <4>1, <4>2 DEF TokensAddUp
    <3>5. dropped' \in Ops \cup {None} /\ DroppedRests'
      BY <1>0, <2>4, <3>2 DEF Reasked, DroppedRests, SessionTypeOK
    <3> QED BY <1>5, <2>2, <2>4, <3>1, <3>3, <3>4, <3>5, GateStep DEF GateKept, OnPreview, Gates
  <2> QED BY <1>5, <2>3, <2>4 DEF OnPreview
<1> QED BY <1>1, <1>3, <1>4, <1>5

LEMMA CancelsKept ==
  ASSUME SessionInv, CancelPreview \/ CancelTyped \/ CancelModal
  PROVE  SessionInv'
<1>0. /\ FlightFits /\ SessionTypeOK /\ MessagesFit /\ GatesFit /\ TokensAddUp /\ PreviewIsPending /\ DroppedRests
      /\ gate \in GateRecs
  BY InvFits DEF SessionInv, SessionTypeOK, GateRecs
<1>02. UNCHANGED flight => Quietly
  BY <1>0, StillQuiet
<1>1. CASE CancelPreview
  <2>1. gate' = [gate EXCEPT !.pend = None, !.t1 = FALSE, !.t2 = FALSE, !.given = 0, !.prev = None]
    BY <1>0, <1>1 DEF CancelPreview, Cancelled, GateRecs
  <2>2. gate' \in GateRecs
    <3>1. gate' = [pend |-> None, t1 |-> FALSE, t2 |-> FALSE, prev |-> None, want |-> gate.want, asks |-> gate.asks,
                   act |-> gate.act, given |-> 0]
      BY <1>0, <2>1, GateFields
    <3>2. 0 \in 0..2
      OBVIOUS
    <3> QED BY <1>0, <3>1, <3>2, GateFields DEF GateRecs
  <2>3. /\ gate'.pend = None /\ gate'.given = 0 /\ ~gate'.t1 /\ ~gate'.t2 /\ gate'.prev = None
        /\ gate'.want = gate.want /\ gate'.act = gate.act
    BY <1>0, <2>1 DEF GateRecs
  <2>4. open' = open \ {"preview"} /\ dropped' = gate.prev
    BY <1>1 DEF CancelPreview
  <2>5. GatesFit' /\ PreviewIsPending' /\ TokensAddUp'
    BY <1>0, <2>3, <2>4 DEF GatesFit, PreviewIsPending, TokensAddUp, Due, Count
  <2>6. dropped' \in Ops \cup {None} /\ DroppedRests'
    BY <1>0, <2>3, <2>4, PlansAreAlien DEF GatesFit, DroppedRests, SessionTypeOK
  <2> QED BY <1>0, <1>02, <1>1, <2>2, <2>4, <2>5, <2>6, GateStep DEF GateKept, CancelPreview, SessionTypeOK
<1>2. CASE CancelTyped
  <2>1. gate' = [gate EXCEPT !.pend = None, !.t1 = FALSE, !.t2 = FALSE, !.given = 0, !.want = None]
    BY <1>0, <1>2 DEF CancelTyped, Cancelled, GateRecs
  <2>2. gate' \in GateRecs
    <3>1. gate' = [pend |-> None, t1 |-> FALSE, t2 |-> FALSE, prev |-> gate.prev, want |-> None, asks |-> gate.asks,
                   act |-> gate.act, given |-> 0]
      BY <1>0, <2>1, GateFields
    <3>2. 0 \in 0..2
      OBVIOUS
    <3> QED BY <1>0, <3>1, <3>2, GateFields DEF GateRecs
  <2>3. /\ gate'.pend = None /\ gate'.given = 0 /\ ~gate'.t1 /\ ~gate'.t2 /\ gate'.prev = gate.prev
        /\ gate'.want = None /\ gate'.act = gate.act
    BY <1>0, <2>1 DEF GateRecs
  <2>4. open' = open \ {"typed"} /\ dropped' = gate.want /\ "preview" \notin open
    BY <1>2, FocusTells DEF CancelTyped, Playing, Keyed
  <2>5. GatesFit' /\ PreviewIsPending' /\ TokensAddUp'
    BY <1>0, <2>3, <2>4 DEF GatesFit, PreviewIsPending, TokensAddUp, Due, Count
  <2>6. dropped' \in Ops \cup {None} /\ DroppedRests'
    BY <1>0, <2>3, <2>4, PlansAreAlien DEF GatesFit, DroppedRests, SessionTypeOK
  <2> QED BY <1>0, <1>02, <1>2, <2>2, <2>4, <2>5, <2>6, GateStep DEF GateKept, CancelTyped, SessionTypeOK
<1>3. CASE CancelModal
  <2>1. gate' = [gate EXCEPT !.pend = None, !.act = None, !.asks = None]
    BY <1>3 DEF CancelModal
  <2>2. gate' \in GateRecs
    BY <1>0, <2>1 DEF GateRecs
  <2>3. /\ gate'.pend = None /\ gate'.given = gate.given /\ gate'.t1 = gate.t1 /\ gate'.t2 = gate.t2
        /\ gate'.prev = gate.prev /\ gate'.want = gate.want /\ gate'.act = None
    BY <1>0, <2>1 DEF GateRecs
  <2>4. open' = open \ {"modal"} /\ dropped' = gate.asks /\ "preview" \notin open /\ "typed" \notin open
    BY <1>3, FocusTells DEF CancelModal, Playing, Keyed
  <2>5. GatesFit' /\ PreviewIsPending' /\ TokensAddUp'
    BY <1>0, <2>3, <2>4 DEF GatesFit, PreviewIsPending, TokensAddUp, Due, Count
  <2>6. dropped' \in Ops \cup {None} /\ DroppedRests'
    BY <1>0, <2>3, <2>4 DEF DroppedRests, GateRecs
  <2> QED BY <1>0, <1>02, <1>3, <2>2, <2>4, <2>5, <2>6, GateStep DEF GateKept, CancelModal, SessionTypeOK
<1> QED BY <1>1, <1>2, <1>3

-----------------------------------------------------------------------------
(* The operation.                                                          *)

\* An operation runs with the tokens it needs, once no plan covers its gate.
LEMMA RunKept ==
  ASSUME SessionInv, Keyed("modal") \/ Keyed("typed") \/ Keyed("preview"), NEW g \in GateRecs, NEW left \in SUBSET open,
         "preview" \notin left, runPendingOp(g, left), g.pend # None => g.given >= Tokens(g.pend),
         g.pend \in PlanOps \cup ModalOps \cup {None}, g.prev \in PlanOps \cup {None}, g.act = gate.act,
         g.pend \in {gate.pend, None},
         UNCHANGED <<tab, form, filters, make, loaded, auto, dropped>>, loading' \in BOOLEAN
  PROVE  SessionInv'
<1>0. /\ FlightFits /\ SessionTypeOK /\ MessagesFit /\ GatesFit /\ TokensAddUp /\ DroppedRests /\ FormsYield
      /\ OneWorkerOneReader /\ ~op.open /\ ~op.running /\ ~make.on /\ form = None /\ IsABag(flight)
  BY InvFits DEF SessionInv, SessionTypeOK, FormsYield, Keyed
<1>1. CASE g.pend = None
  <2>1. Quietly
    BY <1>0, <1>1, StillQuiet DEF runPendingOp
  <2> QED BY <1>0, <1>1, <2>1, QuietKept DEF runPendingOp, SessionTypeOK, MessagesFit, FormsYield
<1>2. CASE g.pend # None
  <2>1. /\ open' = left \ {"modal", "typed"} /\ Send(Msg("op")) /\ over' = over
        /\ gate' = [g EXCEPT !.pend = None, !.t1 = FALSE, !.t2 = FALSE, !.given = 0, !.want = None, !.asks = None]
        /\ op' = [open |-> TRUE, running |-> TRUE, what |-> g.pend, left |-> Steps, given |-> g.given]
    BY <1>2 DEF runPendingOp
  <2>2. /\ gate' = [pend |-> None, t1 |-> FALSE, t2 |-> FALSE, prev |-> g.prev, want |-> None, asks |-> None,
                    act |-> g.act, given |-> 0]
        /\ g.prev \in Ops \cup {None} /\ g.act \in Ops \cup {None} /\ g.pend \in Ops \cup {None} /\ g.given \in 0..2
    BY <2>1 DEF GateRecs
  <2>3. gate' \in GateRecs
    <3>1. 0 \in 0..2
      OBVIOUS
    <3> QED BY <2>2, <3>1 DEF GateRecs
  <2>4. op' \in [open : BOOLEAN, running : BOOLEAN, what : Ops \cup {None}, left : 0..Steps, given : 0..2]
    <3>1. Steps \in 0..Steps
      BY SessionAssumption
    <3> QED BY <2>1, <2>2, <3>1
  <2>5. /\ IsABag(flight') /\ BagToSet(flight') \subseteq Known
        /\ BagIn(Msg("backups"), flight') => "restore" \in Direct
        /\ Copies(Msg("op"), flight') = Copies(Msg("op"), flight) + 1
    BY <1>0, <2>1, SendAdds, PlainAnswers DEF MessagesFit, BagIn, MsgKinds
  <2>6. SessionTypeOK'
    BY <1>0, <2>1, <2>3, <2>4, <2>5 DEF SessionTypeOK, GateRecs
  <2>7. MessagesFit'
    BY <1>0, <2>1, <2>5 DEF MessagesFit
  <2>8. GatesFit'
    BY <1>0, <2>2 DEF GatesFit
  <2>9. TokensAddUp' /\ PreviewIsPending'
    BY <2>1, <2>2 DEF TokensAddUp, PreviewIsPending, Due, Count
  <2>10. FormsYield' /\ TokensGiven'
    BY <1>0, <1>2, <2>1 DEF FormsYield, TokensGiven
  <2>11. OneWorkerOneReader'
    <3>1. Copies(Msg("op"), flight) = 0
      BY <1>0 DEF OneWorkerOneReader, Copies
    <3>2. op'.running /\ make' = make
      BY <2>1
    <3> QED BY <1>0, <2>5, <3>1, <3>2 DEF OneWorkerOneReader, Copies
  <2>12. DroppedRests'
    BY <1>0, <2>2 DEF DroppedRests
  <2> QED BY <2>6, <2>7, <2>8, <2>9, <2>10, <2>11, <2>12 DEF SessionInv
<1> QED BY <1>1, <1>2

LEMMA AppliesKept ==
  ASSUME SessionInv, applyPreview \/ TypedMatch \/ runConfirmed
  PROVE  SessionInv'
<1>0. /\ FlightFits /\ SessionTypeOK /\ MessagesFit /\ GatesFit /\ TokensAddUp /\ PreviewIsPending /\ DroppedRests
      /\ gate \in GateRecs
  BY InvFits DEF SessionInv, SessionTypeOK, GateRecs
<1>02. UNCHANGED flight => Quietly
  BY <1>0, StillQuiet
<1>1. CASE applyPreview
  <2> DEFINE left == open \ {"preview"}
             g    == [gate EXCEPT !.prev = None]
  <2>1. Keyed("preview") /\ "preview" \in open /\ gate.pend = gate.prev
    BY <1>0, <1>1, FocusTells DEF applyPreview, Playing, Keyed, PreviewIsPending
  <2>2. CASE gate.t1
    <3>1. /\ open' = left \cup {"typed"} /\ gate' = [gate EXCEPT !.want = gate.pend, !.prev = None]
          /\ UNCHANGED <<op, flight, over>>
      BY <1>1, <2>2 DEF applyPreview
    <3>2. gate' \in GateRecs
      BY <1>0, <3>1 DEF GateRecs
    <3>3. /\ gate'.pend = gate.pend /\ gate'.given = gate.given /\ gate'.t1 = gate.t1 /\ gate'.t2 = gate.t2
          /\ gate'.prev = None /\ gate'.want = gate.pend /\ gate'.act = gate.act
      BY <1>0, <3>1 DEF GateRecs
    <3>4. GatesFit' /\ PreviewIsPending' /\ TokensAddUp' /\ DroppedRests' /\ dropped' \in Ops \cup {None}
      BY <1>0, <1>1, <2>1, <2>2, <3>1, <3>3
         DEF GatesFit, PreviewIsPending, TokensAddUp, Due, DroppedRests, applyPreview, SessionTypeOK
    <3> QED BY <1>0, <1>02, <1>1, <3>1, <3>2, <3>4, GateStep DEF GateKept, applyPreview, SessionTypeOK, Gates
  <2>3. CASE ~gate.t1
    <3>1. /\ g.pend = gate.pend /\ g.given = gate.given /\ g.prev = None /\ g.act = gate.act /\ g \in GateRecs
      BY <1>0 DEF GateRecs
    <3>2. ~gate.t2
      BY <1>0, <2>3 DEF TokensAddUp
    <3>3. Due = 0 /\ gate.given \in 0..2
      BY <1>0, <2>3, <3>2 DEF Due, Count, GateRecs
    <3>4. g.pend # None => g.given >= Tokens(g.pend)
      BY <1>0, <3>1, <3>3 DEF TokensAddUp
    <3>5. runPendingOp(g, left) /\ UNCHANGED <<tab, form, filters, make, loading, loaded, auto, dropped>>
      BY <1>1, <2>3 DEF applyPreview
    <3>6. loading' \in BOOLEAN /\ g.pend \in PlanOps \cup ModalOps \cup {None}
      BY <1>0, <3>1, <3>5 DEF SessionTypeOK, GatesFit
    <3> HIDE DEF g
    <3> QED BY <2>1, <3>1, <3>4, <3>5, <3>6, RunKept
  <2> QED BY <2>2, <2>3
<1>2. CASE TypedMatch
  <2> DEFINE g == [gate EXCEPT !.given = IF gate.want = gate.pend THEN @ + 1 ELSE @]
  <2>1. Keyed("typed") /\ "typed" \in open /\ "preview" \notin open
    BY <1>2, FocusTells DEF TypedMatch, Playing, Keyed
  <2>2. gate.want # None /\ (gate.pend # None => gate.want = gate.pend /\ gate.t1)
    BY <1>0, <2>1 DEF TokensAddUp
  <2>3. /\ gate.given \in 0..2 /\ gate.t1 \in BOOLEAN /\ gate.t2 \in BOOLEAN
    BY <1>0 DEF GateRecs
  <2>4. gate.pend # None => gate.given + 1 \in 0..2
    BY <1>0, <2>2, <2>3 DEF TokensAddUp, Due, Count
  <2>5. /\ g.pend = gate.pend /\ g.prev = gate.prev /\ g.want = gate.want /\ g.act = gate.act /\ g.t1 = gate.t1
        /\ g.t2 = gate.t2 /\ g.given = IF gate.want = gate.pend THEN gate.given + 1 ELSE gate.given
    BY <1>0 DEF GateRecs
  <2>6. g.given \in 0..2 /\ (gate.pend # None => g.given = gate.given + 1)
    BY <2>2, <2>3, <2>4, <2>5
  <2>7. g \in GateRecs
    <3>1. g = [gate EXCEPT !.given = g.given]
      BY <1>0, <2>5 DEF GateRecs
    <3> HIDE DEF g
    <3> QED BY <1>0, <2>6, <3>1 DEF GateRecs
  <2>8. CASE gate.t2
    <3>1. gate' = [g EXCEPT !.t2 = FALSE] /\ UNCHANGED <<open, op, flight, over>>
      BY <1>2, <2>8 DEF TypedMatch
    <3>2. gate' \in GateRecs /\ gate'.t2 = FALSE /\ gate'.t1 = gate.t1 /\ gate'.given = g.given /\ gate'.pend = gate.pend
          /\ gate'.prev = gate.prev /\ gate'.want = gate.want /\ gate'.act = gate.act
      <4> HIDE DEF g
      <4> QED BY <2>5, <2>7, <3>1 DEF GateRecs
    <3>3. gate.pend # None /\ gate.t1
      BY <1>0, <2>8 DEF TokensAddUp
    <3>4. Due = 2 /\ Due' = 1 /\ gate'.given = gate.given + 1
      <4> HIDE DEF g
      <4> QED BY <2>6, <2>8, <3>2, <3>3 DEF Due, Count
    <3>5. gate'.given + Due' = gate.given + Due
      BY <2>3, <3>4
    <3>6. TokensAddUp'
      BY <1>0, <2>1, <3>1, <3>2, <3>3, <3>5 DEF TokensAddUp
    <3>7. GatesFit' /\ PreviewIsPending' /\ DroppedRests' /\ dropped' \in Ops \cup {None}
      BY <1>0, <1>2, <2>1, <3>1, <3>2 DEF GatesFit, PreviewIsPending, DroppedRests, TypedMatch, SessionTypeOK
    <3> QED BY <1>0, <1>02, <1>2, <3>1, <3>2, <3>6, <3>7, GateStep DEF GateKept, TypedMatch, SessionTypeOK
  <2>9. CASE ~gate.t2
    <3>1. runPendingOp(g, open) /\ UNCHANGED <<tab, form, filters, make, loading, loaded, auto, dropped>>
      BY <1>2, <2>9 DEF TypedMatch
    <3>2. g.pend # None => g.given >= Tokens(g.pend)
      <4> SUFFICES ASSUME gate.pend # None PROVE g.given >= Tokens(gate.pend)
        BY <2>5
      <4>1. Due = 1
        BY <2>2, <2>9 DEF Due, Count
      <4> HIDE DEF g
      <4> QED BY <1>0, <2>3, <2>6, <4>1 DEF TokensAddUp
    <3>3. loading' \in BOOLEAN /\ g.pend \in PlanOps \cup ModalOps \cup {None} /\ g.prev \in PlanOps \cup {None}
      BY <1>0, <2>5, <3>1 DEF SessionTypeOK, GatesFit
    <3> HIDE DEF g
    <3> QED BY <2>1, <2>5, <2>7, <3>1, <3>2, <3>3, RunKept
  <2> QED BY <2>8, <2>9
<1>3. CASE runConfirmed
  <2> DEFINE left == open \ {"modal"}
  <2>1. Keyed("modal") /\ "modal" \in open /\ "preview" \notin open /\ "typed" \notin open
    BY <1>3, FocusTells DEF runConfirmed, Playing, Keyed
  <2>2. ~gate.t1 /\ ~gate.t2
    BY <1>0, <2>1 DEF TokensAddUp
  <2>3. CASE gate.pend # None
    <3>1. runPendingOp(gate, left) /\ UNCHANGED <<tab, form, filters, make, loading, loaded, auto, dropped>>
      BY <1>3, <2>3 DEF runConfirmed
    <3>2. Due = 0 /\ gate.given \in 0..2
      BY <1>0, <2>2 DEF Due, Count, GateRecs
    <3>3. gate.given >= Tokens(gate.pend)
      BY <1>0, <2>3, <3>2 DEF TokensAddUp
    <3>4. loading' \in BOOLEAN /\ gate.pend \in PlanOps \cup ModalOps \cup {None} /\ gate.prev \in PlanOps \cup {None}
      BY <1>0, <3>1 DEF SessionTypeOK, GatesFit
    <3> QED BY <1>0, <2>1, <3>1, <3>3, <3>4, RunKept
  <2>4. CASE gate.pend = None
    <3>1. /\ open' = left /\ gate' = [gate EXCEPT !.act = None, !.asks = None] /\ UNCHANGED <<op, over>>
          /\ UNCHANGED <<tab, form, filters, make, loaded, auto, dropped>>
          /\ \/ UNCHANGED <<loading, flight>>
             \/ loading' = TRUE /\ (Send(Msg("reload")) \/ Send(Msg("action")))
      BY <1>3, <2>4 DEF runConfirmed
    <3>2. Quietly
      <4>1. {Msg("reload"), Msg("action")} \subseteq Known \ {Msg("op"), Msg("backups")}
        BY PlainAnswers DEF MsgKinds
      <4> QED BY <1>0, <1>02, <3>1, <4>1, SendQuiet
    <3>3. gate' \in GateRecs
      BY <1>0, <3>1 DEF GateRecs
    <3>4. /\ gate'.pend = gate.pend /\ gate'.given = gate.given /\ gate'.t1 = gate.t1 /\ gate'.t2 = gate.t2
          /\ gate'.prev = gate.prev /\ gate'.want = gate.want /\ gate'.act = None
      BY <1>0, <3>1 DEF GateRecs
    <3>5. GatesFit' /\ PreviewIsPending' /\ TokensAddUp' /\ DroppedRests' /\ dropped' \in Ops \cup {None}
      BY <1>0, <2>1, <2>2, <2>4, <3>1, <3>4 DEF GatesFit, PreviewIsPending, TokensAddUp, Due, DroppedRests, SessionTypeOK
    <3> QED BY <1>0, <3>1, <3>2, <3>3, <3>5, GateStep DEF GateKept, SessionTypeOK
  <2> QED BY <2>3, <2>4
<1> QED BY <1>1, <1>2, <1>3

\* What the operation's own steps leave: an operation that only goes on.
LEMMA StreamsKept ==
  ASSUME SessionInv, CreateDone \/ DismissOp \/ OnOp
  PROVE  SessionInv'
<1>0. /\ FlightFits /\ SessionTypeOK /\ MessagesFit /\ GatesFit /\ TokensAddUp /\ PreviewIsPending /\ DroppedRests
      /\ FormsYield /\ OneWorkerOneReader /\ TokensGiven /\ IsABag(flight)
      /\ op \in [open : BOOLEAN, running : BOOLEAN, what : Ops \cup {None}, left : 0..Steps, given : 0..2]
  BY InvFits DEF SessionInv, SessionTypeOK
<1>1. CASE CreateDone
  <2>1. ~op.open
    BY <1>0, <1>1 DEF CreateDone, FormsYield, None
  <2>2. Quietly
    BY <1>0, <1>1, PlainAnswers, SendQuiet DEF CreateDone, MsgKinds
  <2>3. make' \in [on : BOOLEAN, left : 0..Steps]
    BY <1>1, SessionAssumption DEF CreateDone
  <2>4. SessionTypeOK'
    BY <1>0, <1>1, <2>2, <2>3 DEF SessionTypeOK, CreateDone, Quietly, FlightFits
  <2>5. OneWorkerOneReader'
    <3>1. Copies(Msg("op"), flight') <= Copies(Msg("op"), flight) /\ IsABag(flight') /\ ~op.running
      BY <1>0, <2>1, <2>2 DEF Quietly, FlightFits, FormsYield
    <3>2. Copies(Msg("op"), flight) = 0
      BY <1>0, <3>1 DEF OneWorkerOneReader, Copies
    <3>3. ~BagIn(Msg("op"), flight')
      BY <3>1, <3>2 DEF Copies, IsABag, BagIn, BagToSet
    <3> QED BY <1>1, <2>1, <3>3 DEF OneWorkerOneReader, CreateDone
  <2> QED BY <1>0, <1>1, <2>2, <2>4, <2>5 DEF CreateDone, SessionInv, MessagesFit, Quietly, FlightFits, GatesFit, TokensAddUp, Due,
             PreviewIsPending, FormsYield, TokensGiven, DroppedRests
<1>2. CASE DismissOp
  <2>1. op' = IdleOp /\ ~op.running /\ Quietly /\ loading' = TRUE
    <3>1. LoadOf(tab) \in Known \ {Msg("op"), Msg("backups")}
      BY <1>0, PlainAnswers DEF MsgKinds, SessionTypeOK
    <3> QED BY <1>0, <1>2, <3>1, SendQuiet DEF DismissOp, reloadCurrent
  <2>2. op' \in [open : BOOLEAN, running : BOOLEAN, what : Ops \cup {None}, left : 0..Steps, given : 0..2]
    <3>1. 0 \in 0..Steps /\ 0 \in 0..2
      BY SessionAssumption
    <3> QED BY <2>1, <3>1 DEF IdleOp
  <2>3. SessionTypeOK'
    BY <1>0, <1>2, <2>1, <2>2 DEF SessionTypeOK, DismissOp, Quietly, FlightFits
  <2>4. OneWorkerOneReader'
    <3>1. Copies(Msg("op"), flight') <= Copies(Msg("op"), flight) /\ IsABag(flight')
      BY <2>1 DEF Quietly, FlightFits
    <3>2. Copies(Msg("op"), flight) = 0
      BY <1>0, <2>1 DEF OneWorkerOneReader, Copies
    <3>3. ~BagIn(Msg("op"), flight')
      BY <3>1, <3>2 DEF Copies, IsABag, BagIn, BagToSet
    <3> QED BY <2>1, <3>3 DEF OneWorkerOneReader, IdleOp
  <2> QED BY <1>0, <1>2, <2>1, <2>3, <2>4 DEF DismissOp, SessionInv, MessagesFit, Quietly, FlightFits, GatesFit, TokensAddUp, Due,
             PreviewIsPending, FormsYield, TokensGiven, DroppedRests, IdleOp
<1>3. CASE OnOp
  <2>1. BagIn(Msg("op"), flight) /\ op.running /\ flight[Msg("op")] = 1
    BY <1>0, <1>3 DEF OnOp, Handled, Arrives, OneWorkerOneReader
  <2>2. CASE op.left > 0 /\ op' = [op EXCEPT !.left = @ - 1] /\ UNCHANGED flight
    <3>1. /\ op' \in [open : BOOLEAN, running : BOOLEAN, what : Ops \cup {None}, left : 0..Steps, given : 0..2]
          /\ op'.open = op.open /\ op'.running = op.running /\ op'.what = op.what /\ op'.given = op.given
      BY <1>0, <2>2, SessionAssumption
    <3> QED BY <1>0, <1>3, <2>2, <3>1 DEF OnOp, SessionInv, SessionTypeOK, MessagesFit, GatesFit, TokensAddUp, Due,
               PreviewIsPending, FormsYield, OneWorkerOneReader, TokensGiven, DroppedRests
  <2>3. CASE op' = [op EXCEPT !.running = FALSE] /\ Take(Msg("op"))
    <3>1. /\ op' \in [open : BOOLEAN, running : BOOLEAN, what : Ops \cup {None}, left : 0..Steps, given : 0..2]
          /\ op'.open = op.open /\ op'.running = FALSE /\ op'.what = op.what /\ op'.given = op.given
      BY <1>0, <2>3
    <3>2. FlightFits'
      BY <1>0, <2>1, <2>3, TakeQuiet DEF Quietly
    <3>3. ~BagIn(Msg("op"), flight')
      <4>1. Copies(Msg("op"), flight') = Copies(Msg("op"), flight) - 1 /\ IsABag(flight')
        BY <1>0, <2>1, <2>3, TakeRemoves
      <4> QED BY <2>1, <4>1 DEF Copies, IsABag, BagIn, BagToSet
    <3> QED BY <1>0, <1>3, <2>3, <3>1, <3>2, <3>3 DEF OnOp, SessionInv, SessionTypeOK, FlightFits, MessagesFit, GatesFit,
               TokensAddUp, Due, PreviewIsPending, FormsYield, OneWorkerOneReader, TokensGiven, DroppedRests
  <2> QED BY <1>3, <2>2, <2>3 DEF OnOp
<1> QED BY <1>1, <1>2, <1>3

LEMMA StepsKept == SessionInv /\ [SessionNext]_sessionVars => SessionInv'
<1> SUFFICES ASSUME SessionInv, [SessionNext]_sessionVars PROVE SessionInv'
  OBVIOUS
<1>1. CASE UNCHANGED sessionVars
  BY <1>1 DEF sessionVars, SessionInv, SessionTypeOK, MessagesFit, GatesFit, TokensAddUp, Due, PreviewIsPending, FormsYield,
     OneWorkerOneReader, TokensGiven, DroppedRests
<1>2. CASE Keys
  BY <1>2, TabsKept, StartsKept, AnswersKept, OpeningsKept, CancelsKept, AppliesKept, StreamsKept DEF Keys
<1>3. CASE Answers
  BY <1>3, AnswersKept, OpeningsKept, StreamsKept DEF Answers
<1> QED BY <1>1, <1>2, <1>3 DEF SessionNext

LEMMA SessionInvHolds == SessionSpec => []SessionInv
BY InitInv, StepsKept, PTL DEF SessionSpec

\* The gates and the streams of a session agree with each other, for any tabs, operations,
\* forms, panels, answers in flight and events (onKey, previewMsg, startOp).
THEOREM SessionStaysSafe == SessionSpec => []SessionSafe
<1>1. SessionInv => SessionSafe
  BY DEF SessionInv, SessionSafe
<1> QED BY <1>1, SessionInvHolds, PTL

\* An operation begins only as what is pending, and then nothing replaces it.
LEMMA OperationsBegin ==
  ASSUME SessionInv, SessionNext
  PROVE  /\ ~op.open /\ op'.open => gate.pend # None /\ op'.what = gate.pend
         /\ op.running /\ op'.open => op'.what = op.what /\ op'.left <= op.left
<1>0. /\ FormsYield /\ gate \in GateRecs
      /\ op \in [open : BOOLEAN, running : BOOLEAN, what : Ops \cup {None}, left : 0..Steps, given : 0..2]
      /\ op.left \in Nat
  BY SessionAssumption DEF SessionInv, SessionTypeOK, GateRecs
<1>1. CASE applyPreview \/ TypedMatch \/ runConfirmed
  <2>1. ~op.open /\ ~op.running
    BY <1>0, <1>1, FocusTells DEF applyPreview, TypedMatch, runConfirmed, Playing, Keyed, FormsYield
  <2>2. ASSUME NEW g, NEW left, runPendingOp(g, left), g.pend = gate.pend
        PROVE  op'.open => gate.pend # None /\ op'.what = gate.pend
    BY <2>1, <2>2 DEF runPendingOp
  <2>3. op' = op => ~op'.open
    BY <2>1
  <2>4. CASE applyPreview
    <3>1. [gate EXCEPT !.prev = None].pend = gate.pend
      BY <1>0 DEF GateRecs
    <3> QED BY <2>1, <2>2, <2>3, <2>4, <3>1 DEF applyPreview
  <2>5. CASE TypedMatch
    <3> DEFINE g == [gate EXCEPT !.given = IF gate.want = gate.pend THEN @ + 1 ELSE @]
    <3>1. g.pend = gate.pend
      BY <1>0 DEF GateRecs
    <3>2. op' = op \/ runPendingOp(g, open)
      BY <2>5 DEF TypedMatch
    <3> HIDE DEF g
    <3> QED BY <2>1, <2>2, <2>3, <3>1, <3>2
  <2>6. CASE runConfirmed
    BY <2>1, <2>2, <2>3, <2>6 DEF runConfirmed
  <2> QED BY <1>1, <2>1, <2>4, <2>5, <2>6
<1>2. CASE OnOp
  <2>1. \/ op' = [op EXCEPT !.left = @ - 1]
        \/ op' = [op EXCEPT !.running = FALSE]
    BY <1>2 DEF OnOp
  <2> QED BY <1>0, <2>1
<1>3. CASE DismissOp
  BY <1>3 DEF DismissOp, IdleOp
<1>4. CASE UNCHANGED op
  BY <1>0, <1>4
<1>5. applyPreview \/ TypedMatch \/ runConfirmed \/ OnOp \/ DismissOp \/ UNCHANGED op
  BY DEF SessionNext, Keys, Answers, SwitchTab, Refresh, toggleAuto, orgFilterApply, SavePicker, OpenPanel, ClosePanel,
     StartPlan, confirmOp, AskDelete, StartRestore, startEditRunner, StartScan, OpenForm, FormDone, CreateDone, FormAbort,
     CancelPreview, CancelTyped, CancelModal, PickArchive, Quit, Swallow, OnLoaded, OnAction, OnReload, OnSaved, OnBackups,
     OnRunnerGroups, OnPreview, OnMake, OnTick
<1> QED BY <1>1, <1>2, <1>3, <1>4, <1>5

\* While an operation runs no key but that of its own panel reaches the session, and no
\* handler drops the command that waits for its next event.
LEMMA ReaderStays ==
  ASSUME SessionInv, SessionNext, op'.running, op.running => BagIn(Msg("op"), flight), form # "runnerEdit"
  PROVE  BagIn(Msg("op"), flight')
<1>0. /\ FormsYield /\ OneWorkerOneReader /\ IsABag(flight)
      /\ op \in [open : BOOLEAN, running : BOOLEAN, what : Ops \cup {None}, left : 0..Steps, given : 0..2]
  BY DEF SessionInv, SessionTypeOK
<1>1. CASE ~op.running
  <2>1. ASSUME NEW g, NEW left, runPendingOp(g, left) PROVE BagIn(Msg("op"), flight')
    <3>1. Send(Msg("op"))
      BY <1>1, <2>1 DEF runPendingOp
    <3>2. Copies(Msg("op"), flight') = Copies(Msg("op"), flight) + 1 /\ Copies(Msg("op"), flight) \in Nat
      BY <1>0, <3>1, SendAdds DEF Copies, IsABag, BagIn, BagToSet
    <3> QED BY <3>2 DEF Copies
  <2>2. CASE applyPreview \/ TypedMatch \/ runConfirmed
    BY <1>1, <2>1, <2>2 DEF applyPreview, TypedMatch, runConfirmed
  <2>3. OnOp \/ DismissOp => ~op'.running
    BY <1>0, <1>1 DEF OnOp, DismissOp, IdleOp
  <2>4. applyPreview \/ TypedMatch \/ runConfirmed \/ OnOp \/ DismissOp \/ UNCHANGED op
    BY DEF SessionNext, Keys, Answers, SwitchTab, Refresh, toggleAuto, orgFilterApply, SavePicker, OpenPanel, ClosePanel,
       StartPlan, confirmOp, AskDelete, StartRestore, startEditRunner, StartScan, OpenForm, FormDone, CreateDone, FormAbort,
       CancelPreview, CancelTyped, CancelModal, PickArchive, Quit, Swallow, OnLoaded, OnAction, OnReload, OnSaved, OnBackups,
       OnRunnerGroups, OnPreview, OnMake, OnTick
  <2> QED BY <1>1, <2>2, <2>3, <2>4
<1>2. CASE op.running
  <2>1. op.open /\ form = None /\ ~make.on /\ Focus = "op" /\ BagIn(Msg("op"), flight)
    BY <1>0, <1>2 DEF FormsYield, OneWorkerOneReader, Focus
  <2>2. ASSUME NEW m, m # Msg("op"), Arrives(m), Take(m) \/ \E n : Swap(m, n) PROVE BagIn(Msg("op"), flight')
    <3>1. Copies(Msg("op"), flight') >= Copies(Msg("op"), flight) /\ Copies(Msg("op"), flight) > 0
          /\ Copies(Msg("op"), flight) \in Nat /\ Copies(Msg("op"), flight') \in Nat
      <4>1. Copies(Msg("op"), flight) \in Nat /\ Copies(Msg("op"), flight) > 0
        BY <1>0, <2>1 DEF Copies, IsABag, BagIn, BagToSet
      <4>2. CASE Take(m)
        BY <1>0, <2>2, <4>1, <4>2, TakeRemoves DEF Arrives
      <4>3. CASE \E n : Swap(m, n)
        <5>1. PICK n : Swap(m, n)
          BY <4>3
        <5>2. Copies(Msg("op"), flight') = Copies(Msg("op"), flight) - 0 + (IF Msg("op") = n THEN 1 ELSE 0)
          BY <1>0, <2>2, <5>1, SwapReplaces DEF Arrives
        <5> QED BY <4>1, <5>2
      <4> QED BY <2>2, <4>2, <4>3
    <3> QED BY <3>1 DEF Copies
  <2>3. ASSUME NEW m, Send(m) PROVE BagIn(Msg("op"), flight')
    <3>1. Copies(Msg("op"), flight') = Copies(Msg("op"), flight) + (IF Msg("op") = m THEN 1 ELSE 0)
      BY <1>0, <2>3, SendAdds
    <3>2. Copies(Msg("op"), flight) \in Nat /\ Copies(Msg("op"), flight) > 0
      BY <1>0, <2>1 DEF Copies, IsABag, BagIn, BagToSet
    <3> QED BY <3>1, <3>2 DEF Copies
  <2>4. CASE UNCHANGED flight
    BY <2>1, <2>4 DEF BagIn, BagToSet
  <2>5. ASSUME Keys PROVE UNCHANGED flight
    <3>1. \A f : Playing(f) => f = "op"
      BY <2>1 DEF Playing
    <3>2. \A p \in Panels \cup {"restore"} : p # "op"
      BY SessionAssumption DEF AllPanels
    <3>3. ~(\E p \in Panels : OpenPanel(p) \/ ClosePanel(p)) /\ ~ClosePanel("restore")
      BY <3>1, <3>2 DEF OpenPanel, ClosePanel
    <3>4. ~\/ \E t \in Tabs : SwitchTab(t)
           \/ Refresh \/ toggleAuto \/ orgFilterApply \/ SavePicker
           \/ \E o \in Planned : StartPlan(o)
           \/ \E o \in Confirmed : confirmOp(o)
           \/ \E o \in Direct : AskDelete(o)
      BY <2>1, <3>1 DEF SwitchTab, Refresh, toggleAuto, orgFilterApply, SavePicker, StartPlan, confirmOp, AskDelete
    <3>5. ~\/ StartRestore \/ startEditRunner
           \/ \E f \in Forms : OpenForm(f)
           \/ FormDone \/ CreateDone \/ FormAbort
      BY <2>1, <3>1 DEF StartRestore, startEditRunner, StartScan, OpenForm, FormDone, CreateDone, FormAbort
    <3>6. ~\/ applyPreview \/ CancelPreview \/ TypedMatch \/ CancelTyped
           \/ runConfirmed \/ CancelModal \/ PickArchive
      BY <3>1 DEF applyPreview, CancelPreview, TypedMatch, CancelTyped, runConfirmed, CancelModal, PickArchive
    <3> QED BY <1>2, <2>5, <3>3, <3>4, <3>5, <3>6 DEF Keys, DismissOp, Quit
  <2>6. CASE OnOp
    BY <1>0, <2>4, <2>6 DEF OnOp
  <2>7. CASE \E m \in BagToSet(flight) : Swallow(m)
    BY <2>1, <2>7 DEF Swallow
  <2>8. \A t \in MsgKinds \cup {"preview"} : t # "op" => Msg(t) # Msg("op")
    BY DEF Msg
  <2>9. CASE OnAction \/ OnReload \/ OnSaved \/ OnBackups \/ OnRunnerGroups
    BY <2>2, <2>8, <2>9 DEF OnAction, OnReload, OnSaved, OnBackups, OnRunnerGroups, Handled, MsgKinds
  <2>10. ASSUME NEW t \in {"fleet", "load"}, OnLoaded(t) PROVE BagIn(Msg("op"), flight')
    BY <2>2, <2>8, <2>10 DEF OnLoaded, Handled, MsgKinds
  <2>11. ASSUME NEW o, OnPreview(o) PROVE BagIn(Msg("op"), flight')
    BY <2>2, <2>11, PlainAnswers DEF OnPreview, Handled
  <2>12. CASE OnMake
    BY <2>2, <2>4, <2>8, <2>12 DEF OnMake, Handled, MsgKinds
  <2>13. CASE OnTick
    BY <2>3, <2>4, <2>13 DEF OnTick, reloadCurrent
  <2> QED BY <2>4, <2>5, <2>6, <2>7, <2>9, <2>10, <2>11, <2>12, <2>13 DEF SessionNext, Answers
<1> QED BY <1>1, <1>2

\* Only what was asked for runs, and once it runs it stays and is heard of, for any tabs, operations,
\* forms, panels, answers in flight and events (onKey, runConfirmed).
THEOREM SessionRunsAsAsked == SessionSpec => RunsAsAsked
<1>1. SessionInv /\ [SessionNext]_sessionVars => [\A o \in Ops : Runs(o) => o # dropped]_sessionVars
  <2> SUFFICES ASSUME SessionInv, SessionNext, NEW o \in Ops, Runs(o) PROVE o # dropped
    BY DEF sessionVars
  <2>1. DroppedRests /\ o # None
    BY PlansAreAlien DEF SessionInv
  <2> QED BY <2>1, OperationsBegin DEF Runs, DroppedRests
<1>2. SessionInv /\ [SessionNext]_sessionVars
        => [op.running /\ op'.open => op'.what = op.what /\ op'.left <= op.left]_sessionVars
  BY OperationsBegin DEF sessionVars
<1>3. SessionInv /\ [SessionNext]_sessionVars
        => [op'.running /\ (op.running => BagIn(Msg("op"), flight))
              => BagIn(Msg("op"), flight') \/ form = "runnerEdit"]_sessionVars
  BY ReaderStays DEF sessionVars
<1> QED BY <1>1, <1>2, <1>3, SessionInvHolds, PTL
       DEF SessionSpec, RunsAsAsked, CancelledNeverRuns, RunningIsKept, EventsAreRead

\* Auto-refresh that is on keeps a tick to come but for a form, so it goes on for ever in a
\* session without forms, however often it is toggled (toggleAuto, autoTickMsg).
THEOREM RefreshStaysArmed == SessionSpec => AutoStaysArmed /\ ([](form = None) => []TickToCome)
<1>1. SessionInit => TickToCome
  BY DEF SessionInit, TickToCome
<1>2. SessionInv /\ [SessionNext]_sessionVars => [TickToCome => TickToCome' \/ form # None]_sessionVars
  <2> SUFFICES ASSUME SessionInv, TickToCome, form = None, SessionNext PROVE TickToCome'
    BY DEF sessionVars
  <2> USE DEF TickToCome
  <2>0. auto \in [on : BOOLEAN, ticks : 0..MaxTicks]
    BY DEF SessionInv, SessionTypeOK
  <2>1. CASE UNCHANGED auto
    BY <2>1
  <2>2. CASE toggleAuto
    BY <2>0, <2>2 DEF toggleAuto
  <2>3. CASE OnTick
    BY <2>0, <2>3 DEF OnTick
  <2>4. toggleAuto \/ OnTick \/ UNCHANGED auto
    BY DEF SessionNext, Keys, Answers, SwitchTab, Refresh, orgFilterApply, SavePicker, OpenPanel, ClosePanel,
       StartPlan, confirmOp, AskDelete, StartRestore, startEditRunner, StartScan, OpenForm, FormDone, CreateDone, FormAbort,
       applyPreview, CancelPreview, TypedMatch, CancelTyped, runConfirmed, CancelModal, PickArchive, DismissOp, Quit,
       Swallow, OnLoaded, OnAction, OnReload, OnSaved, OnBackups, OnRunnerGroups, OnPreview, OnOp, OnMake
  <2> QED BY <2>1, <2>2, <2>3, <2>4
<1>3. TickToCome /\ form = None /\ [TickToCome => TickToCome' \/ form # None]_sessionVars => TickToCome'
  BY DEF TickToCome, sessionVars
<1> QED BY <1>1, <1>2, <1>3, SessionInvHolds, PTL DEF SessionSpec, AutoStaysArmed

-----------------------------------------------------------------------------
(* The manager's configuration, its clients and its locks.                 *)

USE DEF At, Goto, Done, Forget, taskVars, editorVars, scopeVars

-----------------------------------------------------------------------------
(* Types *)

\* TypeOK without its two Boolean histories, which need a prover of their own.
DataOK ==
  /\ mem \in Configs /\ file \in Configs
  /\ sec \in 0..MaxEdits
  /\ client \in ((0..MaxEdits) \X (0..MaxEdits)) \cup {NoClient}
  /\ dryMu \in Tasks \cup {NoTask} /\ mu \in Tasks \cup {NoTask}
  /\ prev \in [Tasks -> BOOLEAN]
  /\ copy \in [Tasks -> Configs]
  /\ kind \in [Tasks -> Kinds \cup {"none"}]
  /\ pc   \in [Tasks -> Pcs]
  /\ edit \in [Tasks -> 0..MaxEdits]
  /\ host \in SUBSET Artifacts
  /\ edits \in 0..MaxEdits /\ faults \in 0..MaxFaults

HistoryOK == mixed \in BOOLEAN /\ unsaved \in BOOLEAN

LEMMA Parts == TypeOK <=> DataOK /\ HistoryOK
  BY DEF TypeOK, DataOK, HistoryOK

LEMMA HistoryStep == HistoryOK /\ [Next]_vars => HistoryOK'
<1> SUFFICES ASSUME HistoryOK, [Next]_vars PROVE HistoryOK'
  OBVIOUS
<1> USE DEF HistoryOK
<1>1. CASE ListRunners \/ Reinstall BY <1>1 DEF ListRunners, Reinstall
<1>2. ASSUME NEW t \in Tasks, Begin(t) PROVE HistoryOK' BY <1>2 DEF Begin
<1>3. ASSUME NEW t \in Tasks, ScopeStep(t) \/ DestroyRunner(t) \/ DeleteRunner(t) PROVE HistoryOK'
  BY <1>3 DEF ScopeStep, Lock, Gate, DrainGate, Teardown, Deregister, PurgeBase, Unlock,
              DestroyRunner, DeleteRunner
<1>4. ASSUME NEW t \in Tasks, EditorStep(t) PROVE HistoryOK'
  BY <1>4 DEF EditorStep, Fails, Marshal, SaveFails, WriteFile, CopyConfig, SwapConfig, StoreOrgKey,
              ExtractBackup, Load, Reload
<1>5. CASE UNCHANGED vars BY <1>5 DEF vars
<1> QED BY <1>1, <1>2, <1>3, <1>4, <1>5 DEF Next, TaskStep

LEMMA FailsEffect ==
  ASSUME DataOK, NEW t \in Tasks, Fails(t)
  PROVE  faults' \in 0..MaxFaults /\ Done(t)
<1>1. faults < MaxFaults /\ faults' = faults + 1 /\ Done(t)
  BY Zenon DEF Fails
<1> QED BY <1>1, ConfigConstants DEF DataOK

LEMMA DataStep == DataOK /\ [Next]_vars => DataOK'
<1> SUFFICES ASSUME DataOK, [Next]_vars PROVE DataOK'
  OBVIOUS
<1> USE ConfigConstants DEF DataOK, Configs, First, Pcs, ScopePcs, Artifacts
<1>1. CASE Reinstall BY <1>1 DEF Reinstall
<1>7. CASE ListRunners BY <1>7 DEF ListRunners, UsesClient
<1>2. ASSUME NEW t \in Tasks, Begin(t) PROVE DataOK'
  <2> PICK k \in Kinds : /\ kind' = [kind EXCEPT ![t] = k]
                         /\ pc' = [pc EXCEPT ![t] = FirstStep(k)]
                         /\ IF k = "onboard"
                            THEN edits < MaxEdits /\ edits' = edits + 1 /\ edit' = [edit EXCEPT ![t] = edits']
                            ELSE UNCHANGED <<edits, edit>>
    BY <1>2 DEF Begin
  <2>1. FirstStep(k) \in Pcs BY DEF FirstStep, Scopes, Editors
  <2>2. edits' \in 0..MaxEdits /\ edit' \in [Tasks -> 0..MaxEdits] OBVIOUS
  <2> QED BY <1>2, <2>1, <2>2 DEF Begin
<1>3. ASSUME NEW t \in Tasks, ScopeStep(t) PROVE DataOK'
  <2>1. CASE Lock(t) BY <2>1 DEF Lock
  <2>2. CASE Gate(t) BY <2>2 DEF Gate
  <2>3. CASE DrainGate(t) BY <2>3 DEF DrainGate, UsesClient
  <2>4. CASE Teardown(t) BY <2>4 DEF Teardown
  <2>5. CASE Deregister(t) BY <2>5 DEF Deregister, UsesClient
  <2>6. CASE PurgeBase(t) BY <2>6 DEF PurgeBase
  <2>7. CASE Unlock(t) BY <2>7 DEF Unlock
  <2> QED BY <1>3, <2>1, <2>2, <2>3, <2>4, <2>5, <2>6, <2>7 DEF ScopeStep
<1>4. ASSUME NEW t \in Tasks, DestroyRunner(t) \/ DeleteRunner(t) PROVE DataOK'
  <2>1. CASE DestroyRunner(t)
    <3>1. /\ Done(t) \/ Goto(t, "commandDelete")
          /\ host' \in {host, host \ {"runner"}}
          /\ UNCHANGED <<mem, client, mu, dryMu, prev, editorVars, taskVars>>
      BY <2>1, Zenon DEF DestroyRunner
    <3>2. host' \in SUBSET Artifacts BY <3>1
    <3>3. CASE Done(t) BY <3>1, <3>2, <3>3
    <3>4. CASE Goto(t, "commandDelete") BY <3>1, <3>2, <3>4
    <3> QED BY <3>1, <3>3, <3>4
  <2>2. CASE DeleteRunner(t)
    <3>1. client' \in ((0..MaxEdits) \X (0..MaxEdits)) \cup {NoClient} BY <2>2 DEF DeleteRunner, UsesClient
    <3> QED BY <2>2, <3>1 DEF DeleteRunner
  <2> QED BY <1>4, <2>1, <2>2
<1>5. ASSUME NEW t \in Tasks, EditorStep(t) PROVE DataOK'
  <2>1. CASE Marshal(t) BY <2>1 DEF Marshal
  <2>2. CASE SaveFails(t)
    <3>1. faults' \in 0..MaxFaults /\ Done(t) BY <2>2, FailsEffect DEF SaveFails
    <3>2. UNCHANGED <<mem, file, sec, client, mu, copy, scopeVars, taskVars>> BY <2>2 DEF SaveFails
    <3> QED BY <3>1, <3>2
  <2>3. CASE WriteFile(t)
    <3>1. copy' \in [Tasks -> Configs] /\ file' \in Configs BY <2>3 DEF WriteFile
    <3>2. /\ pc' \in [Tasks -> Pcs]
          /\ kind' \in [Tasks -> Kinds \cup {"none"}]
          /\ edit' \in [Tasks -> 0..MaxEdits]
      <4>1. CASE Done(t) BY <4>1
      <4>2. CASE Goto(t, "copy") \/ Goto(t, "load") BY <4>2
      <4> QED BY <2>3, <4>1, <4>2 DEF WriteFile
    <3> QED BY <2>3, <3>1, <3>2 DEF WriteFile
  <2>4. CASE CopyConfig(t)
    <3>1. [mem EXCEPT !.creds = edit[t]] \in Configs OBVIOUS
    <3>2. copy' \in [Tasks -> Configs]
      <4>1. (IF kind[t] = "onboard" THEN [mem EXCEPT !.creds = edit[t]] ELSE mem) \in Configs
        BY <3>1
      <4> QED BY <2>4, <4>1 DEF CopyConfig
    <3> QED BY <2>4, <3>2 DEF CopyConfig
  <2>5. CASE SwapConfig(t) BY <2>5 DEF SwapConfig
  <2>6. CASE StoreOrgKey(t)
    <3>1. UNCHANGED <<mem, file, mu, copy, scopeVars, taskVars>> BY <2>6 DEF StoreOrgKey
    <3>2. CASE sec' = edit[t] /\ client' = NoClient /\ Goto(t, "save") /\ UNCHANGED faults
      BY <3>1, <3>2
    <3>3. CASE Fails(t) /\ UNCHANGED <<sec, client>>
      <4>1. faults' \in 0..MaxFaults /\ Done(t) BY <3>3, FailsEffect
      <4>2. UNCHANGED <<sec, client>> BY <3>3
      <4> QED BY <3>1, <4>1, <4>2
    <3> QED BY <2>6, <3>2, <3>3 DEF StoreOrgKey
  <2>7. CASE ExtractBackup(t)
    <3>1. UNCHANGED <<mem, sec, client, mu, copy, scopeVars, taskVars>> BY <2>7 DEF ExtractBackup
    <3>2. CASE Goto(t, "load") /\ file' = First /\ UNCHANGED faults
      BY <3>1, <3>2
    <3>3. CASE Fails(t) /\ file' \in {file, First}
      <4>1. faults' \in 0..MaxFaults /\ Done(t) BY <3>3, FailsEffect
      <4>2. First \in Configs OBVIOUS
      <4>3. file' \in Configs BY <3>3, <4>2
      <4> QED BY <3>1, <4>1, <4>3
    <3> QED BY <2>7, <3>2, <3>3 DEF ExtractBackup
  <2>8. CASE Load(t)
    <3>1. UNCHANGED <<mem, file, sec, client, mu, scopeVars, taskVars>> BY <2>8 DEF Load
    <3>2. CASE Goto(t, "reload") /\ copy' = [copy EXCEPT ![t] = file] /\ UNCHANGED faults
      BY <3>1, <3>2
    <3>3. CASE Fails(t) /\ UNCHANGED copy
      <4>1. faults' \in 0..MaxFaults /\ Done(t) BY <3>3, FailsEffect
      <4> QED BY <3>1, <3>3, <4>1
    <3> QED BY <2>8, <3>2, <3>3 DEF Load
  <2>9. CASE Reload(t) BY <2>9 DEF Reload
  <2> QED BY <1>5, <2>1, <2>2, <2>3, <2>4, <2>5, <2>6, <2>7, <2>8, <2>9 DEF EditorStep
<1>6. CASE UNCHANGED vars BY <1>6 DEF vars
<1> QED BY <1>1, <1>2, <1>3, <1>4, <1>5, <1>6, <1>7 DEF Next, TaskStep

\* Every variable keeps its type, whatever operations overlap.
THEOREM TypeCorrect == Spec => []TypeOK
<1>1. Init => DataOK
  BY ConfigConstants DEF Init, DataOK, Configs, First, Pcs, Artifacts
<1>2. Init => HistoryOK BY DEF Init, HistoryOK
<1>3. TypeOK /\ [Next]_vars => TypeOK'
  <2>1. TypeOK' <=> DataOK' /\ HistoryOK' BY DEF TypeOK, DataOK, HistoryOK
  <2> QED BY <2>1, Parts, DataStep, HistoryStep
<1>4. Init => TypeOK BY <1>1, <1>2, Parts
<1> QED BY <1>3, <1>4, PTL DEF Spec

-----------------------------------------------------------------------------
(* The dry-run flag *)

EditorPcs == {"saveCaps", "writeCaps", "copy", "swap", "storeKey", "save", "write",
              "extract", "load", "reload"}

\* A task is at the steps of its own operation.
KindsFit ==
  \A t \in Tasks :
    /\ pc[t] \in ScopePcs \cup {"lock"} => kind[t] \in Scopes
    /\ pc[t] \in EditorPcs => kind[t] \in Editors

\* The history variable mixed tells the truth about what runs now.
ApartUnlessMixed ==
  \A t, u \in Tasks : kind[t] \in Scopes /\ kind[u] \in Editors => mixed

\* dryMu is held exactly while a task is inside withDryRun.
LockHeld == \A t \in Tasks : pc[t] \in ScopePcs <=> dryMu = t

\* While nothing has mixed, no copy of the config anywhere has the flag set,
\* and the current config has it set exactly inside a preview.
FlagAtRest ==
  /\ ~file.dry
  /\ \A t \in Tasks : ~copy[t].dry /\ ~prev[t]
  /\ dryMu = NoTask => ~mem.dry
  /\ \A t \in Tasks : pc[t] \in ScopePcs => mem.dry = (kind[t] = "preview")

FlagInv == KindsFit /\ ApartUnlessMixed /\ LockHeld /\ (~mixed => FlagAtRest)

LEMMA KindsStep == TypeOK /\ KindsFit /\ [Next]_vars => KindsFit'
<1> SUFFICES ASSUME TypeOK, KindsFit, [Next]_vars PROVE KindsFit'
  OBVIOUS
<1> USE DEF KindsFit, TypeOK, EditorPcs, ScopePcs
<1>1. ASSUME NEW t \in Tasks, Begin(t) PROVE KindsFit'
  <2> PICK k \in Kinds : kind' = [kind EXCEPT ![t] = k] /\ pc' = [pc EXCEPT ![t] = FirstStep(k)]
    BY <1>1 DEF Begin
  <2>1. k \in Scopes \/ k \in Editors \/ k = "destroy" BY ConfigConstants
  <2>2. k \in Scopes => FirstStep(k) = "lock" BY DEF FirstStep, Scopes
  <2>3. k \in Editors => FirstStep(k) \in EditorPcs BY DEF FirstStep, Scopes, Editors
  <2>4. k = "destroy" => FirstStep(k) = "command" BY DEF FirstStep, Scopes
  <2>5. FirstStep(k) \in ScopePcs \cup {"lock"} => k \in Scopes BY <2>1, <2>3, <2>4
  <2>6. FirstStep(k) \in EditorPcs => k \in Editors BY <2>1, <2>2, <2>4
  <2> QED BY <2>5, <2>6
<1>2. ASSUME NEW t \in Tasks, ScopeStep(t) PROVE KindsFit'
  BY <1>2 DEF ScopeStep, Lock, Gate, DrainGate, Teardown, Deregister, PurgeBase, Unlock
<1>3. ASSUME NEW t \in Tasks, DestroyRunner(t) \/ DeleteRunner(t) PROVE KindsFit'
  BY <1>3 DEF DestroyRunner, DeleteRunner
<1>4. ASSUME NEW t \in Tasks, EditorStep(t) PROVE KindsFit'
  BY <1>4 DEF EditorStep, Fails, Marshal, SaveFails, WriteFile, CopyConfig, SwapConfig, StoreOrgKey,
              ExtractBackup, Load, Reload
<1>5. CASE ListRunners \/ Reinstall BY <1>5 DEF ListRunners, Reinstall
<1>6. CASE UNCHANGED vars BY <1>6 DEF vars
<1> QED BY <1>1, <1>2, <1>3, <1>4, <1>5, <1>6 DEF Next, TaskStep

LEMMA LockStep == TypeOK /\ LockHeld /\ [Next]_vars => LockHeld'
<1> SUFFICES ASSUME TypeOK, LockHeld, [Next]_vars PROVE LockHeld'
  OBVIOUS
<1> USE ConfigConstants DEF LockHeld, TypeOK, ScopePcs
<1>1. ASSUME NEW t \in Tasks, Begin(t) PROVE LockHeld'
  <2> PICK k \in Kinds : pc' = [pc EXCEPT ![t] = FirstStep(k)]
    BY <1>1 DEF Begin
  <2>1. FirstStep(k) \notin ScopePcs BY DEF FirstStep, Scopes, Editors
  <2> QED BY <1>1, <2>1 DEF Begin
<1>2. ASSUME NEW t \in Tasks, ScopeStep(t) PROVE LockHeld'
  <2>1. CASE Lock(t) BY <2>1 DEF Lock
  <2>2. CASE Unlock(t) BY <2>2 DEF Unlock
  <2>3. CASE Gate(t) \/ DrainGate(t) \/ Teardown(t) \/ Deregister(t) \/ PurgeBase(t)
    BY <2>3 DEF Gate, DrainGate, Teardown, Deregister, PurgeBase
  <2> QED BY <1>2, <2>1, <2>2, <2>3 DEF ScopeStep
<1>3. ASSUME NEW t \in Tasks, DestroyRunner(t) \/ DeleteRunner(t) PROVE LockHeld'
  BY <1>3 DEF DestroyRunner, DeleteRunner
<1>4. ASSUME NEW t \in Tasks, EditorStep(t) PROVE LockHeld'
  BY <1>4 DEF EditorStep, Fails, Marshal, SaveFails, WriteFile, CopyConfig, SwapConfig, StoreOrgKey,
              ExtractBackup, Load, Reload
<1>5. CASE ListRunners \/ Reinstall BY <1>5 DEF ListRunners, Reinstall
<1>6. CASE UNCHANGED vars BY <1>6 DEF vars
<1> QED BY <1>1, <1>2, <1>3, <1>4, <1>5, <1>6 DEF Next, TaskStep

LEMMA ApartStep == TypeOK /\ ApartUnlessMixed /\ [Next]_vars => ApartUnlessMixed'
<1> SUFFICES ASSUME TypeOK, ApartUnlessMixed, [Next]_vars PROVE ApartUnlessMixed'
  OBVIOUS
<1> USE DEF ApartUnlessMixed, Scopes, Editors
<1>0. kind \in [Tasks -> Kinds \cup {"none"}] BY DEF TypeOK
<1>1. ASSUME NEW t \in Tasks, Begin(t) PROVE ApartUnlessMixed'
  <2> PICK k \in Kinds :
        /\ kind' = [kind EXCEPT ![t] = k]
        /\ mixed' = (mixed \/ \E u \in Tasks \ {t} :
                        \/ k \in Scopes  /\ kind[u] \in Editors
                        \/ k \in Editors /\ kind[u] \in Scopes)
    BY <1>1 DEF Begin
  <2> SUFFICES ASSUME NEW v \in Tasks, NEW w \in Tasks, kind'[v] \in Scopes, kind'[w] \in Editors
               PROVE  mixed'
    OBVIOUS
  <2>1. v # w OBVIOUS
  <2>2. CASE v = t BY <1>0, <2>1, <2>2
  <2>3. CASE w = t BY <1>0, <2>1, <2>3
  <2>4. CASE v # t /\ w # t BY <1>0, <2>4
  <2> QED BY <2>2, <2>3, <2>4
<1>2. ASSUME NEW t \in Tasks, TaskStep(t) PROVE ApartUnlessMixed'
  <2>1. kind' \in {kind, [kind EXCEPT ![t] = "none"]} /\ mixed' = mixed
    BY <1>2 DEF TaskStep, ScopeStep, Lock, Gate, DrainGate, Teardown, Deregister, PurgeBase, Unlock,
                DestroyRunner, DeleteRunner, EditorStep, Fails, Marshal, SaveFails, WriteFile,
                CopyConfig, SwapConfig, StoreOrgKey, ExtractBackup, Load, Reload
  <2>2. \A v \in Tasks : kind'[v] \in Scopes \cup Editors => kind'[v] = kind[v]
    BY <1>0, <2>1
  <2> QED BY <2>1, <2>2
<1>3. CASE ListRunners \/ Reinstall BY <1>3 DEF ListRunners, Reinstall
<1>4. CASE UNCHANGED vars BY <1>4 DEF vars
<1> QED BY <1>1, <1>2, <1>3, <1>4 DEF Next

\* While nothing has mixed, an editor runs with no task inside withDryRun.
LEMMA EditorAlone ==
  ASSUME TypeOK, FlagInv, ~mixed, NEW t \in Tasks, pc[t] \in EditorPcs
  PROVE  /\ \A u \in Tasks : pc[u] \notin ScopePcs
         /\ dryMu = NoTask
         /\ ~mem.dry
<1>1. kind[t] \in Editors BY DEF FlagInv, KindsFit
<1>2. \A u \in Tasks : pc[u] \notin ScopePcs BY <1>1 DEF FlagInv, KindsFit, ApartUnlessMixed
<1>3. dryMu = NoTask BY <1>2 DEF FlagInv, LockHeld, TypeOK
<1> QED BY <1>2, <1>3 DEF FlagInv, FlagAtRest

\* An editor only ever copies configs around, and changes no flag.
LEMMA EditorEffect ==
  ASSUME TypeOK, NEW t \in Tasks, EditorStep(t)
  PROVE  /\ pc[t] \in EditorPcs
         /\ mem' \in {mem, copy[t]}
         /\ file' \in {file, copy[t], First}
         /\ \A u \in Tasks : copy'[u].dry \in {copy[u].dry, mem.dry, file.dry, FALSE}
         /\ UNCHANGED <<dryMu, prev, mixed>>
         /\ \A u \in Tasks : pc'[u] \in ScopePcs => pc[u] \in ScopePcs
<1> DEFINE NewCopy == \A u \in Tasks : copy'[u].dry \in {copy[u].dry, mem.dry, file.dry, FALSE}
<1>1. copy \in [Tasks -> Configs] /\ pc \in [Tasks -> Pcs] BY DEF TypeOK
<1>2. copy' = copy => NewCopy OBVIOUS
<1>3. First.dry = FALSE BY DEF First
<1>4. mem \in [creds : 0..MaxEdits, dry : BOOLEAN] BY DEF TypeOK, Configs
<1>5. \A n : [mem EXCEPT !.creds = n].dry = mem.dry BY <1>4
<1>6. CASE Marshal(t)
  <2>1. NewCopy BY <1>1, <1>6 DEF Marshal
  <2> QED BY <1>1, <1>6, <2>1 DEF Marshal, EditorPcs, ScopePcs
<1>7. CASE SaveFails(t)
  <2>1. NewCopy BY <1>2, <1>7 DEF SaveFails
  <2> QED BY <1>1, <1>7, <2>1 DEF SaveFails, Fails, EditorPcs, ScopePcs
<1>8. CASE WriteFile(t)
  <2>1. NewCopy BY <1>1, <1>3, <1>8 DEF WriteFile
  <2> QED BY <1>1, <1>8, <2>1 DEF WriteFile, EditorPcs, ScopePcs
<1>9. CASE CopyConfig(t)
  <2>1. NewCopy
    <3>1. CASE kind[t] = "onboard" BY <1>1, <1>5, <1>9, <3>1 DEF CopyConfig
    <3>2. CASE kind[t] # "onboard" BY <1>1, <1>9, <3>2 DEF CopyConfig
    <3> QED BY <3>1, <3>2
  <2> QED BY <1>1, <1>9, <2>1 DEF CopyConfig, EditorPcs, ScopePcs
<1>10. CASE SwapConfig(t)
  <2>1. NewCopy BY <1>1, <1>3, <1>10 DEF SwapConfig
  <2> QED BY <1>1, <1>10, <2>1 DEF SwapConfig, EditorPcs, ScopePcs
<1>11. CASE StoreOrgKey(t)
  <2>1. NewCopy BY <1>2, <1>11 DEF StoreOrgKey
  <2> QED BY <1>1, <1>11, <2>1 DEF StoreOrgKey, Fails, EditorPcs, ScopePcs
<1>12. CASE ExtractBackup(t)
  <2>1. NewCopy BY <1>2, <1>12 DEF ExtractBackup
  <2> QED BY <1>1, <1>12, <2>1 DEF ExtractBackup, Fails, EditorPcs, ScopePcs
<1>13. CASE Load(t)
  <2>1. ASSUME copy' = [copy EXCEPT ![t] = file] PROVE NewCopy BY <1>1, <2>1
  <2>2. NewCopy BY <1>2, <1>13, <2>1 DEF Load
  <2>3. mem' = mem /\ file' = file /\ UNCHANGED <<dryMu, prev, mixed>>
    BY <1>13 DEF Load, scopeVars, taskVars
  <2> QED BY <1>1, <1>13, <2>2, <2>3 DEF Load, Fails, Done, Goto, EditorPcs, ScopePcs
<1>14. CASE Reload(t)
  <2>1. NewCopy BY <1>1, <1>3, <1>14 DEF Reload
  <2> QED BY <1>1, <1>14, <2>1 DEF Reload, EditorPcs, ScopePcs
<1> QED BY <1>6, <1>7, <1>8, <1>9, <1>10, <1>11, <1>12, <1>13, <1>14 DEF EditorStep

LEMMA RestStep == TypeOK /\ FlagInv /\ [Next]_vars /\ ~mixed' => FlagAtRest'
<1> SUFFICES ASSUME TypeOK, FlagInv, [Next]_vars, ~mixed' PROVE FlagAtRest'
  OBVIOUS
<1>0. ConfigConstants /\ LockHeld /\ KindsFit BY ConfigConstants DEF FlagInv
<1>1. ASSUME NEW t \in Tasks, Begin(t) PROVE FlagAtRest'
  <2> PICK k \in Kinds : pc' = [pc EXCEPT ![t] = FirstStep(k)] /\ kind' = [kind EXCEPT ![t] = k]
    BY <1>1 DEF Begin
  <2>1. ~mixed BY <1>1 DEF Begin
  <2>2. FirstStep(k) \notin ScopePcs BY <1>0 DEF FirstStep, Scopes, Editors, ScopePcs, ConfigConstants
  <2>3. \A u \in Tasks : pc'[u] \in ScopePcs => pc[u] \in ScopePcs /\ kind'[u] = kind[u]
    BY <2>2 DEF TypeOK
  <2>4. UNCHANGED <<mem, file, copy, prev, dryMu>> BY <1>1 DEF Begin
  <2> QED BY <2>1, <2>3, <2>4 DEF FlagInv, FlagAtRest
<1>2. ASSUME NEW t \in Tasks, ScopeStep(t) PROVE FlagAtRest'
  <2>0. ~mixed /\ UNCHANGED <<file, copy>>
    BY <1>2 DEF ScopeStep, Lock, Gate, DrainGate, Teardown, Deregister, PurgeBase, Unlock
  <2>1. FlagAtRest BY <2>0 DEF FlagInv
  <2>2. \A b : [mem EXCEPT !.dry = b].dry = b BY DEF TypeOK, Configs
  <2>3. CASE Lock(t)
    <3>1. ~mem.dry /\ prev[t] \in BOOLEAN BY <2>1, <2>3 DEF Lock, FlagAtRest, TypeOK
    <3>2. /\ mem'.dry = (kind[t] = "preview")
          /\ prev' = [prev EXCEPT ![t] = mem.dry]
          /\ kind' = kind /\ dryMu' = t
      BY <2>2, <2>3 DEF Lock
    <3>3. \A u \in Tasks : ~prev'[u] BY <2>1, <3>1, <3>2 DEF FlagAtRest, TypeOK
    <3>4. \A u \in Tasks : pc'[u] \in ScopePcs => u = t BY <1>0, <2>3 DEF Lock, LockHeld, TypeOK
    <3>5. dryMu' # NoTask BY <1>0, <3>2 DEF ConfigConstants
    <3> QED BY <2>0, <2>1, <3>2, <3>3, <3>4, <3>5 DEF FlagAtRest
  <2>4. CASE Unlock(t)
    <3>1. /\ mem'.dry = prev[t]
          /\ prev' = [prev EXCEPT ![t] = FALSE]
      BY <2>2, <2>4 DEF Unlock
    <3>2. \A u \in Tasks : ~prev'[u] BY <2>1, <3>1 DEF FlagAtRest, TypeOK
    <3>3. ~mem'.dry BY <2>1, <3>1 DEF FlagAtRest
    <3>4. \A u \in Tasks : pc'[u] \notin ScopePcs BY <1>0, <2>4 DEF Unlock, LockHeld, TypeOK, ScopePcs
    <3> QED BY <2>0, <2>1, <3>2, <3>3, <3>4 DEF FlagAtRest
  <2>5. CASE Gate(t) \/ DrainGate(t) \/ Teardown(t) \/ Deregister(t) \/ PurgeBase(t)
    <3>1. UNCHANGED <<mem, prev, kind, dryMu>>
      BY <2>5 DEF Gate, DrainGate, Teardown, Deregister, PurgeBase
    <3>2. \A u \in Tasks : pc'[u] \in ScopePcs => pc[u] \in ScopePcs
      BY <2>5 DEF Gate, DrainGate, Teardown, Deregister, PurgeBase, TypeOK, ScopePcs
    <3> QED BY <2>0, <2>1, <3>1, <3>2 DEF FlagAtRest
  <2> QED BY <1>2, <2>3, <2>4, <2>5 DEF ScopeStep
<1>3. ASSUME NEW t \in Tasks, DestroyRunner(t) \/ DeleteRunner(t) PROVE FlagAtRest'
  <2>1. ~mixed /\ UNCHANGED <<mem, file, copy, prev, dryMu>> BY <1>3 DEF DestroyRunner, DeleteRunner
  <2>2. \A u \in Tasks : pc'[u] \in ScopePcs => pc[u] \in ScopePcs /\ kind'[u] = kind[u]
    BY <1>3 DEF DestroyRunner, DeleteRunner, TypeOK, ScopePcs
  <2> QED BY <2>1, <2>2 DEF FlagInv, FlagAtRest
<1>4. ASSUME NEW t \in Tasks, EditorStep(t) PROVE FlagAtRest'
  <2>1. ~mixed /\ UNCHANGED <<prev, dryMu>> BY <1>4, EditorEffect
  <2>2. FlagAtRest BY <2>1 DEF FlagInv
  <2>3. ~mem.dry /\ \A u \in Tasks : pc'[u] \notin ScopePcs BY <1>4, <2>1, EditorEffect, EditorAlone
  <2>4. ~file.dry /\ ~copy[t].dry /\ ~First.dry BY <2>2 DEF FlagAtRest, First
  <2>5. ~mem'.dry /\ ~file'.dry BY <1>4, <2>3, <2>4, EditorEffect
  <2>6. \A u \in Tasks : ~copy'[u].dry
    <3>1. \A u \in Tasks : copy'[u].dry \in {copy[u].dry, mem.dry, file.dry, FALSE}
      BY <1>4, EditorEffect
    <3> QED BY <2>2, <2>3, <2>4, <3>1 DEF FlagAtRest
  <2> QED BY <2>1, <2>2, <2>3, <2>5, <2>6 DEF FlagAtRest
<1>5. CASE ListRunners \/ Reinstall
  <2>1. UNCHANGED <<mem, file, copy, prev, dryMu, pc, kind, mixed>>
    BY <1>5 DEF ListRunners, Reinstall
  <2> QED BY <2>1 DEF FlagInv, FlagAtRest
<1>6. CASE UNCHANGED vars BY <1>6 DEF vars, FlagInv, FlagAtRest
<1> QED BY <1>1, <1>2, <1>3, <1>4, <1>5, <1>6 DEF Next, TaskStep

\* withDryRun keeps its word to its own callers, however many there are: as long
\* as no change of the config has overlapped a preview or an apply, each reads
\* its own flag and the flag is off when none runs.
THEOREM FlagIsScoped == Spec => []FlagScoped
<1>1. Init => FlagInv
  BY ConfigConstants DEF Init, FlagInv, KindsFit, ApartUnlessMixed, LockHeld, FlagAtRest, First,
                         Scopes, Editors, ScopePcs, EditorPcs
<1>2. TypeOK /\ FlagInv /\ [Next]_vars => FlagInv'
  BY KindsStep, ApartStep, LockStep, RestStep DEF FlagInv
<1>3. FlagInv => FlagScoped
  BY DEF FlagInv, FlagAtRest, FlagScoped, FlagIsOwn, FlagComesBack
<1> QED BY <1>1, <1>2, <1>3, TypeCorrect, PTL DEF Spec

-----------------------------------------------------------------------------
(* The mutexes *)

\* mu is held exactly between the copy of a config and its swap.
MuHeld == \A t \in Tasks : pc[t] = "swap" <=> mu = t

\* A task is at a step exactly while it runs an operation.
BusyTasks == \A t \in Tasks : kind[t] = "none" => pc[t] = "idle"

MutexInv == LockHeld /\ MuHeld /\ BusyTasks

LEMMA MuStep == TypeOK /\ MuHeld /\ [Next]_vars => MuHeld'
<1> SUFFICES ASSUME TypeOK, MuHeld, [Next]_vars PROVE MuHeld'
  OBVIOUS
<1> USE ConfigConstants DEF MuHeld, TypeOK
<1>1. ASSUME NEW t \in Tasks, Begin(t) PROVE MuHeld'
  <2> PICK k \in Kinds : pc' = [pc EXCEPT ![t] = FirstStep(k)]
    BY <1>1 DEF Begin
  <2>1. FirstStep(k) # "swap" BY DEF FirstStep, Scopes, Editors
  <2> QED BY <1>1, <2>1 DEF Begin
<1>2. ASSUME NEW t \in Tasks, ScopeStep(t) PROVE MuHeld'
  BY <1>2 DEF ScopeStep, Lock, Gate, DrainGate, Teardown, Deregister, PurgeBase, Unlock
<1>3. ASSUME NEW t \in Tasks, DestroyRunner(t) \/ DeleteRunner(t) PROVE MuHeld'
  BY <1>3 DEF DestroyRunner, DeleteRunner
<1>4. ASSUME NEW t \in Tasks, EditorStep(t) PROVE MuHeld'
  <2>1. CASE CopyConfig(t) BY <2>1 DEF CopyConfig
  <2>2. CASE SwapConfig(t) BY <2>2 DEF SwapConfig
  <2>3. CASE ~CopyConfig(t) /\ ~SwapConfig(t)
    BY <1>4, <2>3 DEF EditorStep, Fails, Marshal, SaveFails, WriteFile, StoreOrgKey,
                ExtractBackup, Load, Reload
  <2> QED BY <2>1, <2>2, <2>3
<1>5. CASE ListRunners \/ Reinstall BY <1>5 DEF ListRunners, Reinstall
<1>6. CASE UNCHANGED vars BY <1>6 DEF vars
<1> QED BY <1>1, <1>2, <1>3, <1>4, <1>5, <1>6 DEF Next, TaskStep

LEMMA BusyStep == TypeOK /\ BusyTasks /\ [Next]_vars => BusyTasks'
<1> SUFFICES ASSUME TypeOK, BusyTasks, [Next]_vars PROVE BusyTasks'
  OBVIOUS
<1> USE DEF BusyTasks
<1>0. kind \in [Tasks -> Kinds \cup {"none"}] /\ pc \in [Tasks -> Pcs] BY DEF TypeOK
<1>1. ASSUME NEW t \in Tasks, Begin(t) PROVE BusyTasks'
  <2> PICK k \in Kinds : kind' = [kind EXCEPT ![t] = k] /\ pc' = [pc EXCEPT ![t] = FirstStep(k)]
    BY <1>1 DEF Begin
  <2>1. k # "none" BY ConfigConstants DEF Scopes, Editors
  <2> QED BY <1>0, <2>1
<1>2. ASSUME NEW t \in Tasks, TaskStep(t) PROVE BusyTasks'
  <2>1. CASE ScopeStep(t)
    BY <1>0, <2>1 DEF ScopeStep, Lock, Gate, DrainGate, Teardown, Deregister, PurgeBase, Unlock
  <2>2. CASE DestroyRunner(t) \/ DeleteRunner(t)
    BY <1>0, <2>2 DEF DestroyRunner, DeleteRunner
  <2>3. CASE EditorStep(t)
    BY <1>0, <2>3 DEF EditorStep, Fails, Marshal, SaveFails, WriteFile, CopyConfig, SwapConfig,
                      StoreOrgKey, ExtractBackup, Load, Reload
  <2> QED BY <1>2, <2>1, <2>2, <2>3 DEF TaskStep
<1>3. CASE ListRunners \/ Reinstall BY <1>3 DEF ListRunners, Reinstall
<1>4. CASE UNCHANGED vars BY <1>4 DEF vars
<1> QED BY <1>1, <1>2, <1>3, <1>4 DEF Next

\* The two mutexes are never waited for in a circle: who holds mu waits for nothing,
\* and while mu is free neither does who holds dryMu.
THEOREM OperationsNeverDeadlock == Spec => []SomebodyMoves
<1>1. Init => MutexInv
  BY ConfigConstants DEF Init, MutexInv, LockHeld, MuHeld, BusyTasks, ScopePcs
<1>2. TypeOK /\ MutexInv /\ [Next]_vars => MutexInv'
  BY LockStep, MuStep, BusyStep DEF MutexInv
<1>3. TypeOK /\ MutexInv => SomebodyMoves
  <2> SUFFICES ASSUME TypeOK, MutexInv, NEW t \in Tasks, kind[t] # "none"
               PROVE  \E u \in Tasks : kind[u] # "none" /\ ~Waits(u)
    BY DEF SomebodyMoves
  <2> USE DEF MutexInv, LockHeld, MuHeld, BusyTasks, Waits, ScopePcs
  <2>1. CASE mu # NoTask
    <3>1. mu \in Tasks /\ pc[mu] = "swap" BY <2>1 DEF TypeOK
    <3> QED BY <3>1
  <2>2. CASE mu = NoTask /\ dryMu # NoTask
    <3>1. dryMu \in Tasks /\ pc[dryMu] \in ScopePcs BY <2>2 DEF TypeOK
    <3> QED BY <2>2, <3>1
  <2>3. CASE mu = NoTask /\ dryMu = NoTask BY <2>3
  <2> QED BY <2>1, <2>2, <2>3
<1> QED BY <1>1, <1>2, <1>3, TypeCorrect, PTL DEF Spec
-----------------------------------------------------------------------------
(* The cached clients *)

\* A config that waits for its swap has the current credentials, unless the
\* wizard has put new ones into it.
SwapKeepsCreds ==
  \A t \in Tasks : pc[t] = "swap" /\ kind[t] # "onboard" => copy[t].creds = mem.creds

\* Only the wizard stores a key.
WizardStores == \A t \in Tasks : pc[t] = "storeKey" => kind[t] = "onboard"

\* The wizard has swapped new credentials in and not yet reloaded.
Onboarding(t) ==
  kind[t] = "onboard" /\ pc[t] \in {"storeKey", "save", "write", "load", "reload"}

Current == client \in {NoClient, <<mem.creds, sec>>}

\* A cached client is stale only while a wizard is on its way to the reload that
\* drops it, or after an editor that never got there.
StaleIsExplained == Current \/ unsaved \/ \E t \in Tasks : Onboarding(t)

ClientInv == SwapKeepsCreds /\ WizardStores /\ StaleIsExplained

\* What a step of anything but an editor leaves alone.
LEMMA OtherStepsEffect ==
  ASSUME TypeOK, KindsFit, NEW t \in Tasks,
         Begin(t) \/ ScopeStep(t) \/ DestroyRunner(t) \/ DeleteRunner(t)
  PROVE  /\ pc[t] \notin EditorPcs
         /\ pc'[t] \notin {"swap", "storeKey"}
         /\ \A u \in Tasks \ {t} : pc'[u] = pc[u] /\ kind'[u] = kind[u]
         /\ copy' = copy /\ sec' = sec /\ unsaved' = unsaved
         /\ mem'.creds = mem.creds
         /\ client' \in {client, <<mem.creds, sec>>}
<1>0. kind \in [Tasks -> Kinds \cup {"none"}] /\ pc \in [Tasks -> Pcs] BY DEF TypeOK
<1>1. CASE Begin(t)
  <2> PICK k \in Kinds : kind' = [kind EXCEPT ![t] = k] /\ pc' = [pc EXCEPT ![t] = FirstStep(k)]
    BY <1>1 DEF Begin
  <2>1. FirstStep(k) \notin {"swap", "storeKey"}
    BY ConfigConstants DEF FirstStep, Scopes, Editors
  <2>2. pc[t] = "idle" /\ UNCHANGED <<mem, client, sec, copy, unsaved>> BY <1>1 DEF Begin
  <2> QED BY <1>0, <2>1, <2>2 DEF EditorPcs
<1>2. CASE ScopeStep(t)
  <2>1. \A b : [mem EXCEPT !.dry = b].creds = mem.creds BY DEF TypeOK, Configs
  <2>2. mem'.creds = mem.creds
    BY <1>2, <2>1 DEF ScopeStep, Lock, Gate, DrainGate, Teardown, Deregister, PurgeBase, Unlock
  <2>3. client' \in {client, <<mem.creds, sec>>}
    BY <1>2 DEF ScopeStep, Lock, Gate, DrainGate, Teardown, Deregister, PurgeBase, Unlock, UsesClient
  <2>4. copy' = copy /\ sec' = sec /\ unsaved' = unsaved
    BY <1>2 DEF ScopeStep, Lock, Gate, DrainGate, Teardown, Deregister, PurgeBase, Unlock
  <2>5. /\ pc[t] \notin EditorPcs
        /\ pc'[t] \notin {"swap", "storeKey"}
        /\ \A u \in Tasks \ {t} : pc'[u] = pc[u] /\ kind'[u] = kind[u]
    BY <1>0, <1>2 DEF ScopeStep, Lock, Gate, DrainGate, Teardown, Deregister, PurgeBase, Unlock, EditorPcs
  <2> QED BY <2>2, <2>3, <2>4, <2>5
<1>3. CASE DestroyRunner(t) \/ DeleteRunner(t)
  <2>1. /\ pc[t] \notin EditorPcs
        /\ pc'[t] \notin {"swap", "storeKey"}
        /\ \A u \in Tasks \ {t} : pc'[u] = pc[u] /\ kind'[u] = kind[u]
    BY <1>0, <1>3 DEF DestroyRunner, DeleteRunner, EditorPcs
  <2> QED BY <1>3, <2>1 DEF DestroyRunner, DeleteRunner, UsesClient
<1> QED BY <1>1, <1>2, <1>3

LEMMA ClientStep ==
  TypeOK /\ KindsFit /\ MuHeld /\ ClientInv /\ [Next]_vars => ClientInv'
<1> SUFFICES ASSUME TypeOK, KindsFit, MuHeld, ClientInv, [Next]_vars PROVE ClientInv'
  OBVIOUS
<1> USE DEF ClientInv, SwapKeepsCreds, WizardStores, StaleIsExplained, Onboarding, Current
<1>0. /\ kind \in [Tasks -> Kinds \cup {"none"}] /\ pc \in [Tasks -> Pcs]
      /\ copy \in [Tasks -> Configs] /\ mem \in Configs /\ mu \in Tasks \cup {NoTask}
  BY DEF TypeOK
<1>1. ASSUME NEW t \in Tasks, Begin(t) \/ ScopeStep(t) \/ DestroyRunner(t) \/ DeleteRunner(t)
      PROVE  ClientInv'
  <2>1. /\ pc[t] \notin EditorPcs
        /\ pc'[t] \notin {"swap", "storeKey"}
        /\ \A u \in Tasks \ {t} : pc'[u] = pc[u] /\ kind'[u] = kind[u]
        /\ copy' = copy /\ sec' = sec /\ unsaved' = unsaved
        /\ mem'.creds = mem.creds
        /\ client' \in {client, <<mem.creds, sec>>}
    BY <1>1, OtherStepsEffect
  <2>2. SwapKeepsCreds' /\ WizardStores' BY <2>1
  <2>3. Current => Current' BY <2>1
  <2>4. \A u \in Tasks : Onboarding(u) => Onboarding(u)' BY <2>1 DEF EditorPcs
  <2> QED BY <2>1, <2>2, <2>3, <2>4
<1>2. ASSUME NEW t \in Tasks, EditorStep(t) PROVE ClientInv'
  <2>1. CASE Marshal(t) BY <1>0, <2>1 DEF Marshal
  <2>2. CASE SaveFails(t)
    <3>1. unsaved' /\ Done(t) /\ UNCHANGED <<mem, copy>> BY <2>2 DEF SaveFails, Fails
    <3> QED BY <1>0, <3>1
  <2>3. CASE WriteFile(t)
    <3>1. UNCHANGED <<mem, sec, client, unsaved>> /\ copy' = [copy EXCEPT ![t] = First]
      BY <2>3 DEF WriteFile
    <3>2. CASE kind[t] = "settings" /\ Done(t) BY <1>0, <3>1, <3>2
    <3>3. CASE pc[t] = "writeCaps" /\ Goto(t, "copy") BY <1>0, <3>1, <3>3
    <3>4. CASE Goto(t, "load") BY <1>0, <3>1, <3>4
    <3> QED BY <2>3, <3>2, <3>3, <3>4 DEF WriteFile
  <2>4. CASE CopyConfig(t)
    <3>1. UNCHANGED <<mem, sec, client, unsaved, kind>> BY <2>4 DEF CopyConfig
    <3>2. kind[t] # "onboard" => copy' = [copy EXCEPT ![t] = mem] BY <2>4 DEF CopyConfig
    <3>3. \A u \in Tasks \ {t} : copy'[u] = copy[u] BY <1>0, <2>4 DEF CopyConfig
    <3>4. pc[t] = "copy" /\ pc' = [pc EXCEPT ![t] = "swap"] BY <2>4 DEF CopyConfig
    <3>5. SwapKeepsCreds' /\ WizardStores' BY <1>0, <3>1, <3>2, <3>3, <3>4
    <3>6. StaleIsExplained' BY <1>0, <3>1, <3>4
    <3> QED BY <3>5, <3>6
  <2>5. CASE SwapConfig(t)
    <3>1. /\ pc[t] = "swap" /\ mem' = copy[t]
          /\ UNCHANGED <<sec, client, unsaved, kind>>
          /\ \A u \in Tasks \ {t} : copy'[u] = copy[u] /\ pc'[u] = pc[u]
          /\ pc'[t] \in {"save", "storeKey"}
          /\ pc'[t] = "storeKey" => kind[t] = "onboard"
      BY <1>0, <2>5 DEF SwapConfig
    <3>2. \A u \in Tasks : pc'[u] # "swap" BY <3>1 DEF MuHeld
    <3>3. WizardStores' BY <3>1
    <3>4. CASE kind[t] = "onboard" BY <3>1, <3>2, <3>3, <3>4
    <3>5. CASE kind[t] # "onboard"
      <4>1. mem'.creds = mem.creds BY <3>1, <3>5
      <4>2. \A u \in Tasks : Onboarding(u) => Onboarding(u)' BY <3>1, <3>5
      <4> QED BY <3>1, <3>2, <3>3, <4>1, <4>2
    <3> QED BY <3>4, <3>5
  <2>6. CASE StoreOrgKey(t)
    <3>1. UNCHANGED <<mem, copy>> BY <2>6 DEF StoreOrgKey
    <3>2. CASE client' = NoClient /\ Goto(t, "save") BY <1>0, <3>1, <3>2
    <3>3. CASE Fails(t)
      <4>1. unsaved' /\ Done(t) BY <3>3 DEF Fails
      <4> QED BY <1>0, <3>1, <4>1
    <3> QED BY <2>6, <3>2, <3>3 DEF StoreOrgKey
  <2>7. CASE ExtractBackup(t)
    <3>1. UNCHANGED <<mem, sec, client, copy>> /\ pc[t] = "extract" BY <2>7 DEF ExtractBackup
    <3>2. CASE Goto(t, "load") /\ UNCHANGED unsaved BY <1>0, <3>1, <3>2
    <3>3. CASE Fails(t)
      <4>1. unsaved' /\ Done(t) BY <3>3 DEF Fails
      <4> QED BY <1>0, <3>1, <4>1
    <3> QED BY <2>7, <3>2, <3>3 DEF ExtractBackup
  <2>8. CASE Load(t)
    <3>1. UNCHANGED <<mem, sec, client>> /\ pc[t] = "load" BY <2>8 DEF Load
    <3>2. CASE Goto(t, "reload") /\ copy' = [copy EXCEPT ![t] = file] /\ UNCHANGED unsaved
      BY <1>0, <3>1, <3>2
    <3>3. CASE Fails(t) /\ UNCHANGED copy
      <4>1. unsaved' /\ Done(t) /\ UNCHANGED copy BY <3>3 DEF Fails
      <4> QED BY <1>0, <3>1, <4>1
    <3> QED BY <2>8, <3>2, <3>3 DEF Load
  <2>9. CASE Reload(t)
    <3>1. \A u \in Tasks : pc[u] # "swap" BY <2>9, ConfigConstants DEF MuHeld, Reload
    <3>2. client' = NoClient /\ Done(t) BY <2>9 DEF Reload
    <3> QED BY <1>0, <3>1, <3>2
  <2> QED BY <1>2, <2>1, <2>2, <2>3, <2>4, <2>5, <2>6, <2>7, <2>8, <2>9 DEF EditorStep
<1>3. CASE ListRunners BY <1>3 DEF ListRunners, UsesClient
<1>4. CASE Reinstall BY <1>4 DEF Reinstall
<1>5. CASE UNCHANGED vars BY <1>5 DEF vars
<1> QED BY <1>1, <1>2, <1>3, <1>4, <1>5 DEF Next, TaskStep

\* A client outlives its credentials only under a wizard that has yet to reload or
\* after a failed change: when neither is the case, calls to GitHub are
\* signed with what the config and the secrets store say now.
THEOREM ClientsFollowTheConfig == Spec => []ClientsCurrent
<1>1. Init => KindsFit /\ MuHeld /\ ClientInv
  BY ConfigConstants DEF Init, KindsFit, MuHeld, ClientInv, SwapKeepsCreds, WizardStores,
                         StaleIsExplained, Current, ScopePcs, EditorPcs
<1>2. TypeOK /\ KindsFit /\ MuHeld /\ ClientInv /\ [Next]_vars => (KindsFit /\ MuHeld /\ ClientInv)'
  BY KindsStep, MuStep, ClientStep
<1>3. ClientInv => ClientsCurrent
  BY DEF ClientInv, StaleIsExplained, Onboarding, Current, ClientsCurrent, Editors
<1> QED BY <1>1, <1>2, <1>3, TypeCorrect, PTL DEF Spec
=============================================================================
