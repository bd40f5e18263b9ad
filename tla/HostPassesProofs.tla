-------------------------- MODULE HostPassesProofs --------------------------
(***************************************************************************)
(* Proofs about HostPasses for any number of srm commands of any kinds and *)
(* template generations, any fleet of runners and lanes and any bounds:    *)
(* what a pass stops, repairs, removes and leaves alone, and the order in  *)
(* which a purge lets go of the config directory.                          *)
(*                                                                         *)
(* Commands only meet in what they do to the host.  Frame(c) is what a     *)
(* step of anybody else may do to the command c: it leaves c's own         *)
(* variables alone and every runner and lane it does not report in         *)
(* moved[c].  The invariants of a command are kept by its own steps, one   *)
(* by one, and by Frame.                                                   *)
(***************************************************************************)
EXTENDS HostPasses, FiniteSetTheorems, TLAPS

-----------------------------------------------------------------------------
(* Types                                                                   *)

Maps(f) == f = [c \in Commands |-> f[c]]

\* A unit and what is loaded go together.
GoodUnit(u) ==
  /\ u \in Units
  /\ ~u.unit => u.svc = "down" /\ u.drop = NoDrop /\ u.loaded = NoDrop

HostTypes ==
  /\ h \in [Runners -> Units]
  /\ \A r \in Runners : GoodUnit(h[r])
  /\ reg \in [Runners -> Ids]
  /\ job \subseteq Runners
  /\ \A r \in job : h[r].svc = "online" /\ OrgOf[r] \in Configured
  /\ \A r \in job : reg[r] # NoId
  /\ lane \in [Lanes -> {"gone", "between", "waiting", "job"}]
  /\ cfg \in [dir : BOOLEAN, backup : {"none", "torn", "full"}, binary : BOOLEAN, isolated : BOOLEAN]

CommandTypes ==
  /\ Maps(pc) /\ Maps(kind) /\ Maps(flags) /\ Maps(at) /\ Maps(failed)
  /\ scope \in [Commands -> {Host} \cup Configured]
  /\ \A c \in Commands : pc[c] # "idle" => at[c] \in Runners
  /\ idr \in [Commands -> Ids]
  /\ list \in [Commands -> [Runners -> Rows]]
  /\ errs \in [Commands -> SUBSET Configured]
  /\ todo \in [Commands -> SUBSET Things]
  /\ class \in [Commands -> [Runners -> Classes]]

HistoryTypes ==
  /\ moved \in [Commands -> SUBSET Things]
  /\ cut \in [Commands -> SUBSET Things]

Types == HostTypes /\ CommandTypes /\ HistoryTypes

LEMMA IdsAreNumbers == Ids \subseteq Nat /\ 0 \in Ids /\ 1 \in Ids
BY HostConstants, FS_CardinalityType DEF Ids, NoId

LEMMA UnitFacts ==
  /\ Absent \in Units /\ GoodUnit(Absent) /\ NoDrop \in DropIns
  /\ \A c \in Commands : Gen[c] \in 1..MaxGen /\ Render(c) \in DropIns
BY HostConstants, IdsAreNumbers DEF Absent, Units, GoodUnit, NoDrop, DropIns, NoId, Render

\* Replacing one unit by a good one.
LEMMA PutUnit ==
  ASSUME HostTypes, NEW r \in Runners, NEW u, GoodUnit(u),
         h' = [h EXCEPT ![r] = u]
  PROVE  /\ h' \in [Runners -> Units] /\ h'[r] = u
         /\ \A x \in Runners : GoodUnit(h'[x])
         /\ \A x \in Runners \ {r} : h'[x] = h[x]
BY DEF HostTypes, GoodUnit

\* The steps of the orchestrator on one unit (teardownService, os.RemoveAll of
\* the tree, writeHardening, systemctl restart, and the loss of a registration).
LEMMA TeardownUnit ==
  ASSUME HostTypes, NEW r \in Runners, NEW c \in Commands, Teardown(c, r)
  PROVE  /\ h' \in [Runners -> Units] /\ \A x \in Runners : GoodUnit(h'[x])
         /\ \A x \in Runners \ {r} : h'[x] = h[x]
         /\ h'[r].tree = h[r].tree /\ h'[r].id = h[r].id /\ ~h'[r].unit
         /\ h'[r].svc = "down" /\ h'[r].drop = NoDrop
<1> DEFINE u == [Absent EXCEPT !.tree = h[r].tree, !.id = h[r].id]
<1>1. GoodUnit(u) /\ u.tree = h[r].tree /\ u.id = h[r].id /\ ~u.unit /\ u.svc = "down" /\ u.drop = NoDrop
  BY UnitFacts DEF GoodUnit, Units, Absent, HostTypes
<1>2. h' = [h EXCEPT ![r] = u]
  BY DEF Teardown
<1> HIDE DEF u
<1> QED BY <1>1, <1>2, PutUnit

LEMMA WipeUnit ==
  ASSUME HostTypes, NEW r \in Runners, NEW c \in Commands, WipeTree(c, r)
  PROVE  /\ h' \in [Runners -> Units] /\ \A x \in Runners : GoodUnit(h'[x])
         /\ \A x \in Runners \ {r} : h'[x] = h[x]
         /\ h'[r].tree # "tree" /\ h'[r].unit = h[r].unit /\ h'[r].svc = h[r].svc
         /\ h'[r].drop = h[r].drop /\ h'[r].loaded = h[r].loaded
<1> DEFINE u == IF h[r].tree = "tree" THEN [h[r] EXCEPT !.tree = "none", !.id = NoId] ELSE h[r]
<1>1. GoodUnit(u) /\ u.tree # "tree" /\ u.unit = h[r].unit /\ u.svc = h[r].svc
      /\ u.drop = h[r].drop /\ u.loaded = h[r].loaded
  BY IdsAreNumbers DEF GoodUnit, Units, HostTypes, NoId
<1>2. h' = [h EXCEPT ![r] = u]
  BY DEF WipeTree, HostTypes
<1> HIDE DEF u
<1> QED BY <1>1, <1>2, PutUnit

LEMMA DropInUnit ==
  ASSUME HostTypes, NEW r \in Runners, NEW c \in Commands, WriteDropIn(c, r)
  PROVE  /\ h' \in [Runners -> Units] /\ \A x \in Runners : GoodUnit(h'[x])
         /\ \A x \in Runners \ {r} : h'[x] = h[x]
         /\ h'[r] = [h[r] EXCEPT !.drop = Render(c)]
         /\ h'[r].tree = h[r].tree /\ h'[r].id = h[r].id /\ h'[r].unit /\ h[r].unit
         /\ h'[r].svc = h[r].svc /\ h'[r].drop = Render(c)
<1> DEFINE u == [h[r] EXCEPT !.drop = Render(c)]
<1>1. GoodUnit(u) /\ u.tree = h[r].tree /\ u.id = h[r].id /\ u.unit /\ u.svc = h[r].svc /\ u.drop = Render(c)
      /\ h[r].unit
  BY UnitFacts DEF GoodUnit, Units, HostTypes, WriteDropIn
<1>2. h' = [h EXCEPT ![r] = u]
  BY DEF WriteDropIn, HostTypes
<1> HIDE DEF u
<1>3. h'[r] = u
  BY <1>1, <1>2, PutUnit
<1>4. h'[r] = [h[r] EXCEPT !.drop = Render(c)]
  BY <1>3 DEF u
<1> QED BY <1>1, <1>2, <1>3, <1>4, PutUnit

LEMMA RestartedUnit ==
  ASSUME HostTypes, NEW r \in Runners, NEW c \in Commands, Restart(c, r), h[r].unit
  PROVE  /\ h' \in [Runners -> Units] /\ \A x \in Runners : GoodUnit(h'[x])
         /\ \A x \in Runners \ {r} : h'[x] = h[x]
         /\ h'[r].tree = h[r].tree /\ h'[r].id = h[r].id /\ h'[r].unit
         /\ h'[r].drop = h[r].drop /\ h'[r].loaded = h[r].drop
         /\ h'[r].svc = IF h[r].tree # "tree" THEN "down" ELSE IF Registered(r) THEN "online" ELSE "deaf"
<1> DEFINE s == IF h[r].tree # "tree" THEN "down" ELSE IF Registered(r) THEN "online" ELSE "deaf"
           u == [h[r] EXCEPT !.svc = s, !.loaded = h[r].drop]
<1>1. s \in {"down", "deaf", "online"}
  OBVIOUS
<1>2. h' = [h EXCEPT ![r].svc = s, ![r].loaded = h[r].drop]
  BY DEF Restart
<1> HIDE DEF s
<1>3. GoodUnit(u) /\ u.tree = h[r].tree /\ u.id = h[r].id /\ u.unit /\ u.svc = s
      /\ u.drop = h[r].drop /\ u.loaded = h[r].drop
  BY <1>1 DEF GoodUnit, Units, HostTypes
<1>4. h' = [h EXCEPT ![r] = u]
  BY <1>2 DEF HostTypes
<1> HIDE DEF u
<1>5. h'[r] = u /\ h' \in [Runners -> Units] /\ (\A x \in Runners : GoodUnit(h'[x]))
      /\ \A x \in Runners \ {r} : h'[x] = h[x]
  BY <1>3, <1>4, PutUnit
<1> QED BY <1>3, <1>5 DEF s

\* ServiceDrops and Forget: the service of one unit changes.
LEMMA ServiceUnit ==
  ASSUME HostTypes, NEW r \in Runners, NEW s \in {"down", "deaf", "online"},
         h[r].svc = "online" \/ s = h[r].svc, h' = [h EXCEPT ![r].svc = s]
  PROVE  /\ h' \in [Runners -> Units] /\ \A x \in Runners : GoodUnit(h'[x])
         /\ \A x \in Runners \ {r} : h'[x] = h[x]
         /\ h'[r].svc = s /\ h'[r].unit = h[r].unit
<1> DEFINE u == [h[r] EXCEPT !.svc = s]
<1>1. GoodUnit(u) /\ u.svc = s /\ u.unit = h[r].unit
  BY DEF GoodUnit, Units, HostTypes
<1>2. h' = [h EXCEPT ![r] = u]
  BY DEF HostTypes
<1> HIDE DEF u
<1> QED BY <1>1, <1>2, PutUnit

LEMMA ForgottenUnit ==
  ASSUME HostTypes, NEW r \in Runners, Forget(r)
  PROVE  /\ h' \in [Runners -> Units] /\ \A x \in Runners : GoodUnit(h'[x])
         /\ \A x \in Runners \ {r} : h'[x] = h[x]
         /\ h'[r].unit = h[r].unit
         /\ reg' \in [Runners -> Ids] /\ reg'[r] = NoId /\ \A x \in Runners \ {r} : reg'[x] = reg[x]
<1> DEFINE s == IF h[r].svc = "online" THEN "deaf" ELSE h[r].svc
<1>1. s \in {"down", "deaf", "online"} /\ (h[r].svc = "online" \/ s = h[r].svc)
  BY DEF HostTypes, Units
<1>2. h' = [h EXCEPT ![r].svc = s]
  BY DEF Forget, HostTypes
<1> HIDE DEF s
<1>3. reg' = [reg EXCEPT ![r] = NoId]
  BY DEF Forget
<1>4. reg' \in [Runners -> Ids] /\ reg'[r] = NoId /\ \A x \in Runners \ {r} : reg'[x] = reg[x]
  BY <1>3, IdsAreNumbers DEF HostTypes, NoId
<1> QED BY <1>1, <1>2, <1>4, ServiceUnit

\* Touch and Stops keep the histories sets of things.
LEMMA Touched ==
  ASSUME HistoryTypes, NEW a, NEW X \in SUBSET Things, Touch(a, X)
  PROVE  /\ moved' \in [Commands -> SUBSET Things]
         /\ \A c \in Commands : c # a => moved'[c] = moved[c] \cup X
         /\ \A c \in Commands : c = a => moved'[c] = moved[c]
BY DEF Touch, HistoryTypes

LEMMA Stopped ==
  ASSUME HistoryTypes, NEW c \in Commands, NEW x \in Things, NEW b, Stops(c, x, b)
  PROVE  /\ cut' \in [Commands -> SUBSET Things]
         /\ \A d \in Commands : d # c => cut'[d] = cut[d]
         /\ cut'[c] = IF b THEN cut[c] \cup {x} ELSE cut[c]
BY DEF Stops, HistoryTypes

-----------------------------------------------------------------------------
(* What a step of anybody else does to a command, and that types are kept. *)

\* The step leaves the command's own variables alone.
Apart(c) ==
  /\ pc'[c] = pc[c] /\ kind'[c] = kind[c] /\ scope'[c] = scope[c] /\ flags'[c] = flags[c]
  /\ at'[c] = at[c] /\ list'[c] = list[c] /\ errs'[c] = errs[c] /\ todo'[c] = todo[c]
  /\ class'[c] = class[c] /\ idr'[c] = idr[c] /\ cut'[c] = cut[c] /\ failed'[c] = failed[c]

\* It leaves alone what it does not report as moved.
LeavesUnmoved(c) ==
  /\ moved[c] \subseteq moved'[c]
  /\ \A r \in Runners : r \notin moved'[c] =>
       h'[r] = h[r] /\ reg'[r] = reg[r] /\ (r \in job' <=> r \in job)
  /\ \A l \in Lanes : l \notin moved'[c] => lane'[l] = lane[l]

Frame(c) == Apart(c) /\ LeavesUnmoved(c)

\* A step of d is a frame for everybody else.
FrameFor(d) == \A c \in Commands : c # d => Frame(c)

LEMMA CreateFrames ==
  ASSUME Types, NEW d \in Commands, NEW r \in Runners, Create(d, r)
  PROVE  Types' /\ FrameFor(d)
<1>1. HostTypes /\ CommandTypes /\ HistoryTypes
  BY DEF Types
<1>2. /\ Teardown(d, r) /\ Goto(d, "register") /\ Fine
      /\ UNCHANGED <<reg, lane, cfg, kind, scope, flags, runs, at, list, errs, todo, class, idr>>
      /\ pc[d] = "create" /\ at[d] = r
  BY DEF Create, ctlVars, planVars
<1>3. /\ h' \in [Runners -> Units] /\ \A x \in Runners : GoodUnit(h'[x])
      /\ \A x \in Runners \ {r} : h'[x] = h[x]
  BY <1>1, <1>2, TeardownUnit
<1>4. /\ moved' \in [Commands -> SUBSET Things]
      /\ \A c \in Commands : c # d => moved'[c] = moved[c] \cup {r}
  BY <1>1, <1>2, Touched DEF Teardown, Things
<1>5. /\ cut' \in [Commands -> SUBSET Things]
      /\ \A c \in Commands : c # d => cut'[c] = cut[c]
  BY <1>1, <1>2, Stopped DEF Teardown, Things
<1>6. job' = job \ {r}
  BY <1>2 DEF Teardown
<1>7. HostTypes'
  BY <1>1, <1>2, <1>3, <1>6 DEF HostTypes
<1>8. CommandTypes'
  BY <1>1, <1>2 DEF CommandTypes, Maps, Goto, Fine
<1>9. \A c \in Commands : c # d => Apart(c)
  BY <1>1, <1>2, <1>5 DEF Apart, CommandTypes, Maps, Goto, Fine
<1>10. \A c \in Commands : c # d => LeavesUnmoved(c)
  BY <1>1, <1>2, <1>3, <1>4, <1>6 DEF LeavesUnmoved
<1> QED BY <1>4, <1>5, <1>7, <1>8, <1>9, <1>10 DEF Types, HistoryTypes, FrameFor, Frame

LEMMA RegisterFrames ==
  ASSUME Types, NEW d \in Commands, NEW r \in Runners, Register(d, r)
  PROVE  Types' /\ FrameFor(d)
<1>1. HostTypes /\ CommandTypes /\ HistoryTypes
  BY DEF Types
<1>2. /\ Touch(d, {r})
      /\ UNCHANGED <<job, lane, cfg, kind, scope, flags, runs, at, list, errs, todo, class, idr, cut>>
      /\ pc[d] = "register" /\ at[d] = r
  BY DEF Register, ctlVars, planVars
<1>3. PICK id \in Ids : /\ h' = [h EXCEPT ![r].tree = "tree", ![r].id = id]
                        /\ (reg' = [reg EXCEPT ![r] = id] /\ id # NoId) \/ reg' = reg
  BY IdsAreNumbers DEF Register, NoId, Fresh
<1>4. /\ h' \in [Runners -> Units] /\ \A x \in Runners : GoodUnit(h'[x])
      /\ \A x \in Runners \ {r} : h'[x] = h[x]
      /\ h'[r].svc = h[r].svc
  <2> DEFINE u == [h[r] EXCEPT !.tree = "tree", !.id = id]
  <2>1. GoodUnit(u) /\ u.svc = h[r].svc
    BY <1>1, <1>3 DEF GoodUnit, Units, HostTypes
  <2>2. h' = [h EXCEPT ![r] = u]
    BY <1>1, <1>3 DEF HostTypes
  <2> HIDE DEF u
  <2> QED BY <1>1, <2>1, <2>2, PutUnit
<1>5. /\ reg' \in [Runners -> Ids]
      /\ \A x \in Runners \ {r} : reg'[x] = reg[x]
      /\ reg[r] # NoId => reg'[r] # NoId
  BY <1>1, <1>3 DEF HostTypes
<1>6. /\ moved' \in [Commands -> SUBSET Things]
      /\ \A c \in Commands : c # d => moved'[c] = moved[c] \cup {r}
  BY <1>1, <1>2, Touched DEF Things
<1>7. \A x \in job : h'[x].svc = h[x].svc /\ reg'[x] # NoId
  BY <1>1, <1>4, <1>5 DEF HostTypes
<1>8. HostTypes'
  BY <1>1, <1>2, <1>4, <1>5, <1>7 DEF HostTypes
<1>9. /\ \A c \in Commands : c # d => pc'[c] = pc[c] /\ failed'[c] = failed[c]
      /\ Maps(pc)' /\ Maps(failed)'
  BY <1>1 DEF Register, CommandTypes, Maps, Goto, Fine, Fail
<1>10. CommandTypes'
  BY <1>1, <1>2, <1>9 DEF CommandTypes, Maps
<1>11. \A c \in Commands : c # d => Apart(c)
  BY <1>2, <1>9 DEF Apart
<1>12. \A c \in Commands : c # d => LeavesUnmoved(c)
  BY <1>2, <1>4, <1>5, <1>6 DEF LeavesUnmoved
<1> QED BY <1>1, <1>2, <1>6, <1>8, <1>10, <1>11, <1>12 DEF Types, HistoryTypes, FrameFor, Frame

LEMMA InstallFrames ==
  ASSUME Types, NEW d \in Commands, NEW r \in Runners, InstallUnit(d, r)
  PROVE  Types' /\ FrameFor(d)
<1>1. HostTypes /\ CommandTypes /\ HistoryTypes
  BY DEF Types
<1>2. /\ Touch(d, {r}) /\ Goto(d, "harden") /\ Fine /\ h' = [h EXCEPT ![r].unit = TRUE]
      /\ UNCHANGED <<reg, job, lane, cfg, kind, scope, flags, runs, at, list, errs, todo, class, idr, cut>>
      /\ pc[d] = "install" /\ at[d] = r
  BY DEF InstallUnit, ctlVars, planVars
<1>4. /\ h' \in [Runners -> Units] /\ \A x \in Runners : GoodUnit(h'[x])
      /\ \A x \in Runners \ {r} : h'[x] = h[x]
      /\ h'[r].svc = h[r].svc
  <2> DEFINE u == [h[r] EXCEPT !.unit = TRUE]
  <2>1. GoodUnit(u) /\ u.svc = h[r].svc
    BY <1>1 DEF GoodUnit, Units, HostTypes
  <2>2. h' = [h EXCEPT ![r] = u]
    BY <1>1, <1>2 DEF HostTypes
  <2> HIDE DEF u
  <2> QED BY <1>1, <2>1, <2>2, PutUnit
<1>6. /\ moved' \in [Commands -> SUBSET Things]
      /\ \A c \in Commands : c # d => moved'[c] = moved[c] \cup {r}
  BY <1>1, <1>2, Touched DEF Things
<1>7. \A x \in job : h'[x].svc = h[x].svc
  BY <1>1, <1>4 DEF HostTypes
<1>8. HostTypes'
  BY <1>1, <1>2, <1>4, <1>7 DEF HostTypes
<1>10. CommandTypes'
  BY <1>1, <1>2 DEF CommandTypes, Maps, Goto, Fine
<1>11. \A c \in Commands : c # d => Apart(c)
  BY <1>1, <1>2 DEF Apart, CommandTypes, Maps, Goto, Fine
<1>12. \A c \in Commands : c # d => LeavesUnmoved(c)
  BY <1>2, <1>4, <1>6 DEF LeavesUnmoved
<1> QED BY <1>1, <1>2, <1>6, <1>8, <1>10, <1>11, <1>12 DEF Types, HistoryTypes, FrameFor, Frame

LEMMA HardenFrames ==
  ASSUME Types, NEW d \in Commands, NEW r \in Runners, Harden(d, r)
  PROVE  Types' /\ FrameFor(d)
<1>1. HostTypes /\ CommandTypes /\ HistoryTypes
  BY DEF Types
<1>2. /\ UNCHANGED <<reg, job, lane, cfg, kind, scope, flags, runs, at, list, errs, todo, class, idr, cut, failed>>
      /\ pc[d] = "harden" /\ at[d] = r
      /\ Goto(d, "start") \/ Goto(d, "idle")
      /\ WriteDropIn(d, r) \/ UNCHANGED <<h, moved>>
  BY DEF Harden, ctlVars, planVars, Fine
<1>4. /\ h' \in [Runners -> Units] /\ \A x \in Runners : GoodUnit(h'[x])
      /\ \A x \in Runners \ {r} : h'[x] = h[x]
      /\ h'[r].svc = h[r].svc
  BY <1>1, <1>2, DropInUnit DEF HostTypes
<1>6. /\ moved' \in [Commands -> SUBSET Things]
      /\ \A c \in Commands : c # d => moved'[c] = moved[c] \cup {r} \/ (h' = h /\ moved' = moved)
  <2>1. CASE WriteDropIn(d, r)
    BY <1>1, <2>1, Touched DEF Things, WriteDropIn
  <2>2. CASE UNCHANGED <<h, moved>>
    BY <1>1, <2>2 DEF HistoryTypes
  <2> QED BY <1>2, <2>1, <2>2
<1>7. \A x \in job : h'[x].svc = h[x].svc
  BY <1>1, <1>4 DEF HostTypes
<1>8. HostTypes'
  BY <1>1, <1>2, <1>4, <1>7 DEF HostTypes
<1>10. CommandTypes'
  BY <1>1, <1>2 DEF CommandTypes, Maps, Goto
<1>11. \A c \in Commands : c # d => Apart(c)
  BY <1>1, <1>2 DEF Apart, CommandTypes, Maps, Goto
<1>12. \A c \in Commands : c # d => LeavesUnmoved(c)
  BY <1>2, <1>4, <1>6 DEF LeavesUnmoved
<1> QED BY <1>1, <1>2, <1>6, <1>8, <1>10, <1>11, <1>12 DEF Types, HistoryTypes, FrameFor, Frame

LEMMA StartFrames ==
  ASSUME Types, NEW d \in Commands, NEW r \in Runners, Start(d, r)
  PROVE  Types' /\ FrameFor(d)
<1>1. HostTypes /\ CommandTypes /\ HistoryTypes
  BY DEF Types
<1>2. /\ UNCHANGED <<reg, lane, cfg, kind, scope, flags, runs, at, list, errs, todo, class, idr, failed>>
      /\ pc[d] = "start" /\ at[d] = r
      /\ Goto(d, "idle")
      /\ (h[r].unit /\ Restart(d, r)) \/ UNCHANGED <<h, job, cut, moved>>
  BY DEF Start, ctlVars, planVars, Fine
<1>3. /\ h' \in [Runners -> Units] /\ \A x \in Runners : GoodUnit(h'[x])
      /\ \A x \in Runners \ {r} : h'[x] = h[x]
      /\ job' = job \ {r} \/ (job' = job /\ h' = h)
  BY <1>1, <1>2, RestartedUnit DEF HostTypes, Restart
<1>4. /\ moved' \in [Commands -> SUBSET Things]
      /\ \A c \in Commands : c # d => moved'[c] = moved[c] \cup {r} \/ (h' = h /\ moved' = moved /\ job' = job)
      /\ cut' \in [Commands -> SUBSET Things]
      /\ \A c \in Commands : c # d => cut'[c] = cut[c]
  <2>1. CASE h[r].unit /\ Restart(d, r)
    <3>1. Touch(d, {r}) /\ Stops(d, r, r \in job) /\ r \in Things
      BY <2>1 DEF Restart, Things
    <3>2. /\ cut' \in [Commands -> SUBSET Things]
          /\ \A c \in Commands : c # d => cut'[c] = cut[c]
      BY <1>1, <3>1, Stopped
    <3>3. /\ moved' \in [Commands -> SUBSET Things]
          /\ \A c \in Commands : c # d => moved'[c] = moved[c] \cup {r}
      BY <1>1, <3>1, Touched
    <3> QED BY <3>2, <3>3
  <2>2. CASE UNCHANGED <<h, job, cut, moved>>
    BY <1>1, <2>2 DEF HistoryTypes
  <2> QED BY <1>2, <2>1, <2>2
<1>8. HostTypes'
  BY <1>1, <1>2, <1>3 DEF HostTypes
<1>10. CommandTypes'
  BY <1>1, <1>2 DEF CommandTypes, Maps, Goto
<1>11. \A c \in Commands : c # d => Apart(c)
  BY <1>1, <1>2, <1>4 DEF Apart, CommandTypes, Maps, Goto
<1>12. \A c \in Commands : c # d => LeavesUnmoved(c)
  BY <1>2, <1>3, <1>4 DEF LeavesUnmoved
<1> QED BY <1>4, <1>8, <1>10, <1>11, <1>12 DEF Types, HistoryTypes, FrameFor, Frame

LEMMA ClassesAreClasses ==
  ASSUME NEW c \in Commands, NEW r \in Runners, NEW row, NEW listed \in BOOLEAN
  PROVE  Classify(c, r, row, listed) \in Classes
BY DEF Classify, Classes

LEMMA RowsAreRows ==
  ASSUME NEW r \in Runners PROVE Row(r) \in Rows
BY DEF Row, Rows

\* A step that changes nothing on the host, and of the commands only d.
LEMMA QuietFrames ==
  ASSUME Types, NEW d \in Commands,
         UNCHANGED <<h, reg, job, lane>>,
         \A c \in Commands : c # d => Apart(c) /\ moved'[c] = moved[c]
  PROVE  FrameFor(d)
BY DEF FrameFor, Frame, LeavesUnmoved

LEMMA ListAllRunnersFrames ==
  ASSUME Types, NEW d \in Commands, ListAllRunners(d)
  PROVE  Types' /\ FrameFor(d)
<1>1. HostTypes /\ CommandTypes /\ HistoryTypes
  BY DEF Types
<1>2. /\ UNCHANGED <<hostVars, kind, scope, flags, runs, at, class, idr, cut, failed>>
      /\ moved' = [moved EXCEPT ![d] = {}] /\ pc[d] = "list"
  BY DEF ListAllRunners, ctlVars
<1>3. PICK E \in SUBSET Configured :
        /\ errs' = [errs EXCEPT ![d] = E]
        /\ list' = [list EXCEPT ![d] = [r \in Runners |->
             IF OrgOf[r] \in Configured \ E THEN Row(r) ELSE "absent"]]
  BY DEF ListAllRunners
<1>4. list' \in [Commands -> [Runners -> Rows]] /\ \A c \in Commands : c # d => list'[c] = list[c]
  <2> DEFINE L == [r \in Runners |-> IF OrgOf[r] \in Configured \ E THEN Row(r) ELSE "absent"]
  <2>1. L \in [Runners -> Rows]
    BY RowsAreRows DEF Rows
  <2>2. list' = [list EXCEPT ![d] = L]
    BY <1>3
  <2> HIDE DEF L
  <2> QED BY <1>1, <2>1, <2>2 DEF CommandTypes
<1>5. \/ kind[d] = "refresh" /\ todo' = [todo EXCEPT ![d] =
            {r \in Runners : InScope(d, r) /\ list'[d][r] # "absent" /\ h[r].tree = "tree"}]
      \/ todo' = todo
  BY DEF ListAllRunners
<1>6. todo' \in [Commands -> SUBSET Things] /\ \A c \in Commands : c # d => todo'[c] = todo[c]
  BY <1>1, <1>5 DEF CommandTypes, Things
<1>7. Maps(pc)' /\ \A c \in Commands : c # d => pc'[c] = pc[c]
  BY <1>1 DEF ListAllRunners, CommandTypes, Maps, Goto
<1>8. CommandTypes'
  BY <1>1, <1>2, <1>3, <1>4, <1>6, <1>7 DEF CommandTypes, Maps
<1>9. HostTypes' /\ HistoryTypes'
  BY <1>1, <1>2 DEF HostTypes, HistoryTypes, hostVars
<1>10. \A c \in Commands : c # d => Apart(c) /\ moved'[c] = moved[c]
  BY <1>1, <1>2, <1>3, <1>4, <1>6, <1>7 DEF Apart, CommandTypes, HistoryTypes
<1> QED BY <1>2, <1>8, <1>9, <1>10, QuietFrames DEF Types, hostVars

LEMMA ListUnitsFrames ==
  ASSUME Types, NEW d \in Commands, ListUnits(d)
  PROVE  Types' /\ FrameFor(d)
<1>1. HostTypes /\ CommandTypes /\ HistoryTypes
  BY DEF Types
<1>2. /\ UNCHANGED <<hostVars, kind, scope, flags, runs, at, list, errs, class, idr, cut, moved, failed>>
      /\ Goto(d, "inspect") /\ pc[d] = "units"
      /\ todo' = [todo EXCEPT ![d] = {r \in Runners : h[r].unit /\ InScope(d, r)}]
  BY DEF ListUnits, ctlVars, Fine
<1>3. todo' \in [Commands -> SUBSET Things] /\ \A c \in Commands : c # d => todo'[c] = todo[c]
  BY <1>1, <1>2 DEF CommandTypes, Things
<1>4. CommandTypes'
  BY <1>1, <1>2, <1>3 DEF CommandTypes, Maps, Goto
<1>5. HostTypes' /\ HistoryTypes'
  BY <1>1, <1>2 DEF HostTypes, HistoryTypes, hostVars
<1>6. \A c \in Commands : c # d => Apart(c) /\ moved'[c] = moved[c]
  BY <1>1, <1>2, <1>3 DEF Apart, CommandTypes, HistoryTypes, Maps, Goto
<1> QED BY <1>2, <1>4, <1>5, <1>6, QuietFrames DEF Types, hostVars

LEMMA InspectFrames ==
  ASSUME Types, NEW d \in Commands, NEW r \in Runners, Inspect(d, r)
  PROVE  Types' /\ FrameFor(d)
<1>1. HostTypes /\ CommandTypes /\ HistoryTypes
  BY DEF Types
<1>2. /\ UNCHANGED <<hostVars, pc, kind, scope, flags, runs, at, list, errs, idr, cut, moved, failed>>
      /\ todo' = [todo EXCEPT ![d] = @ \ {r}]
      /\ class' = [class EXCEPT ![d][r] = Classify(d, r, list[d][r], OrgOf[r] \notin errs[d])]
  BY DEF Inspect, ctlVars, Fine
<1>3. todo' \in [Commands -> SUBSET Things] /\ \A c \in Commands : c # d => todo'[c] = todo[c]
  BY <1>1, <1>2 DEF CommandTypes
<1>4. class' \in [Commands -> [Runners -> Classes]] /\ \A c \in Commands : c # d => class'[c] = class[c]
  <2>1. Classify(d, r, list[d][r], OrgOf[r] \notin errs[d]) \in Classes
    BY ClassesAreClasses
  <2> DEFINE k == Classify(d, r, list[d][r], OrgOf[r] \notin errs[d])
  <2>2. class' = [class EXCEPT ![d][r] = k] /\ k \in Classes
    BY <1>2, <2>1
  <2> HIDE DEF k
  <2> QED BY <1>1, <2>2 DEF CommandTypes
<1>5. CommandTypes'
  BY <1>1, <1>2, <1>3, <1>4 DEF CommandTypes, Maps
<1>6. HostTypes' /\ HistoryTypes'
  BY <1>1, <1>2 DEF HostTypes, HistoryTypes, hostVars
<1>7. \A c \in Commands : c # d => Apart(c) /\ moved'[c] = moved[c]
  BY <1>2, <1>3, <1>4 DEF Apart
<1> QED BY <1>2, <1>5, <1>6, <1>7, QuietFrames DEF Types, hostVars

LEMMA UnmatchedFrames ==
  ASSUME Types, NEW d \in Commands, Unmatched(d)
  PROVE  Types' /\ FrameFor(d)
<1>1. HostTypes /\ CommandTypes /\ HistoryTypes
  BY DEF Types
<1>2. /\ UNCHANGED <<hostVars, kind, scope, flags, runs, at, list, errs, idr, cut, moved, failed>>
      /\ pc[d] = "inspect"
      /\ todo' = [todo EXCEPT ![d] = {r \in Runners : class'[d][r] # "none"}]
      /\ Goto(d, "repair") \/ Goto(d, "done")
  BY DEF Unmatched, ctlVars, Fine
<1>3. todo' \in [Commands -> SUBSET Things] /\ \A c \in Commands : c # d => todo'[c] = todo[c]
  BY <1>1, <1>2 DEF CommandTypes, Things
<1>4. class' \in [Commands -> [Runners -> Classes]] /\ \A c \in Commands : c # d => class'[c] = class[c]
  <2> DEFINE K == [r \in Runners |->
       IF class[d][r] = "none" /\ InScope(d, r) /\ list[d][r] # "absent"
          /\ (list[d][r] = "offline" \/ h[r].tree = "tree")
       THEN "orphan-github" ELSE class[d][r]]
  <2>1. K \in [Runners -> Classes]
    BY <1>1 DEF CommandTypes, Classes
  <2>2. class' = [class EXCEPT ![d] = K]
    BY DEF Unmatched
  <2> HIDE DEF K
  <2> QED BY <1>1, <2>1, <2>2 DEF CommandTypes
<1>5. CommandTypes'
  BY <1>1, <1>2, <1>3, <1>4 DEF CommandTypes, Maps, Goto
<1>6. HostTypes' /\ HistoryTypes'
  BY <1>1, <1>2 DEF HostTypes, HistoryTypes, hostVars
<1>7. \A c \in Commands : c # d => Apart(c) /\ moved'[c] = moved[c]
  BY <1>1, <1>2, <1>3, <1>4 DEF Apart, CommandTypes, HistoryTypes, Maps, Goto
<1> QED BY <1>2, <1>5, <1>6, <1>7, QuietFrames DEF Types, hostVars

\* RestartUnit's and the others' effect on the host.
LEMMA RestartTypes ==
  ASSUME HostTypes, HistoryTypes, NEW d \in Commands, NEW r \in Runners,
         (h[r].unit /\ Restart(d, r)) \/ UNCHANGED <<h, job, cut, moved>>,
         UNCHANGED <<reg, lane, cfg>>
  PROVE  /\ HostTypes' /\ HistoryTypes'
         /\ \A c \in Commands : c # d => cut'[c] = cut[c] /\ LeavesUnmoved(c)
         /\ moved'[d] = moved[d]
<1>1. CASE h[r].unit /\ Restart(d, r)
  <2>1. Touch(d, {r}) /\ Stops(d, r, r \in job) /\ r \in Things /\ job' = job \ {r}
    BY <1>1 DEF Restart, Things
  <2>2. /\ cut' \in [Commands -> SUBSET Things]
        /\ \A c \in Commands : c # d => cut'[c] = cut[c]
    BY <2>1, Stopped
  <2>3. /\ moved' \in [Commands -> SUBSET Things]
        /\ \A c \in Commands : c # d => moved'[c] = moved[c] \cup {r}
        /\ moved'[d] = moved[d]
    BY <2>1, Touched
  <2>4. /\ h' \in [Runners -> Units] /\ \A x \in Runners : GoodUnit(h'[x])
        /\ \A x \in Runners \ {r} : h'[x] = h[x]
    BY <1>1, RestartedUnit
  <2>5. HostTypes'
    BY <2>1, <2>4 DEF HostTypes
  <2>6. \A c \in Commands : c # d => LeavesUnmoved(c)
    BY <2>1, <2>3, <2>4 DEF LeavesUnmoved
  <2> QED BY <2>2, <2>3, <2>5, <2>6 DEF HistoryTypes
<1>2. CASE UNCHANGED <<h, job, cut, moved>>
  BY <1>2 DEF HostTypes, HistoryTypes, LeavesUnmoved
<1> QED BY <1>1, <1>2

LEMMA TeardownTypes ==
  ASSUME HostTypes, HistoryTypes, NEW d \in Commands, NEW r \in Runners,
         Teardown(d, r), UNCHANGED <<reg, lane, cfg>>
  PROVE  /\ HostTypes' /\ HistoryTypes'
         /\ \A c \in Commands : c # d => cut'[c] = cut[c] /\ LeavesUnmoved(c)
         /\ moved'[d] = moved[d]
<1>1. Touch(d, {r}) /\ Stops(d, r, r \in job) /\ r \in Things /\ job' = job \ {r}
  BY DEF Teardown, Things
<1>2. /\ cut' \in [Commands -> SUBSET Things]
      /\ \A c \in Commands : c # d => cut'[c] = cut[c]
  BY <1>1, Stopped
<1>3. /\ moved' \in [Commands -> SUBSET Things]
      /\ \A c \in Commands : c # d => moved'[c] = moved[c] \cup {r}
      /\ moved'[d] = moved[d]
  BY <1>1, Touched
<1>4. /\ h' \in [Runners -> Units] /\ \A x \in Runners : GoodUnit(h'[x])
      /\ \A x \in Runners \ {r} : h'[x] = h[x]
  BY TeardownUnit
<1>5. HostTypes'
  BY <1>1, <1>4 DEF HostTypes
<1>6. \A c \in Commands : c # d => LeavesUnmoved(c)
  BY <1>1, <1>3, <1>4 DEF LeavesUnmoved
<1> QED BY <1>2, <1>3, <1>5, <1>6 DEF HistoryTypes

\* Wiping a tree or writing a drop-in leaves services and jobs alone.
LEMMA WriteTypes ==
  ASSUME HostTypes, HistoryTypes, NEW d \in Commands, NEW r \in Runners,
         WipeTree(d, r) \/ WriteDropIn(d, r) \/ UNCHANGED <<h, moved>>,
         UNCHANGED <<reg, job, lane, cfg, cut>>
  PROVE  /\ HostTypes' /\ HistoryTypes'
         /\ \A c \in Commands : c # d => LeavesUnmoved(c)
         /\ moved'[d] = moved[d]
<1>1. CASE UNCHANGED <<h, moved>>
  BY <1>1 DEF HostTypes, HistoryTypes, LeavesUnmoved
<1>2. CASE WipeTree(d, r) \/ WriteDropIn(d, r)
  <2>1. Touch(d, {r}) /\ r \in Things
    BY <1>2 DEF WipeTree, WriteDropIn, Things
  <2>2. /\ moved' \in [Commands -> SUBSET Things]
        /\ \A c \in Commands : c # d => moved'[c] = moved[c] \cup {r}
        /\ moved'[d] = moved[d]
    BY <2>1, Touched
  <2>3. /\ h' \in [Runners -> Units] /\ \A x \in Runners : GoodUnit(h'[x])
        /\ \A x \in Runners \ {r} : h'[x] = h[x]
        /\ h'[r].svc = h[r].svc
    BY <1>2, WipeUnit, DropInUnit
  <2>4. HostTypes'
    BY <2>3 DEF HostTypes
  <2>5. \A c \in Commands : c # d => LeavesUnmoved(c)
    BY <2>2, <2>3 DEF LeavesUnmoved
  <2> QED BY <2>2, <2>4, <2>5 DEF HistoryTypes
<1> QED BY <1>1, <1>2

LEMMA RepairOrphanFrames ==
  ASSUME Types, NEW d \in Commands, NEW r \in Runners, RepairOrphan(d, r)
  PROVE  Types' /\ FrameFor(d)
<1>1. HostTypes /\ CommandTypes /\ HistoryTypes
  BY DEF Types
<1>2. /\ UNCHANGED <<reg, lane, cfg, kind, scope, flags, runs, list, errs, todo, class, idr, failed>>
      /\ pc[d] = "repair" /\ Goto(d, "wipe") /\ Teardown(d, r)
      /\ at' = [at EXCEPT ![d] = r]
  BY DEF RepairOrphan, ctlVars, planVars, Fine
<1>3. /\ HostTypes' /\ HistoryTypes'
      /\ \A c \in Commands : c # d => cut'[c] = cut[c] /\ LeavesUnmoved(c)
  BY <1>1, <1>2, TeardownTypes
<1>4. CommandTypes'
  BY <1>1, <1>2 DEF CommandTypes, Maps, Goto
<1>5. \A c \in Commands : c # d => Apart(c)
  BY <1>1, <1>2, <1>3 DEF Apart, CommandTypes, Maps, Goto
<1> QED BY <1>3, <1>4, <1>5 DEF Types, FrameFor, Frame

LEMMA WipeOrphanFrames ==
  ASSUME Types, NEW d \in Commands, WipeOrphan(d)
  PROVE  Types' /\ FrameFor(d)
<1>1. HostTypes /\ CommandTypes /\ HistoryTypes
  BY DEF Types
<1>2. PICK r \in Runners : r = at[d]
  BY <1>1 DEF WipeOrphan, CommandTypes
<1>3. /\ UNCHANGED <<reg, job, lane, cfg, kind, scope, flags, runs, at, list, errs, class, idr, cut>>
      /\ WipeTree(d, r) \/ UNCHANGED <<h, moved>>
      /\ Done(d, r, "repair") /\ pc[d] = "wipe"
      /\ Fine \/ Fail(d, r)
  BY <1>2 DEF WipeOrphan, ctlVars
<1>4. /\ HostTypes' /\ HistoryTypes'
      /\ \A c \in Commands : c # d => LeavesUnmoved(c)
  BY <1>1, <1>3, WriteTypes
<1>5. CommandTypes'
  BY <1>1, <1>3 DEF CommandTypes, Maps, Goto, Done, Fine, Fail
<1>6. \A c \in Commands : c # d => Apart(c)
  BY <1>1, <1>3 DEF Apart, CommandTypes, Maps, Goto, Done, Fine, Fail
<1> QED BY <1>4, <1>5, <1>6 DEF Types, FrameFor, Frame

LEMMA RepairUnitFrames ==
  ASSUME Types, NEW d \in Commands, NEW r \in Runners, RepairUnit(d, r)
  PROVE  Types' /\ FrameFor(d)
<1>1. HostTypes /\ CommandTypes /\ HistoryTypes
  BY DEF Types
<1>2. /\ UNCHANGED <<reg, job, lane, cfg, kind, scope, flags, runs, list, errs, class, idr, cut>>
      /\ WriteDropIn(d, r) \/ UNCHANGED <<h, moved>>
      /\ pc[d] = "repair"
      /\ at' = [at EXCEPT ![d] = r] \/ at' = at
      /\ (Goto(d, "restart") /\ todo' = todo) \/ Done(d, r, "repair")
      /\ Fine \/ Fail(d, r)
  BY DEF RepairUnit, ctlVars
<1>3. /\ HostTypes' /\ HistoryTypes'
      /\ \A c \in Commands : c # d => LeavesUnmoved(c)
  BY <1>1, <1>2, WriteTypes
<1>4. /\ Maps(pc)' /\ Maps(failed)' /\ Maps(at)' /\ todo' \in [Commands -> SUBSET Things]
      /\ \A c \in Commands : c # d => /\ pc'[c] = pc[c] /\ failed'[c] = failed[c]
                                      /\ at'[c] = at[c] /\ todo'[c] = todo[c]
      /\ at'[d] \in Runners
  <2>1. Maps(at)' /\ at'[d] \in Runners /\ \A c \in Commands : c # d => at'[c] = at[c]
    <3>1. CASE at' = [at EXCEPT ![d] = r]
      BY <1>1, <3>1 DEF CommandTypes, Maps
    <3>2. CASE at' = at
      BY <1>1, <1>2, <3>2 DEF CommandTypes, Maps
    <3> QED BY <1>2, <3>1, <3>2
  <2>2. Maps(failed)' /\ \A c \in Commands : c # d => failed'[c] = failed[c]
    BY <1>1, <1>2 DEF CommandTypes, Maps, Fine, Fail
  <2>3. /\ Maps(pc)' /\ todo' \in [Commands -> SUBSET Things]
        /\ \A c \in Commands : c # d => pc'[c] = pc[c] /\ todo'[c] = todo[c]
    <3>1. CASE Goto(d, "restart") /\ todo' = todo
      BY <1>1, <3>1 DEF CommandTypes, Maps, Goto
    <3>2. CASE Done(d, r, "repair")
      BY <1>1, <3>2 DEF CommandTypes, Maps, Goto, Done
    <3> QED BY <1>2, <3>1, <3>2
  <2> QED BY <2>1, <2>2, <2>3
<1>5. CommandTypes'
  BY <1>1, <1>2, <1>4 DEF CommandTypes, Maps
<1>6. \A c \in Commands : c # d => Apart(c)
  BY <1>2, <1>4 DEF Apart
<1> QED BY <1>3, <1>5, <1>6 DEF Types, FrameFor, Frame

LEMMA RestartUnitFrames ==
  ASSUME Types, NEW d \in Commands, RestartUnit(d)
  PROVE  Types' /\ FrameFor(d)
<1>1. HostTypes /\ CommandTypes /\ HistoryTypes
  BY DEF Types
<1>2. PICK r \in Runners : r = at[d]
  BY <1>1 DEF RestartUnit, CommandTypes
<1>3. /\ UNCHANGED <<reg, lane, cfg, kind, scope, flags, runs, at, list, errs, class, idr>>
      /\ (h[r].unit /\ Restart(d, r)) \/ UNCHANGED <<h, job, cut, moved>>
      /\ Done(d, r, IF kind[d] = "fix" THEN "repair" ELSE "refresh") /\ pc[d] = "restart"
      /\ Fine \/ Fail(d, r)
  BY <1>2 DEF RestartUnit, ctlVars
<1>4. /\ HostTypes' /\ HistoryTypes'
      /\ \A c \in Commands : c # d => cut'[c] = cut[c] /\ LeavesUnmoved(c)
  BY <1>1, <1>3, RestartTypes
<1>5. CommandTypes'
  BY <1>1, <1>3 DEF CommandTypes, Maps, Goto, Done, Fine, Fail
<1>6. \A c \in Commands : c # d => Apart(c)
  BY <1>1, <1>3, <1>4 DEF Apart, CommandTypes, Maps, Goto, Done, Fine, Fail
<1> QED BY <1>4, <1>5, <1>6 DEF Types, FrameFor, Frame

LEMMA SkipRepairFrames ==
  ASSUME Types, NEW d \in Commands, NEW r \in Runners, SkipRepair(d, r)
  PROVE  Types' /\ FrameFor(d)
<1>1. HostTypes /\ CommandTypes /\ HistoryTypes
  BY DEF Types
<1>2. /\ UNCHANGED <<hostVars, kind, scope, flags, runs, at, list, errs, class, idr, cut, moved, failed>>
      /\ Done(d, r, "repair") /\ pc[d] = "repair"
  BY DEF SkipRepair, ctlVars, Fine
<1>3. CommandTypes'
  BY <1>1, <1>2 DEF CommandTypes, Maps, Goto, Done
<1>4. HostTypes' /\ HistoryTypes'
  BY <1>1, <1>2 DEF HostTypes, HistoryTypes, hostVars
<1>5. \A c \in Commands : c # d => Apart(c) /\ moved'[c] = moved[c]
  BY <1>1, <1>2 DEF Apart, CommandTypes, Maps, Goto, Done
<1> QED BY <1>2, <1>3, <1>4, <1>5, QuietFrames DEF Types, hostVars

LEMMA RefreshRowFrames ==
  ASSUME Types, NEW d \in Commands, NEW r \in Runners, RefreshRow(d, r)
  PROVE  Types' /\ FrameFor(d)
<1>1. HostTypes /\ CommandTypes /\ HistoryTypes
  BY DEF Types
<1>2. /\ UNCHANGED <<reg, job, lane, cfg, kind, scope, flags, runs, list, errs, class, idr, cut>>
      /\ WriteDropIn(d, r) \/ UNCHANGED <<h, moved>>
      /\ pc[d] = "refresh"
      /\ at' = [at EXCEPT ![d] = r] \/ at' = at
      /\ (Goto(d, "restart") /\ todo' = todo) \/ Done(d, r, "refresh")
      /\ Fine \/ Fail(d, r)
  BY DEF RefreshRow, ctlVars
<1>3. /\ HostTypes' /\ HistoryTypes'
      /\ \A c \in Commands : c # d => LeavesUnmoved(c)
  BY <1>1, <1>2, WriteTypes
<1>4. /\ Maps(pc)' /\ Maps(failed)' /\ Maps(at)' /\ todo' \in [Commands -> SUBSET Things]
      /\ \A c \in Commands : c # d => /\ pc'[c] = pc[c] /\ failed'[c] = failed[c]
                                      /\ at'[c] = at[c] /\ todo'[c] = todo[c]
      /\ at'[d] \in Runners
  <2>1. Maps(at)' /\ at'[d] \in Runners /\ \A c \in Commands : c # d => at'[c] = at[c]
    <3>1. CASE at' = [at EXCEPT ![d] = r]
      BY <1>1, <3>1 DEF CommandTypes, Maps
    <3>2. CASE at' = at
      BY <1>1, <1>2, <3>2 DEF CommandTypes, Maps
    <3> QED BY <1>2, <3>1, <3>2
  <2>2. Maps(failed)' /\ \A c \in Commands : c # d => failed'[c] = failed[c]
    BY <1>1, <1>2 DEF CommandTypes, Maps, Fine, Fail
  <2>3. /\ Maps(pc)' /\ todo' \in [Commands -> SUBSET Things]
        /\ \A c \in Commands : c # d => pc'[c] = pc[c] /\ todo'[c] = todo[c]
    <3>1. CASE Goto(d, "restart") /\ todo' = todo
      BY <1>1, <3>1 DEF CommandTypes, Maps, Goto
    <3>2. CASE Done(d, r, "refresh")
      BY <1>1, <3>2 DEF CommandTypes, Maps, Goto, Done
    <3> QED BY <1>2, <3>1, <3>2
  <2> QED BY <2>1, <2>2, <2>3
<1>5. CommandTypes'
  BY <1>1, <1>2, <1>4 DEF CommandTypes, Maps
<1>6. \A c \in Commands : c # d => Apart(c)
  BY <1>2, <1>4 DEF Apart
<1> QED BY <1>3, <1>5, <1>6 DEF Types, FrameFor, Frame

LEMMA EnumerateFrames ==
  ASSUME Types, NEW d \in Commands, Enumerate(d)
  PROVE  Types' /\ FrameFor(d)
<1>1. HostTypes /\ CommandTypes /\ HistoryTypes
  BY DEF Types
<1>2. /\ UNCHANGED <<hostVars, kind, scope, flags, runs, at, list, errs, class, idr, cut, failed>>
      /\ moved' = [moved EXCEPT ![d] = {}] /\ pc[d] = "enumerate"
      /\ todo' = [todo EXCEPT ![d] = {r \in Runners : h[r].unit /\ InScope(d, r)}
                                   \cup {l \in Lanes : lane[l] # "gone" /\ InScope(d, l)}]
      /\ Goto(d, "lanes") \/ Goto(d, "gate")
  BY DEF Enumerate, ctlVars, Fine
<1>3. todo' \in [Commands -> SUBSET Things] /\ \A c \in Commands : c # d => todo'[c] = todo[c]
  BY <1>1, <1>2 DEF CommandTypes, Things
<1>4. CommandTypes'
  BY <1>1, <1>2, <1>3 DEF CommandTypes, Maps, Goto
<1>5. HostTypes' /\ HistoryTypes'
  BY <1>1, <1>2 DEF HostTypes, HistoryTypes, hostVars
<1>6. \A c \in Commands : c # d => Apart(c) /\ moved'[c] = moved[c]
  BY <1>1, <1>2, <1>3 DEF Apart, CommandTypes, HistoryTypes, Maps, Goto
<1> QED BY <1>2, <1>4, <1>5, <1>6, QuietFrames DEF Types, hostVars

LEMMA GateFrames ==
  ASSUME Types, NEW d \in Commands, GateRunners(d) \/ GateLanes(d)
  PROVE  Types' /\ FrameFor(d)
<1>1. HostTypes /\ CommandTypes /\ HistoryTypes
  BY DEF Types
<1>2. /\ UNCHANGED <<hostVars, kind, scope, flags, runs, at, list, errs, todo, class, idr, cut, failed>>
      /\ pc[d] \in {"gate", "gateLanes"}
  BY DEF GateRunners, GateLanes, ctlVars, planVars, Fine
<1>3. \/ moved' = moved
      \/ moved' = [moved EXCEPT ![d] = @ \ (todo[d] \cap Runners)]
      \/ moved' = [moved EXCEPT ![d] = @ \ (todo[d] \cap Lanes)]
  BY DEF GateRunners, GateLanes
<1>4. Goto(d, "gateLanes") \/ Goto(d, "refused") \/ Goto(d, "lanes") \/ Goto(d, "refusedLane")
  BY DEF GateRunners, GateLanes, Goto
<1>5. CommandTypes'
  BY <1>1, <1>2, <1>4 DEF CommandTypes, Maps, Goto
<1>6. HistoryTypes' /\ \A c \in Commands : c # d => moved'[c] = moved[c]
  BY <1>1, <1>2, <1>3 DEF HistoryTypes
<1>7. HostTypes'
  BY <1>1, <1>2 DEF HostTypes, hostVars
<1>8. \A c \in Commands : c # d => Apart(c) /\ moved'[c] = moved[c]
  BY <1>1, <1>2, <1>4, <1>6 DEF Apart, CommandTypes, Maps, Goto
<1> QED BY <1>2, <1>5, <1>6, <1>7, <1>8, QuietFrames DEF Types, hostVars

LEMMA RemoveLaneFrames ==
  ASSUME Types, NEW d \in Commands, NEW l \in Lanes, RemoveLane(d, l)
  PROVE  Types' /\ FrameFor(d)
<1>1. HostTypes /\ CommandTypes /\ HistoryTypes
  BY DEF Types
<1>2. /\ UNCHANGED <<h, reg, job, cfg, pc, kind, scope, flags, runs, at, list, errs, class, idr>>
      /\ todo' = [todo EXCEPT ![d] = @ \ {l}]
      /\ Fine \/ Fail(d, l)
  BY DEF RemoveLane, ctlVars
<1>3. \/ lane' = [lane EXCEPT ![l] = "gone"] /\ Stops(d, l, lane[l] = "job") /\ Touch(d, {l})
      \/ UNCHANGED <<lane, cut, moved>>
  BY DEF RemoveLane
<1>4. /\ moved' \in [Commands -> SUBSET Things]
      /\ cut' \in [Commands -> SUBSET Things]
      /\ \A c \in Commands : c # d => cut'[c] = cut[c]
      /\ \A c \in Commands : c # d => moved'[c] = moved[c] \cup {l} \/ (lane' = lane /\ moved' = moved)
  <2>1. CASE lane' = [lane EXCEPT ![l] = "gone"] /\ Stops(d, l, lane[l] = "job") /\ Touch(d, {l})
    <3>1. l \in Things
      BY DEF Things
    <3>2. /\ cut' \in [Commands -> SUBSET Things]
          /\ \A c \in Commands : c # d => cut'[c] = cut[c]
      BY <1>1, <2>1, <3>1, Stopped
    <3>3. /\ moved' \in [Commands -> SUBSET Things]
          /\ \A c \in Commands : c # d => moved'[c] = moved[c] \cup {l}
      BY <1>1, <2>1, <3>1, Touched
    <3> QED BY <3>2, <3>3
  <2>2. CASE UNCHANGED <<lane, cut, moved>>
    BY <1>1, <2>2 DEF HistoryTypes
  <2> QED BY <1>3, <2>1, <2>2
<1>5. /\ lane' \in [Lanes -> {"gone", "between", "waiting", "job"}]
      /\ \A x \in Lanes \ {l} : lane'[x] = lane[x]
  BY <1>1, <1>3 DEF HostTypes
<1>6. HostTypes'
  BY <1>1, <1>2, <1>5 DEF HostTypes
<1>7. Maps(failed)' /\ \A c \in Commands : c # d => failed'[c] = failed[c]
  BY <1>1, <1>2 DEF CommandTypes, Maps, Fine, Fail
<1>8. todo' \in [Commands -> SUBSET Things] /\ \A c \in Commands : c # d => todo'[c] = todo[c]
  BY <1>1, <1>2 DEF CommandTypes
<1>9. CommandTypes'
  BY <1>1, <1>2, <1>7, <1>8 DEF CommandTypes, Maps
<1>10. \A c \in Commands : c # d => Apart(c)
  BY <1>2, <1>4, <1>7, <1>8 DEF Apart
<1>11. \A c \in Commands : c # d => LeavesUnmoved(c)
  BY <1>2, <1>4, <1>5 DEF LeavesUnmoved
<1> QED BY <1>4, <1>6, <1>9, <1>10, <1>11 DEF Types, HistoryTypes, FrameFor, Frame

LEMMA TeardownRunnerFrames ==
  ASSUME Types, NEW d \in Commands, NEW r \in Runners, TeardownRunner(d, r)
  PROVE  Types' /\ FrameFor(d)
<1>1. HostTypes /\ CommandTypes /\ HistoryTypes
  BY DEF Types
<1>2. /\ UNCHANGED <<reg, lane, cfg, kind, scope, flags, runs, list, errs, class, failed>>
      /\ pc[d] = "lanes" /\ Goto(d, "wipe") /\ Teardown(d, r)
      /\ at' = [at EXCEPT ![d] = r]
      /\ todo' = [todo EXCEPT ![d] = @ \ {r}]
  BY DEF TeardownRunner, ctlVars, Fine
<1>3. /\ HostTypes' /\ HistoryTypes'
      /\ \A c \in Commands : c # d => cut'[c] = cut[c] /\ LeavesUnmoved(c)
  BY <1>1, <1>2, TeardownTypes
<1>4. idr' \in [Commands -> Ids] /\ \A c \in Commands : c # d => idr'[c] = idr[c]
  <2> DEFINE i == IF h[r].tree = "tree" THEN h[r].id ELSE NoId
  <2>1. i \in Ids
    BY <1>1, IdsAreNumbers DEF HostTypes, Units, NoId
  <2>2. idr' = [idr EXCEPT ![d] = i]
    BY DEF TeardownRunner
  <2> HIDE DEF i
  <2> QED BY <1>1, <2>1, <2>2 DEF CommandTypes
<1>5. CommandTypes'
  BY <1>1, <1>2, <1>4 DEF CommandTypes, Maps, Goto
<1>6. \A c \in Commands : c # d => Apart(c)
  BY <1>1, <1>2, <1>3, <1>4 DEF Apart, CommandTypes, Maps, Goto
<1> QED BY <1>3, <1>5, <1>6 DEF Types, FrameFor, Frame

LEMMA WipeRunnerFrames ==
  ASSUME Types, NEW d \in Commands, WipeRunner(d)
  PROVE  Types' /\ FrameFor(d)
<1>1. HostTypes /\ CommandTypes /\ HistoryTypes
  BY DEF Types
<1>2. PICK r \in Runners : r = at[d]
  BY <1>1 DEF WipeRunner, CommandTypes
<1>3. /\ UNCHANGED <<reg, job, lane, cfg, kind, scope, flags, runs, at, list, errs, todo, class, idr, cut>>
      /\ WipeTree(d, r) \/ UNCHANGED <<h, moved>>
      /\ Goto(d, "lanes") \/ Goto(d, "deregister")
      /\ pc[d] = "wipe"
      /\ Fine \/ Fail(d, r)
  BY <1>2 DEF WipeRunner, ctlVars, planVars
<1>4. /\ HostTypes' /\ HistoryTypes'
      /\ \A c \in Commands : c # d => LeavesUnmoved(c)
  BY <1>1, <1>3, WriteTypes
<1>5. CommandTypes'
  BY <1>1, <1>3 DEF CommandTypes, Maps, Goto, Fine, Fail
<1>6. \A c \in Commands : c # d => Apart(c)
  BY <1>1, <1>3 DEF Apart, CommandTypes, Maps, Goto, Fine, Fail
<1> QED BY <1>4, <1>5, <1>6 DEF Types, FrameFor, Frame

LEMMA DeregisterRunnerFrames ==
  ASSUME Types, NEW d \in Commands, DeregisterRunner(d)
  PROVE  Types' /\ FrameFor(d)
<1>1. HostTypes /\ CommandTypes /\ HistoryTypes
  BY DEF Types
<1>2. PICK r \in Runners : r = at[d]
  BY <1>1 DEF DeregisterRunner, CommandTypes
<1>3. /\ UNCHANGED <<lane, cfg, kind, scope, flags, runs, at, list, errs, todo, class, idr>>
      /\ Touch(d, {r}) /\ Goto(d, "lanes")
      /\ pc[d] = "deregister"
      /\ Fine \/ Fail(d, r)
      /\ (Forget(r) /\ job' = job \ {r} /\ Stops(d, r, r \in job)) \/ UNCHANGED <<h, reg, job, cut>>
  BY <1>2 DEF DeregisterRunner, ctlVars, planVars
<1>4. r \in Things
  BY DEF Things
<1>5. /\ moved' \in [Commands -> SUBSET Things]
      /\ \A c \in Commands : c # d => moved'[c] = moved[c] \cup {r}
  BY <1>1, <1>3, <1>4, Touched
<1>6. /\ cut' \in [Commands -> SUBSET Things]
      /\ \A c \in Commands : c # d => cut'[c] = cut[c]
  <2>1. CASE Stops(d, r, r \in job)
    BY <1>1, <1>4, <2>1, Stopped
  <2>2. CASE cut' = cut
    BY <1>1, <2>2 DEF HistoryTypes
  <2> QED BY <1>3, <2>1, <2>2
<1>7. /\ HostTypes'
      /\ \A x \in Runners \ {r} : h'[x] = h[x] /\ reg'[x] = reg[x] /\ (x \in job' <=> x \in job)
  <2>1. CASE Forget(r) /\ job' = job \ {r}
    BY <1>1, <1>3, <2>1, ForgottenUnit DEF HostTypes
  <2>2. CASE UNCHANGED <<h, reg, job>>
    BY <1>1, <1>3, <2>2 DEF HostTypes
  <2> QED BY <1>3, <2>1, <2>2
<1>8. CommandTypes'
  BY <1>1, <1>3 DEF CommandTypes, Maps, Goto, Fine, Fail
<1>9. \A c \in Commands : c # d => Apart(c)
  BY <1>1, <1>3, <1>6 DEF Apart, CommandTypes, Maps, Goto, Fine, Fail
<1>10. \A c \in Commands : c # d => LeavesUnmoved(c)
  BY <1>3, <1>5, <1>7 DEF LeavesUnmoved
<1> QED BY <1>5, <1>6, <1>7, <1>8, <1>9, <1>10 DEF Types, HistoryTypes, FrameFor, Frame

LEMMA PurgeBaseFrames ==
  ASSUME Types, NEW d \in Commands, PurgeBase(d)
  PROVE  Types' /\ FrameFor(d)
<1>1. HostTypes /\ CommandTypes /\ HistoryTypes
  BY DEF Types
<1>2. /\ UNCHANGED <<reg, job, lane, cfg, kind, scope, flags, runs, at, list, errs, todo, class, idr, cut>>
      /\ Goto(d, "backup") \/ Goto(d, "binary")
      /\ pc[d] = "lanes"
      /\ Fine \/ failed' = [failed EXCEPT ![d] = @ \cup {Host}]
  BY DEF PurgeBase, ctlVars, planVars
<1>3. PICK gone :
        /\ h' = [r \in Runners |->
               IF OrgOf[r] \in gone /\ h[r].tree # "none" /\ (scope[d] = Host \/ h[r].tree = "tree")
               THEN [h[r] EXCEPT !.tree = "none", !.id = NoId] ELSE h[r]]
        /\ Touch(d, {r \in Runners : h'[r] # h[r]})
  BY DEF PurgeBase
<1>4. \A r \in Runners : GoodUnit(h'[r]) /\ h'[r] \in Units /\ h'[r].svc = h[r].svc
  <2> TAKE r \in Runners
  <2> DEFINE u == [h[r] EXCEPT !.tree = "none", !.id = NoId]
  <2>1. GoodUnit(u) /\ u \in Units /\ u.svc = h[r].svc
    BY <1>1, IdsAreNumbers DEF HostTypes, GoodUnit, Units, NoId
  <2>2. h'[r] = u \/ h'[r] = h[r]
    BY <1>3
  <2> HIDE DEF u
  <2> QED BY <1>1, <2>1, <2>2 DEF HostTypes
<1>5. h' \in [Runners -> Units]
  <2>1. h' = [r \in Runners |-> h'[r]]
    BY <1>3
  <2> QED BY <1>4, <2>1
<1>6. HostTypes'
  BY <1>1, <1>2, <1>4, <1>5 DEF HostTypes
<1>7. /\ moved' \in [Commands -> SUBSET Things]
      /\ \A c \in Commands : c # d => moved'[c] = moved[c] \cup {r \in Runners : h'[r] # h[r]}
  <2> DEFINE X == {r \in Runners : h'[r] # h[r]}
  <2>1. X \in SUBSET Things /\ Touch(d, X)
    BY <1>3 DEF Things
  <2> HIDE DEF X
  <2>2. moved' \in [Commands -> SUBSET Things] /\ \A c \in Commands : c # d => moved'[c] = moved[c] \cup X
    BY <1>1, <2>1, Touched
  <2> QED BY <2>2 DEF X
<1>8. CommandTypes'
  BY <1>1, <1>2 DEF CommandTypes, Maps, Goto, Fine
<1>9. \A c \in Commands : c # d => Apart(c)
  BY <1>1, <1>2 DEF Apart, CommandTypes, Maps, Goto, Fine
<1>10. \A c \in Commands : c # d => LeavesUnmoved(c)
  BY <1>2, <1>7 DEF LeavesUnmoved
<1> QED BY <1>1, <1>2, <1>6, <1>7, <1>8, <1>9, <1>10 DEF Types, HistoryTypes, FrameFor, Frame

LEMMA ConfigFrames ==
  ASSUME Types, NEW d \in Commands, BackupConfigDir(d) \/ RemoveConfigDir(d) \/ RemoveBinary(d)
  PROVE  Types' /\ FrameFor(d)
<1>1. HostTypes /\ CommandTypes /\ HistoryTypes
  BY DEF Types
<1>2. /\ UNCHANGED <<h, reg, job, lane, kind, scope, flags, runs, at, list, errs, todo, class, idr, cut, moved>>
      /\ Goto(d, "config") \/ Goto(d, "done") \/ Goto(d, "binary")
      /\ pc[d] \in {"backup", "config", "binary"}
      /\ failed' = failed \/ failed' = [failed EXCEPT ![d] = @ \cup {Host}]
  BY DEF BackupConfigDir, RemoveConfigDir, RemoveBinary, ctlVars, planVars, Fine, Fail
<1>3. cfg' \in [dir : BOOLEAN, backup : {"none", "torn", "full"}, binary : BOOLEAN, isolated : BOOLEAN]
  <2>1. CASE BackupConfigDir(d)
    BY <1>1, <2>1 DEF BackupConfigDir, HostTypes
  <2>2. CASE RemoveConfigDir(d)
    BY <1>1, <2>2 DEF RemoveConfigDir, HostTypes
  <2>3. CASE RemoveBinary(d)
    <3>1. PICK b \in BOOLEAN : cfg' = [cfg EXCEPT !.binary = b]
      BY <1>1, <2>3 DEF RemoveBinary, HostTypes
    <3> QED BY <1>1, <3>1 DEF HostTypes
  <2> QED BY <2>1, <2>2, <2>3
<1>4. HostTypes' /\ HistoryTypes'
  BY <1>1, <1>2, <1>3 DEF HostTypes, HistoryTypes
<1>5. CommandTypes'
  BY <1>1, <1>2 DEF CommandTypes, Maps, Goto
<1>6. \A c \in Commands : c # d => Apart(c) /\ moved'[c] = moved[c]
  BY <1>1, <1>2 DEF Apart, CommandTypes, Maps, Goto
<1> QED BY <1>2, <1>4, <1>5, <1>6, QuietFrames DEF Types

LEMMA BeginFrames ==
  ASSUME Types, NEW d \in Commands, Begin(d)
  PROVE  Types' /\ FrameFor(d)
<1>1. HostTypes /\ CommandTypes /\ HistoryTypes
  BY DEF Types
<1>2. PICK k \in KindsOf[d], s \in Scopes, F \in Flags, r \in Runners :
       /\ k # "uninstall" => F = {}
       /\ k = "create" => OrgOf[r] = s /\ ~h[r].unit
       /\ k # "create" => r = CHOOSE x \in Runners : TRUE
       /\ kind'  = [kind EXCEPT ![d] = k]
       /\ scope' = [scope EXCEPT ![d] = s]
       /\ flags' = [flags EXCEPT ![d] = IF k = "uninstall" THEN EffectiveFlags(s, F) ELSE F]
       /\ at'    = [at EXCEPT ![d] = r]
       /\ Goto(d, CASE k = "create" -> "create" [] k = "uninstall" -> "enumerate" [] OTHER -> "list")
  BY Zenon DEF Begin
<1>3. /\ UNCHANGED hostVars
      /\ list' = [list EXCEPT ![d] = [r1 \in Runners |-> "absent"]]
      /\ errs' = [errs EXCEPT ![d] = {}] /\ todo' = [todo EXCEPT ![d] = {}]
      /\ class' = [class EXCEPT ![d] = [r1 \in Runners |-> "none"]]
      /\ idr' = [idr EXCEPT ![d] = NoId] /\ cut' = [cut EXCEPT ![d] = {}]
      /\ moved' = [moved EXCEPT ![d] = {}] /\ failed' = [failed EXCEPT ![d] = {}]
  BY DEF Begin
<1>4. s \in {Host} \cup Configured
  BY HostConstants
<1>5. list' \in [Commands -> [Runners -> Rows]] /\ class' \in [Commands -> [Runners -> Classes]]
  BY <1>1, <1>3 DEF CommandTypes, Rows, Classes
<1>6. /\ idr' \in [Commands -> Ids] /\ errs' \in [Commands -> SUBSET Configured]
      /\ todo' \in [Commands -> SUBSET Things] /\ scope' \in [Commands -> {Host} \cup Configured]
  BY <1>1, <1>2, <1>3, <1>4, IdsAreNumbers DEF CommandTypes, NoId
<1>7. CommandTypes'
  BY <1>1, <1>2, <1>3, <1>5, <1>6 DEF CommandTypes, Maps, Goto
<1>8. HostTypes' /\ HistoryTypes'
  BY <1>1, <1>3 DEF HostTypes, HistoryTypes, hostVars
<1>9. \A c \in Commands : c # d => Apart(c) /\ moved'[c] = moved[c]
  BY <1>1, <1>2, <1>3 DEF Apart, CommandTypes, HistoryTypes, Maps, Goto
<1> QED BY <1>3, <1>7, <1>8, <1>9, QuietFrames DEF Types, hostVars

\* GitHub, jobs, services and lanes: a frame for every command.
LEMMA GitHubFrames ==
  ASSUME Types, GitHubStep
  PROVE  Types' /\ \A c \in Commands : Frame(c)
<1>1. HostTypes /\ CommandTypes /\ HistoryTypes
  BY DEF Types
<1>2. Quiet
  BY DEF GitHubStep, TakeJob, FinishJob, ServiceDrops, RemovedOnGitHub, LaneStep
<1>3. CommandTypes' /\ cut' = cut /\ cfg' = cfg
  BY <1>1, <1>2 DEF CommandTypes, Quiet, ctlVars, planVars, Maps
<1>4. \A c \in Commands : Apart(c)
  BY <1>2 DEF Apart, Quiet, ctlVars, planVars
<1>5. ASSUME NEW x \in Things, Touch(Nobody, {x})
      PROVE  /\ moved' \in [Commands -> SUBSET Things]
             /\ \A c \in Commands : moved'[c] = moved[c] \cup {x}
  <2>1. \A c \in Commands : c # Nobody
    BY HostConstants
  <2> QED BY <1>1, <1>5, <2>1, Touched
<1>6. ASSUME NEW r \in Runners, OrgOf[r] \in Configured, Touch(Nobody, {r}), lane' = lane,
             h' \in [Runners -> Units], \A x \in Runners : GoodUnit(h'[x]),
             \A x \in Runners \ {r} : h'[x] = h[x] /\ reg'[x] = reg[x] /\ (x \in job' <=> x \in job),
             reg' \in [Runners -> Ids], job' \subseteq Runners,
             r \in job' => h'[r].svc = "online" /\ reg'[r] # NoId
      PROVE  HostTypes' /\ HistoryTypes' /\ \A c \in Commands : LeavesUnmoved(c)
  <2>1. /\ moved' \in [Commands -> SUBSET Things]
        /\ \A c \in Commands : moved'[c] = moved[c] \cup {r}
    BY <1>5, <1>6 DEF Things
  <2>2. HostTypes'
    BY <1>1, <1>3, <1>6 DEF HostTypes
  <2>3. \A c \in Commands : LeavesUnmoved(c)
    BY <1>6, <2>1 DEF LeavesUnmoved
  <2> QED BY <1>1, <1>3, <2>1, <2>2, <2>3 DEF HistoryTypes
<1>7. HostTypes' /\ HistoryTypes' /\ \A c \in Commands : LeavesUnmoved(c)
  <2>1. ASSUME NEW r \in Runners, OrgOf[r] \in Configured, TakeJob(r)
        PROVE  HostTypes' /\ HistoryTypes' /\ \A c \in Commands : LeavesUnmoved(c)
    BY <1>1, <1>6, <2>1 DEF TakeJob, HostTypes, Registered
  <2>2. ASSUME NEW r \in Runners, OrgOf[r] \in Configured, FinishJob(r)
        PROVE  HostTypes' /\ HistoryTypes' /\ \A c \in Commands : LeavesUnmoved(c)
    BY <1>1, <1>6, <2>2 DEF FinishJob, HostTypes
  <2>3. ASSUME NEW r \in Runners, OrgOf[r] \in Configured, ServiceDrops(r)
        PROVE  HostTypes' /\ HistoryTypes' /\ \A c \in Commands : LeavesUnmoved(c)
    <3>1. PICK s \in {"down", "deaf"} : h' = [h EXCEPT ![r].svc = s]
      BY <2>3 DEF ServiceDrops
    <3>2. /\ h' \in [Runners -> Units] /\ \A x \in Runners : GoodUnit(h'[x])
          /\ \A x \in Runners \ {r} : h'[x] = h[x]
      BY <1>1, <2>3, <3>1, ServiceUnit DEF ServiceDrops
    <3>3. job' = job \ {r} /\ reg' = reg /\ lane' = lane /\ Touch(Nobody, {r})
      BY <2>3 DEF ServiceDrops
    <3> QED BY <1>1, <1>6, <2>3, <3>2, <3>3 DEF HostTypes
  <2>4. ASSUME NEW r \in Runners, OrgOf[r] \in Configured, RemovedOnGitHub(r)
        PROVE  HostTypes' /\ HistoryTypes' /\ \A c \in Commands : LeavesUnmoved(c)
    <3>1. Forget(r) /\ job' = job /\ lane' = lane /\ Touch(Nobody, {r}) /\ r \notin job
      BY <2>4 DEF RemovedOnGitHub
    <3>2. /\ h' \in [Runners -> Units] /\ \A x \in Runners : GoodUnit(h'[x])
          /\ \A x \in Runners \ {r} : h'[x] = h[x]
          /\ reg' \in [Runners -> Ids] /\ \A x \in Runners \ {r} : reg'[x] = reg[x]
      BY <1>1, <3>1, ForgottenUnit
    <3> QED BY <1>1, <1>6, <2>4, <3>1, <3>2 DEF HostTypes
  <2>5. ASSUME NEW l \in Lanes, LaneStep(l)
        PROVE  HostTypes' /\ HistoryTypes' /\ \A c \in Commands : LeavesUnmoved(c)
    <3>1. Touch(Nobody, {l}) /\ l \in Things /\ UNCHANGED <<h, reg, job>>
      BY <2>5 DEF LaneStep, Things
    <3>2. /\ moved' \in [Commands -> SUBSET Things]
          /\ \A c \in Commands : moved'[c] = moved[c] \cup {l}
      BY <1>5, <3>1
    <3>3. /\ lane' \in [Lanes -> {"gone", "between", "waiting", "job"}]
          /\ \A x \in Lanes \ {l} : lane'[x] = lane[x]
      BY <1>1, <2>5 DEF LaneStep, HostTypes
    <3>4. HostTypes'
      BY <1>1, <1>3, <3>1, <3>3 DEF HostTypes
    <3>5. \A c \in Commands : LeavesUnmoved(c)
      BY <3>1, <3>2, <3>3 DEF LeavesUnmoved
    <3> QED BY <1>1, <1>3, <3>2, <3>4, <3>5 DEF HistoryTypes
  <2> QED BY <2>1, <2>2, <2>3, <2>4, <2>5 DEF GitHubStep
<1> QED BY <1>3, <1>4, <1>7 DEF Types, Frame

\* Every step of a command d is a frame for the others; and types are kept.
LEMMA CommandFrames ==
  ASSUME Types, NEW d \in Commands, Begin(d) \/ CreateStep(d) \/ ReconcileStep(d) \/ UninstallStep(d)
  PROVE  Types' /\ FrameFor(d)
<1>1. CASE Begin(d)
  BY <1>1, BeginFrames
<1>2. CASE CreateStep(d)
  BY <1>2, CreateFrames, RegisterFrames, InstallFrames, HardenFrames, StartFrames DEF CreateStep
<1>3. CASE ReconcileStep(d)
  BY <1>3, ListAllRunnersFrames, ListUnitsFrames, UnmatchedFrames, WipeOrphanFrames, RestartUnitFrames,
     InspectFrames, RepairOrphanFrames, RepairUnitFrames, SkipRepairFrames, RefreshRowFrames
     DEF ReconcileStep
<1>4. CASE UninstallStep(d)
  BY <1>4, EnumerateFrames, GateFrames, WipeRunnerFrames, DeregisterRunnerFrames, PurgeBaseFrames,
     ConfigFrames, RemoveLaneFrames, TeardownRunnerFrames
     DEF UninstallStep
<1> QED BY <1>1, <1>2, <1>3, <1>4

-----------------------------------------------------------------------------
(* What holds of one command, whatever the others do.                      *)

CreateStages    == {"create", "register", "install", "harden", "start"}
ReconcileStages == {"list", "units", "inspect", "repair", "restart", "refresh"}
UninstallStages == {"enumerate", "gate", "gateLanes", "lanes", "deregister",
                    "backup", "config", "binary"}

KindFits(c) ==
  /\ pc[c] \in CreateStages => kind[c] = "create"
  /\ pc[c] \in UninstallStages => kind[c] = "uninstall"
  /\ pc[c] \in ReconcileStages => kind[c] \notin {"create", "uninstall"}
  /\ pc[c] = "wipe" => kind[c] \in {"fix", "uninstall"}
  /\ pc[c] = "repair" => kind[c] = "fix"
  /\ pc[c] = "refresh" => kind[c] = "refresh"
  /\ pc[c] = "restart" => kind[c] \in {"fix", "refresh"}

\* What a pass stops it stops after its last look at GitHub and the lanes.
NothingCutYet(c) ==
  pc[c] \in {"list", "units", "inspect", "enumerate", "gate", "gateLanes"} => cut[c] = {}

\* Classes are given by the inspection, which a refresh has not got.
NotJudgedYet(c) ==
  /\ kind[c] = "refresh" => pc[c] \notin {"units", "inspect", "repair"}
  /\ kind[c] = "refresh" \/ pc[c] \in {"list", "units"} => \A r \in Runners : class[c][r] = "none"

Listed(c, r) == OrgOf[r] \in Configured \ errs[c]

AfterListing(c) ==
  /\ kind[c] \notin {"create", "uninstall"}
  /\ pc[c] \in {"units", "inspect", "repair", "restart", "wipe", "refresh"}

\* The pass has not changed the runner yet.
Unhandled(c, r) == \/ pc[c] \in {"units", "inspect"}
                   \/ r \in todo[c] /\ ~(pc[c] = "wipe" /\ r = at[c])

\* The rows of a listing are true of what has not moved since.
RowsAreCurrent(c) == AfterListing(c) => \A r \in Runners :
  /\ list[c][r] # "absent" => Listed(c, r)
  /\ Listed(c, r) /\ Unhandled(c, r) /\ r \notin moved[c] => list[c][r] = Row(r)

\* So are the classes, as far as the repairs rely on them.
ClassesAreCurrent(c) == AfterListing(c) => \A r \in Runners :
  /\ class[c][r] = "orphan-unit" => list[c][r] = "absent" /\ Listed(c, r)
  /\ class[c][r] \in {"stale-dropin", "stuck"} =>
       list[c][r] # "absent" /\ (r \in moved[c] \/ ~Newer(c, h[r].drop))

\* What is restarted was listed, and idle in the listing.
RestartsIdle(c) ==
  /\ kind[c] = "refresh" /\ pc[c] \in {"refresh", "restart"} =>
       \A r \in todo[c] \cap Runners : list[c][r] # "absent"
  /\ pc[c] = "restart" => at[c] \in todo[c] /\ list[c][at[c]] \notin {"absent", "busy"}

Removing(c) == kind[c] = "uninstall" /\ pc[c] \in {"gate", "gateLanes", "lanes", "wipe", "deregister"}

\* Nothing is inspected, and an uninstall has nothing on its list, that is not
\* in its scope, ...
PlanInScope(c) ==
  /\ Removing(c) \/ pc[c] = "inspect" => \A x \in todo[c] : InScope(c, x)
  /\ Removing(c) /\ pc[c] \in {"wipe", "deregister"} => InScope(c, at[c])
  /\ pc[c] \in {"backup", "config"} => RemovesConfig(c)

\* ... and past the drain gate a job on it has come since.
GateHolds(c) == Removing(c) /\ ~Has(c, "force") =>
  /\ pc[c] # "gate" /\ ~Has(c, "keepGitHub") =>
       \A r \in todo[c] \cap Runners : r \in job => r \in moved[c]
  /\ pc[c] \notin {"gate", "gateLanes"} =>
       \A l \in todo[c] \cap Lanes : lane[l] = "job" => l \in moved[c]
  /\ pc[c] \in {"wipe", "deregister"} => (at[c] \in job => at[c] \in moved[c])

StopsLate(c) == kind[c] # "create" /\ ~Has(c, "force") =>
  cut[c] \subseteq moved[c] \cup (IF Has(c, "keepGitHub") THEN Runners ELSE {})

PassInv(c) ==
  /\ KindFits(c) /\ NothingCutYet(c) /\ NotJudgedYet(c)
  /\ RowsAreCurrent(c) /\ ClassesAreCurrent(c) /\ RestartsIdle(c)
  /\ PlanInScope(c) /\ GateHolds(c) /\ StopsLate(c)

LEMMA RowKept ==
  ASSUME NEW r \in Runners, h'[r].svc = h[r].svc, h'[r].id = h[r].id, reg'[r] = reg[r],
         r \in job' <=> r \in job
  PROVE  Row(r)' = Row(r)
BY DEF Row, Registered

\* A busy row is a job: a runner with a job is registered.
LEMMA RowOfJob ==
  ASSUME HostTypes, NEW r \in Runners
  PROVE  /\ r \in job => Row(r) = "busy"
         /\ Row(r) = "absent" <=> reg[r] = NoId
         /\ Row(r) = "busy" => r \in job
BY DEF HostTypes, Row

LEMMA FrameKeeps ==
  ASSUME Types, Types', NEW c \in Commands, Frame(c), PassInv(c)
  PROVE  PassInv(c)'
<1>1. Apart(c) /\ LeavesUnmoved(c)
  BY DEF Frame
<1>2. AfterListing(c)' = AfterListing(c) /\ \A r \in Runners : Listed(c, r)' = Listed(c, r) /\ Unhandled(c, r)' = Unhandled(c, r)
  BY <1>1 DEF Apart, AfterListing, Listed, Unhandled
<1>3. KindFits(c)' /\ NothingCutYet(c)' /\ NotJudgedYet(c)' /\ RestartsIdle(c)'
  BY <1>1 DEF PassInv, Apart, KindFits, NothingCutYet, NotJudgedYet, RestartsIdle
<1>4. RowsAreCurrent(c)'
  <2>1. ASSUME NEW r \in Runners, r \notin moved'[c] PROVE Row(r)' = Row(r)
    BY <1>1, <2>1, RowKept DEF LeavesUnmoved
  <2>2. list'[c] = list[c] /\ moved[c] \subseteq moved'[c]
    BY <1>1 DEF Apart, LeavesUnmoved
  <2>3. RowsAreCurrent(c)
    BY DEF PassInv
  <2> QED BY <1>2, <2>1, <2>2, <2>3 DEF RowsAreCurrent
<1>5. ClassesAreCurrent(c)'
  <2>1. ASSUME NEW r \in Runners, r \notin moved'[c] PROVE Newer(c, h[r].drop)' = Newer(c, h[r].drop)
    BY <1>1, <2>1 DEF LeavesUnmoved, Newer
  <2>2. list'[c] = list[c] /\ class'[c] = class[c] /\ moved[c] \subseteq moved'[c]
    BY <1>1 DEF Apart, LeavesUnmoved
  <2>3. ClassesAreCurrent(c)
    BY DEF PassInv
  <2> QED BY <1>2, <2>1, <2>2, <2>3 DEF ClassesAreCurrent
<1>6. PlanInScope(c)'
  BY <1>1 DEF PassInv, PlanInScope, Apart, Removing, InScope, RemovesConfig, Has
<1>7. GateHolds(c)'
  <2>1. Removing(c)' = Removing(c) /\ Has(c, "force")' = Has(c, "force") /\ Has(c, "keepGitHub")' = Has(c, "keepGitHub")
    BY <1>1 DEF Apart, Removing, Has
  <2>2. /\ \A r \in Runners : r \in job' => r \in job \/ r \in moved'[c]
        /\ \A l \in Lanes : lane'[l] = "job" => lane[l] = "job" \/ l \in moved'[c]
        /\ moved[c] \subseteq moved'[c] /\ pc'[c] = pc[c] /\ todo'[c] = todo[c] /\ at'[c] = at[c]
    BY <1>1 DEF Apart, LeavesUnmoved
  <2>3. GateHolds(c)
    BY DEF PassInv
  <2>4. Removing(c) /\ pc[c] \in {"wipe", "deregister"} => at[c] \in Runners
    BY DEF Types, CommandTypes
  <2> QED BY <2>1, <2>2, <2>3, <2>4 DEF GateHolds
<1>8. StopsLate(c)'
  BY <1>1 DEF PassInv, StopsLate, Apart, LeavesUnmoved, Has
<1> QED BY <1>3, <1>4, <1>5, <1>6, <1>7, <1>8 DEF PassInv

\* Begin sets a command up anew, in the stage of its kind.
LEMMA Begun ==
  ASSUME Types, NEW d \in Commands, Begin(d)
  PROVE  /\ \/ kind'[d] = "create" /\ pc'[d] = "create"
            \/ kind'[d] = "uninstall" /\ pc'[d] = "enumerate"
            \/ kind'[d] \notin {"create", "uninstall"} /\ pc'[d] = "list"
         /\ cut'[d] = {} /\ cfg.dir /\ UNCHANGED hostVars
         /\ \A r \in Runners : class'[d][r] = "none"
<1>1. PICK k \in KindsOf[d], s \in Scopes, F \in Flags, r \in Runners :
       /\ k # "uninstall" => F = {}
       /\ k = "create" => OrgOf[r] = s /\ ~h[r].unit
       /\ k # "create" => r = CHOOSE x \in Runners : TRUE
       /\ kind'  = [kind EXCEPT ![d] = k]
       /\ scope' = [scope EXCEPT ![d] = s]
       /\ flags' = [flags EXCEPT ![d] = IF k = "uninstall" THEN EffectiveFlags(s, F) ELSE F]
       /\ at'    = [at EXCEPT ![d] = r]
       /\ Goto(d, CASE k = "create" -> "create" [] k = "uninstall" -> "enumerate" [] OTHER -> "list")
  BY Zenon DEF Begin
<1>2. kind'[d] = k
  BY <1>1 DEF Types, CommandTypes, Maps
<1>3. pc' = [pc EXCEPT ![d] = CASE k = "create" -> "create" [] k = "uninstall" -> "enumerate" [] OTHER -> "list"]
  BY <1>1 DEF Goto
<1>4. /\ k = "create" => pc'[d] = "create"
      /\ k = "uninstall" => pc'[d] = "enumerate"
      /\ k \notin {"create", "uninstall"} => pc'[d] = "list"
  BY <1>3 DEF Types, CommandTypes, Maps
<1>5. cut'[d] = {} /\ cfg.dir /\ UNCHANGED hostVars /\ \A q \in Runners : class'[d][q] = "none"
  BY DEF Begin, Types, HistoryTypes, CommandTypes
<1> QED BY <1>2, <1>4, <1>5

LEMMA BeginKeeps ==
  ASSUME Types, NEW d \in Commands, Begin(d)
  PROVE  PassInv(d)'
BY Begun DEF PassInv, KindFits, NothingCutYet, NotJudgedYet, RowsAreCurrent, ClassesAreCurrent, RestartsIdle,
   AfterListing, PlanInScope, Removing, GateHolds, StopsLate, CreateStages, ReconcileStages, UninstallStages

\* A creation stays in its own stages.
LEMMA CreateKeeps ==
  ASSUME Types, NEW d \in Commands, CreateStep(d), PassInv(d)
  PROVE  PassInv(d)'
<1>1. pc[d] \in CreateStages /\ kind' = kind
  BY DEF CreateStep, Create, Register, InstallUnit, Harden, Start, CreateStages, ctlVars
<1>2. kind'[d] = "create"
  BY <1>1 DEF PassInv, KindFits
<1>3. Maps(pc) /\ (\/ Goto(d, "register") \/ Goto(d, "install") \/ Goto(d, "idle") \/ Goto(d, "harden") \/ Goto(d, "start"))
  BY DEF CreateStep, Create, Register, InstallUnit, Harden, Start, Types, CommandTypes
<1>4. pc'[d] \in {"register", "install", "idle", "harden", "start"}
  BY <1>3 DEF Goto, Maps
<1> QED BY <1>2, <1>4 DEF PassInv, KindFits, NothingCutYet, NotJudgedYet, RowsAreCurrent, ClassesAreCurrent, RestartsIdle,
   AfterListing, PlanInScope, Removing, GateHolds, StopsLate, CreateStages, ReconcileStages, UninstallStages

LEMMA ListAllRunnersKeeps ==
  ASSUME Types, NEW d \in Commands, ListAllRunners(d), PassInv(d)
  PROVE  PassInv(d)'
<1>1. HostTypes /\ CommandTypes /\ HistoryTypes /\ KindFits(d) /\ NothingCutYet(d) /\ NotJudgedYet(d)
  BY DEF Types, PassInv
<1>2. /\ UNCHANGED <<hostVars, kind, scope, flags, class, cut>>
      /\ moved' = [moved EXCEPT ![d] = {}] /\ pc[d] = "list"
  BY DEF ListAllRunners, ctlVars
<1>3. PICK E \in SUBSET Configured :
        /\ errs' = [errs EXCEPT ![d] = E]
        /\ list' = [list EXCEPT ![d] = [r \in Runners |->
             IF OrgOf[r] \in Configured \ E THEN Row(r) ELSE "absent"]]
  BY DEF ListAllRunners
<1>4. /\ cut'[d] = {} /\ kind'[d] = kind[d] /\ kind[d] \notin {"create", "uninstall"}
      /\ \A r \in Runners : class'[d][r] = "none"
  BY <1>1, <1>2 DEF NothingCutYet, NotJudgedYet, KindFits, ReconcileStages
<1>5. /\ errs'[d] = E
      /\ \A r \in Runners : list'[d][r] = IF OrgOf[r] \in Configured \ E THEN Row(r) ELSE "absent"
  BY <1>1, <1>3 DEF CommandTypes
<1>6. \A r \in Runners : Row(r)' = Row(r)
  BY <1>2, RowKept DEF hostVars
<1>7. \/ /\ kind[d] = "refresh" /\ pc'[d] \in {"done", "refresh"}
         /\ todo'[d] = {r \in Runners : InScope(d, r) /\ list'[d][r] # "absent" /\ h[r].tree = "tree"}
      \/ kind[d] # "refresh" /\ pc'[d] = "units"
  <2>1. CASE kind[d] = "refresh"
    <3>1. /\ todo' = [todo EXCEPT ![d] = {r \in Runners : InScope(d, r) /\ list'[d][r] # "absent" /\ h[r].tree = "tree"}]
          /\ Goto(d, IF todo'[d] = {} THEN "done" ELSE "refresh")
      BY <2>1 DEF ListAllRunners
    <3> QED BY <1>1, <2>1, <3>1 DEF CommandTypes, Maps, Goto
  <2>2. CASE kind[d] # "refresh"
    BY <1>1, <2>2 DEF ListAllRunners, CommandTypes, Maps, Goto
  <2> QED BY <2>1, <2>2
<1>8. (KindFits(d) /\ PlanInScope(d) /\ GateHolds(d))'
  BY <1>4, <1>7 DEF ReconcileStages, KindFits, PlanInScope, GateHolds, Removing, CreateStages, UninstallStages
<1>9. RowsAreCurrent(d)'
  BY <1>5, <1>6 DEF RowsAreCurrent, Listed
<1>10. ClassesAreCurrent(d)' /\ StopsLate(d)' /\ NothingCutYet(d)' /\ NotJudgedYet(d)'
  BY <1>4, <1>7 DEF ClassesAreCurrent, StopsLate, NothingCutYet, NotJudgedYet
<1>11. RestartsIdle(d)'
  BY <1>4, <1>7 DEF RestartsIdle
<1> QED BY <1>8, <1>9, <1>10, <1>11 DEF PassInv

LEMMA ListUnitsKeeps ==
  ASSUME Types, NEW d \in Commands, ListUnits(d), PassInv(d)
  PROVE  PassInv(d)'
<1>1. CommandTypes /\ KindFits(d) /\ NothingCutYet(d) /\ NotJudgedYet(d) /\ RowsAreCurrent(d) /\ StopsLate(d)
  BY DEF Types, PassInv
<1>2. /\ UNCHANGED <<hostVars, kind, scope, flags, runs, at, list, errs, class, idr, cut, moved, failed>>
      /\ pc'[d] = "inspect" /\ pc[d] = "units" /\ kind[d] \in {"report", "fix"}
  BY <1>1 DEF ListUnits, ctlVars, Fine, CommandTypes, Maps, Goto
<1>3. \A r \in Runners : Row(r)' = Row(r) /\ class'[d][r] = "none"
  BY <1>1, <1>2, RowKept DEF hostVars, NotJudgedYet
<1>0. todo'[d] = {r \in Runners : h[r].unit /\ InScope(d, r)} /\ \A x \in Runners : InScope(d, x)' = InScope(d, x)
  BY <1>1, <1>2 DEF ListUnits, CommandTypes, InScope
<1>4. (KindFits(d) /\ PlanInScope(d) /\ GateHolds(d))'
  BY <1>0, <1>2 DEF ReconcileStages, KindFits, PlanInScope, GateHolds, Removing, CreateStages, UninstallStages
<1>5. RowsAreCurrent(d)'
  BY <1>1, <1>2, <1>3 DEF RowsAreCurrent, Listed, AfterListing, Unhandled
<1>6. ClassesAreCurrent(d)' /\ StopsLate(d)' /\ NothingCutYet(d)' /\ NotJudgedYet(d)' /\ RestartsIdle(d)'
  BY <1>1, <1>2, <1>3 DEF ClassesAreCurrent, StopsLate, NothingCutYet, NotJudgedYet, RestartsIdle, Has
<1> QED BY <1>4, <1>5, <1>6 DEF PassInv

\* What the classes mean that a repair goes by.
LEMMA ClassMeans ==
  ASSUME NEW c \in Commands, NEW r \in Runners, NEW row, NEW listed \in BOOLEAN
  PROVE  /\ Classify(c, r, row, listed) = "orphan-unit" => row = "absent" /\ listed
         /\ Classify(c, r, row, listed) \in {"stale-dropin", "stuck"} => row # "absent" /\ ~Newer(c, h[r].drop)
BY DEF Classify

LEMMA InspectKeeps ==
  ASSUME Types, NEW d \in Commands, NEW r \in Runners, Inspect(d, r), PassInv(d)
  PROVE  PassInv(d)'
<1>1. CommandTypes /\ KindFits(d) /\ NothingCutYet(d) /\ NotJudgedYet(d) /\ RowsAreCurrent(d) /\ StopsLate(d)
      /\ ClassesAreCurrent(d)
  BY DEF Types, PassInv
<1>2. /\ UNCHANGED <<hostVars, pc, kind, scope, flags, at, list, errs, cut, moved>>
      /\ pc[d] = "inspect" /\ r \in todo[d]
  BY DEF Inspect, ctlVars
<1>3. kind[d] \notin {"create", "uninstall", "refresh"}
  BY <1>1, <1>2 DEF KindFits, NotJudgedYet, ReconcileStages
<1>4. /\ class'[d][r] = Classify(d, r, list[d][r], OrgOf[r] \notin errs[d])
      /\ \A x \in Runners \ {r} : class'[d][x] = class[d][x]
  <2> DEFINE k == Classify(d, r, list[d][r], OrgOf[r] \notin errs[d])
  <2>1. class' = [class EXCEPT ![d][r] = k]
    BY DEF Inspect
  <2> HIDE DEF k
  <2>2. class'[d][r] = k /\ \A x \in Runners \ {r} : class'[d][x] = class[d][x]
    BY <1>1, <2>1 DEF CommandTypes
  <2> QED BY <2>2 DEF k
<1>5. \A x \in Runners : Row(x)' = Row(x) /\ (Newer(d, h[x].drop)' = Newer(d, h[x].drop))
  BY <1>2, RowKept DEF hostVars, Newer
<1>0. PlanInScope(d) /\ InScope(d, r) /\ OrgOf[r] \in Configured
      /\ todo'[d] \subseteq todo[d] /\ \A x : InScope(d, x)' = InScope(d, x)
  BY <1>1, <1>2 DEF PassInv, PlanInScope, InScope, Inspect, CommandTypes
<1>6. (KindFits(d) /\ PlanInScope(d) /\ GateHolds(d))'
  BY <1>0, <1>2, <1>3 DEF ReconcileStages, KindFits, PlanInScope, GateHolds, Removing, CreateStages, UninstallStages
<1>7. RowsAreCurrent(d)'
  BY <1>1, <1>2, <1>5 DEF RowsAreCurrent, Listed, AfterListing, Unhandled
<1>8. ClassesAreCurrent(d)'
  <2>1. /\ class'[d][r] = "orphan-unit" => list[d][r] = "absent" /\ OrgOf[r] \notin errs[d]
        /\ class'[d][r] \in {"stale-dropin", "stuck"} => list[d][r] # "absent" /\ ~Newer(d, h[r].drop)
    BY <1>4, ClassMeans
  <2>2. AfterListing(d)
    BY <1>2, <1>3 DEF AfterListing
  <2>3. ASSUME NEW x \in Runners PROVE Listed(d, x)' = Listed(d, x)
    BY <1>2 DEF Listed
  <2> QED BY <1>0, <1>1, <1>2, <1>4, <1>5, <2>1, <2>2, <2>3 DEF ClassesAreCurrent, Listed
<1>9. StopsLate(d)' /\ NothingCutYet(d)' /\ NotJudgedYet(d)' /\ RestartsIdle(d)'
  BY <1>1, <1>2, <1>3 DEF StopsLate, NothingCutYet, NotJudgedYet, RestartsIdle, Has
<1> QED BY <1>6, <1>7, <1>8, <1>9 DEF PassInv

LEMMA UnmatchedKeeps ==
  ASSUME Types, NEW d \in Commands, Unmatched(d), PassInv(d)
  PROVE  PassInv(d)'
<1>1. CommandTypes /\ KindFits(d) /\ NotJudgedYet(d) /\ RowsAreCurrent(d) /\ StopsLate(d) /\ ClassesAreCurrent(d)
  BY DEF Types, PassInv
<1>2. /\ UNCHANGED <<hostVars, kind, scope, flags, at, list, errs, cut, moved>>
      /\ pc[d] = "inspect" /\ pc'[d] \in {"repair", "done"} /\ (pc'[d] = "repair" => kind[d] = "fix")
  BY <1>1 DEF Unmatched, ctlVars, CommandTypes, Maps, Goto
<1>3. kind[d] \notin {"create", "uninstall", "refresh"} /\ AfterListing(d)
  BY <1>1, <1>2 DEF KindFits, NotJudgedYet, ReconcileStages, AfterListing
<1>4. \A r \in Runners : class'[d][r] = class[d][r] \/ class'[d][r] = "orphan-github"
  <2> DEFINE K == [r \in Runners |->
       IF class[d][r] = "none" /\ InScope(d, r) /\ list[d][r] # "absent"
          /\ (list[d][r] = "offline" \/ h[r].tree = "tree")
       THEN "orphan-github" ELSE class[d][r]]
  <2>1. \A r \in Runners : K[r] = class[d][r] \/ K[r] = "orphan-github"
    OBVIOUS
  <2>2. class' = [class EXCEPT ![d] = K]
    BY DEF Unmatched
  <2> HIDE DEF K
  <2> QED BY <1>1, <2>1, <2>2 DEF CommandTypes
<1>5. \A x \in Runners : Row(x)' = Row(x) /\ (Newer(d, h[x].drop)' = Newer(d, h[x].drop))
                         /\ (Listed(d, x)' = Listed(d, x))
  BY <1>2, RowKept DEF hostVars, Newer, Listed
<1>6. (KindFits(d) /\ PlanInScope(d) /\ GateHolds(d))'
  BY <1>2, <1>3 DEF ReconcileStages, KindFits, PlanInScope, GateHolds, Removing, CreateStages, UninstallStages
<1>7. RowsAreCurrent(d)'
  BY <1>1, <1>2, <1>3, <1>5 DEF RowsAreCurrent, Unhandled
<1>8. ClassesAreCurrent(d)'
  BY <1>1, <1>2, <1>3, <1>4, <1>5 DEF ClassesAreCurrent
<1>9. StopsLate(d)' /\ NothingCutYet(d)' /\ NotJudgedYet(d)' /\ RestartsIdle(d)'
  BY <1>1, <1>2, <1>3 DEF StopsLate, NothingCutYet, NotJudgedYet, RestartsIdle, Has
<1> QED BY <1>6, <1>7, <1>8, <1>9 DEF PassInv

\* A runner with a job that is about to be changed was busy in the listing, or
\* has moved.
LEMMA JobsAreSeen ==
  ASSUME Types, NEW c \in Commands, PassInv(c), AfterListing(c),
         NEW r \in Runners, Listed(c, r), Unhandled(c, r), list[c][r] # "busy"
  PROVE  r \in job => r \in moved[c]
BY RowOfJob DEF Types, PassInv, RowsAreCurrent

LEMMA RepairOrphanKeeps ==
  ASSUME Types, NEW d \in Commands, NEW r \in Runners, RepairOrphan(d, r), PassInv(d)
  PROVE  PassInv(d)'
<1>1. HostTypes /\ CommandTypes /\ HistoryTypes /\ KindFits(d) /\ NotJudgedYet(d) /\ RowsAreCurrent(d) /\ StopsLate(d)
      /\ ClassesAreCurrent(d)
  BY DEF Types, PassInv
<1>2. /\ UNCHANGED <<reg, kind, scope, flags, list, errs, todo, class>>
      /\ pc[d] = "repair" /\ r \in todo[d] /\ class[d][r] = "orphan-unit" /\ list[d][r] # "busy"
      /\ Teardown(d, r) /\ pc'[d] = "wipe" /\ at'[d] = r /\ kind[d] \notin {"create", "uninstall", "refresh"}
  BY <1>1 DEF RepairOrphan, ctlVars, planVars, Busy, CommandTypes, Maps, Goto, KindFits, NotJudgedYet, ReconcileStages
<1>3. /\ moved'[d] = moved[d]
      /\ cut'[d] = IF r \in job THEN cut[d] \cup {r} ELSE cut[d]
      /\ \A x \in Runners \ {r} : h'[x] = h[x] /\ (x \in job' <=> x \in job)
  <2>1. Touch(d, {r}) /\ Stops(d, r, r \in job) /\ r \in Things /\ job' = job \ {r}
    BY <1>2 DEF Teardown, Things
  <2>2. cut'[d] = IF r \in job THEN cut[d] \cup {r} ELSE cut[d]
    BY <1>1, <2>1 DEF Stops, HistoryTypes
  <2>3. moved'[d] = moved[d]
    BY <1>1, <2>1, Touched
  <2>4. \A x \in Runners \ {r} : h'[x] = h[x]
    BY <1>1, <1>2, TeardownUnit
  <2> QED BY <2>1, <2>2, <2>3, <2>4
<1>4. AfterListing(d) /\ Unhandled(d, r) /\ Listed(d, r)
  BY <1>1, <1>2 DEF AfterListing, Unhandled, ClassesAreCurrent
<1>5. r \in job => r \in moved[d]
  BY <1>2, <1>4, JobsAreSeen
<1>6. \A x \in Runners \ {r} : Row(x)' = Row(x) /\ (Newer(d, h[x].drop)' = Newer(d, h[x].drop))
  BY <1>2, <1>3, RowKept DEF Newer
<1>7. \A x \in Runners : Listed(d, x)' = Listed(d, x)
  BY <1>2 DEF Listed
<1>8. (KindFits(d) /\ PlanInScope(d) /\ GateHolds(d))'
  <2>1. kind[d] = "fix"
    BY <1>1, <1>2 DEF KindFits
  <2> QED BY <1>2, <2>1 DEF ReconcileStages, KindFits, PlanInScope, GateHolds, Removing, CreateStages, UninstallStages
<1>9. RowsAreCurrent(d)'
  BY <1>1, <1>2, <1>3, <1>4, <1>6, <1>7 DEF RowsAreCurrent, Unhandled
<1>10. ClassesAreCurrent(d)'
  BY <1>1, <1>2, <1>3, <1>4, <1>6, <1>7 DEF ClassesAreCurrent
<1>11. StopsLate(d)'
  BY <1>1, <1>2, <1>3, <1>5 DEF StopsLate, Has
<1>12. NothingCutYet(d)' /\ NotJudgedYet(d)' /\ RestartsIdle(d)'
  BY <1>1, <1>2 DEF NothingCutYet, NotJudgedYet, RestartsIdle
<1> QED BY <1>8, <1>9, <1>10, <1>11, <1>12 DEF PassInv

\* A step of a pass that takes a runner off its list, having changed nothing
\* but that runner's tree and drop-in.
LEMMA DoneKeeps ==
  ASSUME Types, NEW d \in Commands, NEW r \in Runners, PassInv(d), AfterListing(d),
         pc[d] \in {"repair", "refresh", "restart", "wipe"},
         UNCHANGED <<reg, kind, flags, list, errs, class>>, moved'[d] = moved[d],
         todo'[d] = todo[d] \ {r}, pc'[d] \in {"repair", "refresh", "done"},
         pc'[d] = "repair" => kind[d] = "fix", pc'[d] = "refresh" => kind[d] = "refresh",
         pc[d] \in {"wipe", "restart"} => r = at[d],
         \A x \in Runners \ {r} : h'[x] = h[x] /\ (x \in job' <=> x \in job),
         h'[r].drop = h[r].drop \/ h'[r].drop = Render(d)
  PROVE  /\ KindFits(d)' /\ PlanInScope(d)' /\ GateHolds(d)' /\ RowsAreCurrent(d)'
         /\ ClassesAreCurrent(d)' /\ NothingCutYet(d)' /\ NotJudgedYet(d)' /\ RestartsIdle(d)'
<1>1. KindFits(d) /\ NotJudgedYet(d) /\ RowsAreCurrent(d) /\ ClassesAreCurrent(d) /\ RestartsIdle(d)
  BY DEF PassInv
<1>2. kind'[d] \notin {"create", "uninstall"} /\ kind'[d] = kind[d]
  BY DEF AfterListing
<1>3. (KindFits(d) /\ PlanInScope(d) /\ GateHolds(d))'
  BY <1>2 DEF ReconcileStages, KindFits, PlanInScope, GateHolds, Removing, CreateStages, UninstallStages
<1>4. \A x \in Runners \ {r} : Row(x)' = Row(x) /\ (Newer(d, h[x].drop)' = Newer(d, h[x].drop))
  BY RowKept DEF Newer
<1>5. ~Newer(d, Render(d))
  <2>1. Gen[d] \in Int
    BY HostConstants
  <2> QED BY <2>1 DEF Newer, Render
<1>6. Newer(d, h[r].drop)' => Newer(d, h[r].drop)
  BY <1>5 DEF Newer
<1>7. \A x \in Runners : Listed(d, x)' = Listed(d, x)
  BY DEF Listed
<1>8. \A x \in Runners : Unhandled(d, x)' => x # r /\ Unhandled(d, x)
  BY DEF Unhandled
<1>9. RowsAreCurrent(d)'
  BY <1>1, <1>4, <1>7, <1>8 DEF RowsAreCurrent
<1>10. ClassesAreCurrent(d)'
  BY <1>1, <1>4, <1>6, <1>7 DEF ClassesAreCurrent
<1>11. NothingCutYet(d)' /\ NotJudgedYet(d)'
  BY <1>1, <1>2 DEF NothingCutYet, NotJudgedYet
<1>12. RestartsIdle(d)'
  <2>1. kind[d] = "refresh" => pc[d] \in {"refresh", "restart"}
    BY <1>1 DEF NotJudgedYet, KindFits
  <2> QED BY <1>1, <2>1 DEF RestartsIdle
<1> QED BY <1>3, <1>9, <1>10, <1>11, <1>12

\* Done, with the next stage of the pass.
LEMMA DoneMeans ==
  ASSUME CommandTypes, NEW d \in Commands, NEW r, NEW next, Done(d, r, next)
  PROVE  todo'[d] = todo[d] \ {r} /\ pc'[d] \in {next, "done"}
BY DEF Done, Goto, CommandTypes, Maps

LEMMA WipeOrphanKeeps ==
  ASSUME Types, NEW d \in Commands, WipeOrphan(d), PassInv(d)
  PROVE  PassInv(d)'
<1>1. HostTypes /\ CommandTypes /\ HistoryTypes /\ StopsLate(d)
  BY DEF Types, PassInv
<1>2. PICK r \in Runners : r = at[d]
  BY <1>1 DEF WipeOrphan, CommandTypes
<1>3. /\ UNCHANGED <<reg, job, kind, flags, list, errs, class, cut>>
      /\ WipeTree(d, r) \/ UNCHANGED <<h, moved>>
      /\ Done(d, r, "repair") /\ pc[d] = "wipe" /\ kind[d] = "fix"
  BY <1>2 DEF WipeOrphan, ctlVars
<1>4. AfterListing(d)
  BY <1>3 DEF AfterListing
<1>5. /\ moved'[d] = moved[d] /\ h'[r].drop = h[r].drop
      /\ \A x \in Runners \ {r} : h'[x] = h[x]
  <2>1. CASE WipeTree(d, r)
    <3>1. Touch(d, {r}) /\ r \in Things
      BY <2>1 DEF WipeTree, Things
    <3> QED BY <1>1, <2>1, <3>1, Touched, WipeUnit
  <2>2. CASE UNCHANGED <<h, moved>>
    BY <2>2
  <2> QED BY <1>3, <2>1, <2>2
<1>6. todo'[d] = todo[d] \ {r} /\ pc'[d] \in {"repair", "done"}
  BY <1>1, <1>3, DoneMeans
<1>7. StopsLate(d)'
  BY <1>1, <1>3, <1>5 DEF StopsLate, Has
<1> QED BY <1>2, <1>3, <1>4, <1>5, <1>6, <1>7, DoneKeeps DEF PassInv

\* Writing a drop-in before a restart, in a fix or a refresh.
LEMMA WriteKeeps ==
  ASSUME Types, NEW d \in Commands, NEW r \in Runners, PassInv(d), AfterListing(d),
         pc[d] \in {"repair", "refresh"}, r \in todo[d], list[d][r] \notin {"absent", "busy"},
         UNCHANGED <<reg, job, kind, flags, list, errs, class, cut, todo>>,
         WriteDropIn(d, r), pc'[d] = "restart", at'[d] = r
  PROVE  PassInv(d)'
<1>1. HostTypes /\ CommandTypes /\ HistoryTypes
  BY DEF Types
<1>2. KindFits(d) /\ NotJudgedYet(d) /\ RowsAreCurrent(d) /\ ClassesAreCurrent(d) /\ RestartsIdle(d) /\ StopsLate(d)
  BY DEF PassInv
<1>3. moved'[d] = moved[d]
  <2>1. Touch(d, {r}) /\ r \in Things
    BY DEF WriteDropIn, Things
  <2> QED BY <1>1, <2>1, Touched
<1>4. /\ \A x \in Runners \ {r} : h'[x] = h[x]
      /\ h'[r].svc = h[r].svc /\ h'[r].id = h[r].id /\ h'[r].drop = Render(d)
  BY <1>1, DropInUnit
<1>5. \A x \in Runners : Row(x)' = Row(x) /\ (Newer(d, h[x].drop)' => Newer(d, h[x].drop))
  <2>1. \A x \in Runners : Row(x)' = Row(x)
    BY <1>4, RowKept
  <2>2. ~Newer(d, Render(d))
    <3>1. Gen[d] \in Int
      BY HostConstants
    <3> QED BY <3>1 DEF Newer, Render
  <2> QED BY <1>4, <2>1, <2>2 DEF Newer
<1>6. \A x \in Runners : Listed(d, x)' = Listed(d, x) /\ (Unhandled(d, x)' => Unhandled(d, x))
  BY DEF Listed, Unhandled
<1>7. kind'[d] \notin {"create", "uninstall"} /\ kind'[d] = kind[d]
  BY DEF AfterListing
<1>8. (KindFits(d) /\ PlanInScope(d) /\ GateHolds(d))'
  BY <1>2, <1>7 DEF ReconcileStages, KindFits, PlanInScope, GateHolds, Removing, CreateStages, UninstallStages
<1>9. RowsAreCurrent(d)'
  BY <1>2, <1>3, <1>5, <1>6 DEF RowsAreCurrent
<1>10. ClassesAreCurrent(d)'
  BY <1>2, <1>3, <1>5, <1>6 DEF ClassesAreCurrent
<1>11. NothingCutYet(d)' /\ NotJudgedYet(d)' /\ StopsLate(d)'
  BY <1>2, <1>3, <1>7 DEF NothingCutYet, NotJudgedYet, StopsLate, Has
<1>12. RestartsIdle(d)'
  <2>1. kind[d] = "refresh" => pc[d] = "refresh"
    BY <1>2 DEF NotJudgedYet
  <2> QED BY <1>2, <2>1 DEF RestartsIdle
<1> QED BY <1>8, <1>9, <1>10, <1>11, <1>12 DEF PassInv

LEMMA RepairUnitKeeps ==
  ASSUME Types, NEW d \in Commands, NEW r \in Runners, RepairUnit(d, r), PassInv(d)
  PROVE  PassInv(d)'
<1>1. CommandTypes /\ KindFits(d) /\ NotJudgedYet(d) /\ ClassesAreCurrent(d) /\ StopsLate(d)
  BY DEF Types, PassInv
<1>2. /\ UNCHANGED <<reg, job, kind, flags, list, errs, class, cut>>
      /\ pc[d] = "repair" /\ r \in todo[d] /\ class[d][r] \in {"stale-dropin", "stuck"} /\ list[d][r] # "busy"
  BY DEF RepairUnit, ctlVars, Busy
<1>3. AfterListing(d) /\ kind[d] = "fix"
  BY <1>1, <1>2 DEF KindFits, AfterListing, ReconcileStages, NotJudgedYet
<1>4. list[d][r] \notin {"absent", "busy"}
  BY <1>1, <1>2, <1>3 DEF ClassesAreCurrent
<1>5. CASE WriteDropIn(d, r) /\ Goto(d, "restart") /\ at' = [at EXCEPT ![d] = r] /\ UNCHANGED todo
  <2>1. pc'[d] = "restart" /\ at'[d] = r
    BY <1>1, <1>5 DEF CommandTypes, Maps, Goto
  <2> QED BY <1>2, <1>3, <1>4, <1>5, <2>1, WriteKeeps
<1>6. CASE Done(d, r, "repair") /\ UNCHANGED <<h, at, moved>>
  <2>1. todo'[d] = todo[d] \ {r} /\ pc'[d] \in {"repair", "done"}
    BY <1>1, <1>6, DoneMeans
  <2>2. StopsLate(d)'
    BY <1>1, <1>2, <1>6 DEF StopsLate, Has
  <2> QED BY <1>2, <1>3, <1>6, <2>1, <2>2, DoneKeeps DEF PassInv
<1> QED BY <1>5, <1>6 DEF RepairUnit

LEMMA RestartUnitKeeps ==
  ASSUME Types, NEW d \in Commands, RestartUnit(d), PassInv(d)
  PROVE  PassInv(d)'
<1>1. HostTypes /\ CommandTypes /\ HistoryTypes /\ KindFits(d) /\ RowsAreCurrent(d) /\ RestartsIdle(d) /\ StopsLate(d)
      /\ NotJudgedYet(d)
  BY DEF Types, PassInv
<1>2. PICK r \in Runners : r = at[d]
  BY <1>1 DEF RestartUnit, CommandTypes
<1>3. /\ UNCHANGED <<reg, kind, flags, list, errs, class>>
      /\ (h[r].unit /\ Restart(d, r)) \/ UNCHANGED <<h, job, cut, moved>>
      /\ Done(d, r, IF kind[d] = "fix" THEN "repair" ELSE "refresh") /\ pc[d] = "restart"
  BY <1>2 DEF RestartUnit, ctlVars
<1>4. AfterListing(d) /\ kind[d] \in {"fix", "refresh"} /\ r \in todo[d] /\ list[d][r] \notin {"absent", "busy"}
  BY <1>1, <1>2, <1>3 DEF AfterListing, KindFits, ReconcileStages, RestartsIdle
<1>5. Listed(d, r) /\ Unhandled(d, r)
  BY <1>1, <1>3, <1>4 DEF RowsAreCurrent, Unhandled
<1>6. r \in job => r \in moved[d]
  BY <1>4, <1>5, JobsAreSeen
<1>7. /\ moved'[d] = moved[d] /\ h'[r].drop = h[r].drop
      /\ cut'[d] \subseteq cut[d] \cup {x \in {r} : x \in job}
      /\ \A x \in Runners \ {r} : h'[x] = h[x] /\ (x \in job' <=> x \in job)
  <2>1. CASE h[r].unit /\ Restart(d, r)
    <3>1. Touch(d, {r}) /\ Stops(d, r, r \in job) /\ r \in Things /\ job' = job \ {r}
      BY <2>1 DEF Restart, Things
    <3>2. cut'[d] = IF r \in job THEN cut[d] \cup {r} ELSE cut[d]
      BY <1>1, <3>1 DEF Stops, HistoryTypes
    <3> QED BY <1>1, <2>1, <3>1, <3>2, Touched, RestartedUnit
  <2>2. CASE UNCHANGED <<h, job, cut, moved>>
    BY <2>2
  <2> QED BY <1>3, <2>1, <2>2
<1>8. todo'[d] = todo[d] \ {r} /\ pc'[d] \in {IF kind[d] = "fix" THEN "repair" ELSE "refresh", "done"}
  BY <1>1, <1>3, DoneMeans
<1>9. StopsLate(d)'
  BY <1>1, <1>3, <1>6, <1>7 DEF StopsLate, Has
<1> QED BY <1>2, <1>3, <1>4, <1>7, <1>8, <1>9, DoneKeeps DEF PassInv

LEMMA SkipRepairKeeps ==
  ASSUME Types, NEW d \in Commands, NEW r \in Runners, SkipRepair(d, r), PassInv(d)
  PROVE  PassInv(d)'
<1>1. CommandTypes /\ KindFits(d) /\ StopsLate(d) /\ NotJudgedYet(d)
  BY DEF Types, PassInv
<1>2. /\ UNCHANGED <<h, reg, job, kind, flags, list, errs, class, cut, moved>>
      /\ pc[d] = "repair" /\ Done(d, r, "repair")
  BY DEF SkipRepair, ctlVars, hostVars
<1>3. AfterListing(d) /\ kind[d] = "fix"
  BY <1>1, <1>2 DEF AfterListing, KindFits, ReconcileStages, NotJudgedYet
<1>4. todo'[d] = todo[d] \ {r} /\ pc'[d] \in {"repair", "done"}
  BY <1>1, <1>2, DoneMeans
<1>5. StopsLate(d)'
  BY <1>1, <1>2 DEF StopsLate, Has
<1> QED BY <1>2, <1>3, <1>4, <1>5, DoneKeeps DEF PassInv

LEMMA RefreshRowKeeps ==
  ASSUME Types, NEW d \in Commands, NEW r \in Runners, RefreshRow(d, r), PassInv(d)
  PROVE  PassInv(d)'
<1>1. CommandTypes /\ KindFits(d) /\ StopsLate(d) /\ RestartsIdle(d)
  BY DEF Types, PassInv
<1>2. /\ UNCHANGED <<reg, job, kind, flags, list, errs, class, cut>>
      /\ pc[d] = "refresh" /\ r \in todo[d]
  BY DEF RefreshRow, ctlVars
<1>3. AfterListing(d) /\ kind[d] = "refresh"
  BY <1>1, <1>2 DEF AfterListing, KindFits, ReconcileStages
<1>4. CASE /\ ~Busy(d, r) /\ WriteDropIn(d, r) /\ Goto(d, "restart")
           /\ at' = [at EXCEPT ![d] = r] /\ UNCHANGED todo
  <2>1. pc'[d] = "restart" /\ at'[d] = r
    BY <1>1, <1>4 DEF CommandTypes, Maps, Goto
  <2>2. list[d][r] \notin {"absent", "busy"}
    BY <1>1, <1>2, <1>3, <1>4 DEF RestartsIdle, Busy
  <2> QED BY <1>2, <1>3, <1>4, <2>1, <2>2, WriteKeeps
<1>5. CASE Done(d, r, "refresh") /\ UNCHANGED <<h, at, base, moved>>
  <2>1. todo'[d] = todo[d] \ {r} /\ pc'[d] \in {"refresh", "done"}
    BY <1>1, <1>5, DoneMeans
  <2>2. StopsLate(d)'
    BY <1>1, <1>2, <1>5 DEF StopsLate, Has
  <2> QED BY <1>2, <1>3, <1>5, <2>1, <2>2, DoneKeeps DEF PassInv
<1> QED BY <1>4, <1>5 DEF RefreshRow

\* The conditions of the other passes say nothing of an uninstall.
LEMMA NotListing ==
  ASSUME NEW c \in Commands, kind'[c] = "uninstall",
         pc'[c] \in UninstallStages \cup {"wipe", "done", "refused", "refusedLane"}
  PROVE  (KindFits(c) /\ NotJudgedYet(c) /\ RowsAreCurrent(c) /\ ClassesAreCurrent(c) /\ RestartsIdle(c))'
BY DEF KindFits, NotJudgedYet, RowsAreCurrent, ClassesAreCurrent, RestartsIdle, AfterListing,
   CreateStages, ReconcileStages, UninstallStages

\* The facts a step of an uninstall starts from.
LEMMA UninstallStart ==
  ASSUME Types, NEW d \in Commands, PassInv(d), pc[d] \in UninstallStages \/ (pc[d] = "wipe" /\ kind[d] = "uninstall"),
         UNCHANGED <<kind, flags, scope>>
  PROVE  /\ HostTypes /\ CommandTypes /\ HistoryTypes
         /\ NothingCutYet(d) /\ PlanInScope(d) /\ GateHolds(d) /\ StopsLate(d)
         /\ kind[d] = "uninstall" /\ kind'[d] = "uninstall"
         /\ \A f : Has(d, f)' = Has(d, f)
         /\ \A x : InScope(d, x)' = InScope(d, x)
         /\ RemovesConfig(d)' = RemovesConfig(d)
         /\ Removing(d) <=> pc[d] \in {"gate", "gateLanes", "lanes", "wipe", "deregister"}
         /\ Removing(d)' <=> pc'[d] \in {"gate", "gateLanes", "lanes", "wipe", "deregister"}
BY DEF PassInv, Types, KindFits, Has, InScope, RemovesConfig, Removing

LEMMA EnumerateKeeps ==
  ASSUME Types, NEW d \in Commands, Enumerate(d), PassInv(d)
  PROVE  PassInv(d)'
<1>1. /\ UNCHANGED <<h, reg, job, lane, kind, flags, scope, cut>> /\ pc[d] = "enumerate" /\ pc[d] \in UninstallStages
  BY DEF Enumerate, ctlVars, hostVars, UninstallStages
<1>2. /\ HostTypes /\ CommandTypes /\ HistoryTypes
      /\ NothingCutYet(d) /\ PlanInScope(d) /\ GateHolds(d) /\ StopsLate(d)
      /\ kind[d] = "uninstall" /\ kind'[d] = "uninstall"
      /\ \A f : Has(d, f)' = Has(d, f)
      /\ \A x : InScope(d, x)' = InScope(d, x)
      /\ RemovesConfig(d)' = RemovesConfig(d)
      /\ Removing(d) <=> pc[d] \in {"gate", "gateLanes", "lanes", "wipe", "deregister"}
      /\ Removing(d)' <=> pc'[d] \in {"gate", "gateLanes", "lanes", "wipe", "deregister"}
  BY <1>1, UninstallStart
<1>3. /\ todo'[d] = {r \in Runners : h[r].unit /\ InScope(d, r)} \cup {l \in Lanes : lane[l] # "gone" /\ InScope(d, l)}
      /\ pc'[d] = IF Has(d, "force") THEN "lanes" ELSE "gate"
  BY <1>2 DEF Enumerate, CommandTypes, Maps, Goto
<1>4. cut'[d] = {}
  BY <1>1, <1>2 DEF NothingCutYet
<1>5. (KindFits(d) /\ NotJudgedYet(d) /\ RowsAreCurrent(d) /\ ClassesAreCurrent(d) /\ RestartsIdle(d))'
  BY <1>2, <1>3, NotListing DEF UninstallStages
<1>6. PlanInScope(d)'
  BY <1>2, <1>3 DEF PlanInScope
<1>7. NothingCutYet(d)' /\ GateHolds(d)' /\ StopsLate(d)'
  BY <1>2, <1>3, <1>4 DEF NothingCutYet, GateHolds, StopsLate
<1> QED BY <1>5, <1>6, <1>7 DEF PassInv

LEMMA GateRunnersKeeps ==
  ASSUME Types, NEW d \in Commands, GateRunners(d), PassInv(d)
  PROVE  PassInv(d)'
<1>1. /\ UNCHANGED <<h, reg, job, lane, kind, flags, scope, todo, cut, at>> /\ pc[d] = "gate" /\ pc[d] \in UninstallStages
  BY DEF GateRunners, ctlVars, hostVars, planVars, UninstallStages
<1>2. /\ HostTypes /\ CommandTypes /\ HistoryTypes
      /\ NothingCutYet(d) /\ PlanInScope(d) /\ GateHolds(d) /\ StopsLate(d)
      /\ kind[d] = "uninstall" /\ kind'[d] = "uninstall"
      /\ \A f : Has(d, f)' = Has(d, f)
      /\ \A x : InScope(d, x)' = InScope(d, x)
      /\ RemovesConfig(d)' = RemovesConfig(d)
      /\ Removing(d) <=> pc[d] \in {"gate", "gateLanes", "lanes", "wipe", "deregister"}
      /\ Removing(d)' <=> pc'[d] \in {"gate", "gateLanes", "lanes", "wipe", "deregister"}
  BY <1>1, UninstallStart
<1>3. /\ pc'[d] \in {"gateLanes", "refused"}
      /\ pc'[d] = "gateLanes" =>
           \/ Has(d, "keepGitHub") \/ todo[d] \cap Runners = {}
           \/ todo[d] \cap Runners \cap job = {}
  <2>1. CASE Has(d, "keepGitHub") \/ todo[d] \cap Runners = {}
    BY <1>2, <2>1 DEF GateRunners, CommandTypes, Maps, Goto
  <2>2. CASE ~(Has(d, "keepGitHub") \/ todo[d] \cap Runners = {})
    BY <1>2, <2>2 DEF GateRunners, CommandTypes, Maps, Goto
  <2> QED BY <2>1, <2>2
<1>4. cut'[d] = {}
  BY <1>1, <1>2 DEF NothingCutYet
<1>5. (KindFits(d) /\ NotJudgedYet(d) /\ RowsAreCurrent(d) /\ ClassesAreCurrent(d) /\ RestartsIdle(d))'
  BY <1>2, <1>3, NotListing DEF UninstallStages
<1>6. PlanInScope(d)'
  BY <1>1, <1>2, <1>3 DEF PlanInScope
<1>7. NothingCutYet(d)' /\ GateHolds(d)' /\ StopsLate(d)'
  BY <1>1, <1>2, <1>3, <1>4 DEF NothingCutYet, GateHolds, StopsLate
<1> QED BY <1>5, <1>6, <1>7 DEF PassInv

LEMMA GateLanesKeeps ==
  ASSUME Types, NEW d \in Commands, GateLanes(d), PassInv(d)
  PROVE  PassInv(d)'
<1>1. /\ UNCHANGED <<h, reg, job, lane, kind, flags, scope, todo, cut, at>> /\ pc[d] = "gateLanes" /\ pc[d] \in UninstallStages
      /\ moved' = [moved EXCEPT ![d] = @ \ (todo[d] \cap Lanes)]
  BY DEF GateLanes, ctlVars, hostVars, planVars, UninstallStages
<1>2. /\ HostTypes /\ CommandTypes /\ HistoryTypes
      /\ NothingCutYet(d) /\ PlanInScope(d) /\ GateHolds(d) /\ StopsLate(d)
      /\ kind[d] = "uninstall" /\ kind'[d] = "uninstall"
      /\ \A f : Has(d, f)' = Has(d, f)
      /\ \A x : InScope(d, x)' = InScope(d, x)
      /\ RemovesConfig(d)' = RemovesConfig(d)
      /\ Removing(d) <=> pc[d] \in {"gate", "gateLanes", "lanes", "wipe", "deregister"}
      /\ Removing(d)' <=> pc'[d] \in {"gate", "gateLanes", "lanes", "wipe", "deregister"}
  BY <1>1, UninstallStart
<1>3. pc'[d] = IF \E l \in todo[d] \cap Lanes : Recorded(l) THEN "refusedLane" ELSE "lanes"
  BY <1>2 DEF GateLanes, CommandTypes, Maps, Goto
<1>4. cut'[d] = {}
  BY <1>1, <1>2 DEF NothingCutYet
<1>5. moved'[d] = moved[d] \ (todo[d] \cap Lanes)
  BY <1>1, <1>2 DEF HistoryTypes
<1>6. (KindFits(d) /\ NotJudgedYet(d) /\ RowsAreCurrent(d) /\ ClassesAreCurrent(d) /\ RestartsIdle(d))'
  BY <1>2, <1>3, NotListing DEF UninstallStages
<1>7. PlanInScope(d)'
  BY <1>1, <1>2, <1>3 DEF PlanInScope
<1>8. GateHolds(d)'
  <2>1. \A r \in todo[d] \cap Runners : r \in moved[d] => r \in moved'[d]
    BY <1>5, HostConstants
  <2>2. pc'[d] = "lanes" => \A l \in todo[d] \cap Lanes : lane[l] # "job"
    BY <1>3 DEF Recorded
  <2> QED BY <1>1, <1>2, <1>3, <2>1, <2>2 DEF GateHolds
<1>9. NothingCutYet(d)' /\ StopsLate(d)'
  BY <1>2, <1>3, <1>4 DEF NothingCutYet, StopsLate
<1> QED BY <1>6, <1>7, <1>8, <1>9 DEF PassInv

LEMMA RemoveLaneKeeps ==
  ASSUME Types, NEW d \in Commands, NEW l \in Lanes, RemoveLane(d, l), PassInv(d)
  PROVE  PassInv(d)'
<1>1. /\ UNCHANGED <<h, reg, job, kind, flags, scope, at, pc>> /\ pc[d] = "lanes" /\ pc[d] \in UninstallStages
      /\ l \in todo[d] /\ todo' = [todo EXCEPT ![d] = @ \ {l}]
  BY DEF RemoveLane, ctlVars, UninstallStages
<1>2. /\ HostTypes /\ CommandTypes /\ HistoryTypes
      /\ NothingCutYet(d) /\ PlanInScope(d) /\ GateHolds(d) /\ StopsLate(d)
      /\ kind[d] = "uninstall" /\ kind'[d] = "uninstall"
      /\ \A f : Has(d, f)' = Has(d, f)
      /\ \A x : InScope(d, x)' = InScope(d, x)
      /\ RemovesConfig(d)' = RemovesConfig(d)
      /\ Removing(d) <=> pc[d] \in {"gate", "gateLanes", "lanes", "wipe", "deregister"}
      /\ Removing(d)' <=> pc'[d] \in {"gate", "gateLanes", "lanes", "wipe", "deregister"}
  BY <1>1, UninstallStart
<1>3. todo'[d] = todo[d] \ {l} /\ pc'[d] = "lanes"
  BY <1>1, <1>2 DEF CommandTypes
<1>4. /\ moved'[d] = moved[d]
      /\ cut'[d] = cut[d] \/ (lane[l] = "job" /\ cut'[d] = cut[d] \cup {l})
      /\ \A x \in Lanes : lane'[x] = "job" => lane[x] = "job"
  <2>1. CASE lane' = [lane EXCEPT ![l] = "gone"] /\ Stops(d, l, lane[l] = "job") /\ Touch(d, {l})
    <3>1. moved'[d] = moved[d]
      <4>1. l \in Things
        BY DEF Things
      <4> QED BY <1>2, <2>1, <4>1, Touched
    <3>2. cut'[d] = cut[d] \/ (lane[l] = "job" /\ cut'[d] = cut[d] \cup {l})
      BY <1>2, <2>1 DEF Stops, HistoryTypes
    <3>3. \A x \in Lanes : lane'[x] = "job" => lane[x] = "job"
      BY <1>2, <2>1 DEF HostTypes
    <3> QED BY <3>1, <3>2, <3>3
  <2>2. CASE UNCHANGED <<lane, cut, moved>>
    BY <2>2
  <2> QED BY <2>1, <2>2 DEF RemoveLane
<1>5. (KindFits(d) /\ NotJudgedYet(d) /\ RowsAreCurrent(d) /\ ClassesAreCurrent(d) /\ RestartsIdle(d))'
  BY <1>2, <1>3, NotListing DEF UninstallStages
<1>6. PlanInScope(d)'
  BY <1>1, <1>2, <1>3 DEF PlanInScope
<1>7. ~Has(d, "force") /\ lane[l] = "job" => l \in moved[d]
  BY <1>1, <1>2 DEF GateHolds
<1>8. GateHolds(d)'
  BY <1>1, <1>2, <1>3, <1>4 DEF GateHolds
<1>9. NothingCutYet(d)' /\ StopsLate(d)'
  BY <1>2, <1>3, <1>4, <1>7 DEF NothingCutYet, StopsLate
<1> QED BY <1>5, <1>6, <1>8, <1>9 DEF PassInv

LEMMA TeardownRunnerKeeps ==
  ASSUME Types, NEW d \in Commands, NEW r \in Runners, TeardownRunner(d, r), PassInv(d)
  PROVE  PassInv(d)'
<1>1. /\ UNCHANGED <<reg, lane, kind, flags, scope>> /\ pc[d] = "lanes" /\ pc[d] \in UninstallStages
      /\ r \in todo[d] /\ todo' = [todo EXCEPT ![d] = @ \ {r}] /\ Teardown(d, r)
      /\ at' = [at EXCEPT ![d] = r] /\ Goto(d, "wipe")
  BY DEF TeardownRunner, ctlVars, UninstallStages
<1>2. /\ HostTypes /\ CommandTypes /\ HistoryTypes
      /\ NothingCutYet(d) /\ PlanInScope(d) /\ GateHolds(d) /\ StopsLate(d)
      /\ kind[d] = "uninstall" /\ kind'[d] = "uninstall"
      /\ \A f : Has(d, f)' = Has(d, f)
      /\ \A x : InScope(d, x)' = InScope(d, x)
      /\ RemovesConfig(d)' = RemovesConfig(d)
      /\ Removing(d) <=> pc[d] \in {"gate", "gateLanes", "lanes", "wipe", "deregister"}
      /\ Removing(d)' <=> pc'[d] \in {"gate", "gateLanes", "lanes", "wipe", "deregister"}
  BY <1>1, UninstallStart
<1>3. todo'[d] = todo[d] \ {r} /\ pc'[d] = "wipe" /\ at'[d] = r
  BY <1>1, <1>2 DEF CommandTypes, Maps, Goto
<1>4. /\ job' = job \ {r} /\ moved'[d] = moved[d]
      /\ cut'[d] = IF r \in job THEN cut[d] \cup {r} ELSE cut[d]
  <2>1. Touch(d, {r}) /\ Stops(d, r, r \in job) /\ r \in Things /\ job' = job \ {r}
    BY <1>1 DEF Teardown, Things
  <2>2. cut'[d] = IF r \in job THEN cut[d] \cup {r} ELSE cut[d]
    BY <1>2, <2>1 DEF Stops, HistoryTypes
  <2>3. moved'[d] = moved[d]
    BY <1>2, <2>1, Touched
  <2> QED BY <2>1, <2>2, <2>3
<1>5. (KindFits(d) /\ NotJudgedYet(d) /\ RowsAreCurrent(d) /\ ClassesAreCurrent(d) /\ RestartsIdle(d))'
  BY <1>2, <1>3, NotListing DEF UninstallStages
<1>6. PlanInScope(d)'
  BY <1>1, <1>2, <1>3 DEF PlanInScope
<1>7. ~Has(d, "force") /\ ~Has(d, "keepGitHub") /\ r \in job => r \in moved[d]
  BY <1>1, <1>2 DEF GateHolds
<1>8. GateHolds(d)'
  BY <1>1, <1>2, <1>3, <1>4 DEF GateHolds
<1>9. NothingCutYet(d)' /\ StopsLate(d)'
  BY <1>2, <1>3, <1>4, <1>7 DEF NothingCutYet, StopsLate
<1> QED BY <1>5, <1>6, <1>8, <1>9 DEF PassInv

LEMMA WipeRunnerKeeps ==
  ASSUME Types, NEW d \in Commands, WipeRunner(d), PassInv(d)
  PROVE  PassInv(d)'
<1>1. /\ UNCHANGED <<reg, job, lane, kind, flags, scope, todo, cut, at>> /\ pc[d] = "wipe" /\ kind[d] = "uninstall"
      /\ Goto(d, "lanes") \/ Goto(d, "deregister")
  BY DEF WipeRunner, ctlVars, planVars
<1>2. /\ HostTypes /\ CommandTypes /\ HistoryTypes
      /\ NothingCutYet(d) /\ PlanInScope(d) /\ GateHolds(d) /\ StopsLate(d)
      /\ kind[d] = "uninstall" /\ kind'[d] = "uninstall"
      /\ \A f : Has(d, f)' = Has(d, f)
      /\ \A x : InScope(d, x)' = InScope(d, x)
      /\ RemovesConfig(d)' = RemovesConfig(d)
      /\ Removing(d) <=> pc[d] \in {"gate", "gateLanes", "lanes", "wipe", "deregister"}
      /\ Removing(d)' <=> pc'[d] \in {"gate", "gateLanes", "lanes", "wipe", "deregister"}
  BY <1>1, UninstallStart
<1>3. pc'[d] \in {"lanes", "deregister"}
  BY <1>1, <1>2 DEF CommandTypes, Maps, Goto
<1>4. moved'[d] = moved[d]
  <2>1. at[d] \in Runners
    BY <1>1, <1>2 DEF CommandTypes
  <2>2. CASE WipeTree(d, at[d])
    BY <1>2, <2>1, <2>2, Touched DEF WipeTree, Things
  <2>3. CASE moved' = moved
    BY <2>3
  <2> QED BY <2>2, <2>3 DEF WipeRunner
<1>5. (KindFits(d) /\ NotJudgedYet(d) /\ RowsAreCurrent(d) /\ ClassesAreCurrent(d) /\ RestartsIdle(d))'
  BY <1>2, <1>3, NotListing DEF UninstallStages
<1>6. PlanInScope(d)' /\ GateHolds(d)' /\ NothingCutYet(d)' /\ StopsLate(d)'
  BY <1>1, <1>2, <1>3, <1>4 DEF PlanInScope, GateHolds, NothingCutYet, StopsLate
<1> QED BY <1>5, <1>6 DEF PassInv

LEMMA DeregisterRunnerKeeps ==
  ASSUME Types, NEW d \in Commands, DeregisterRunner(d), PassInv(d)
  PROVE  PassInv(d)'
<1>1. /\ UNCHANGED <<lane, kind, flags, scope, todo, at>> /\ pc[d] = "deregister" /\ pc[d] \in UninstallStages
      /\ Goto(d, "lanes") /\ Touch(d, {at[d]})
      /\ (job' = job \ {at[d]} /\ Stops(d, at[d], at[d] \in job)) \/ UNCHANGED <<job, cut>>
  BY DEF DeregisterRunner, ctlVars, planVars, UninstallStages
<1>2. /\ HostTypes /\ CommandTypes /\ HistoryTypes
      /\ NothingCutYet(d) /\ PlanInScope(d) /\ GateHolds(d) /\ StopsLate(d)
      /\ kind[d] = "uninstall" /\ kind'[d] = "uninstall"
      /\ \A f : Has(d, f)' = Has(d, f)
      /\ \A x : InScope(d, x)' = InScope(d, x)
      /\ RemovesConfig(d)' = RemovesConfig(d)
      /\ Removing(d) <=> pc[d] \in {"gate", "gateLanes", "lanes", "wipe", "deregister"}
      /\ Removing(d)' <=> pc'[d] \in {"gate", "gateLanes", "lanes", "wipe", "deregister"}
  BY <1>1, UninstallStart
<1>3. pc'[d] = "lanes" /\ at[d] \in Things
  BY <1>1, <1>2 DEF CommandTypes, Maps, Goto, Things
<1>4. /\ moved'[d] = moved[d] /\ job' \subseteq job
      /\ cut'[d] = cut[d] \/ (at[d] \in job /\ cut'[d] = cut[d] \cup {at[d]})
  <2>1. moved'[d] = moved[d]
    BY <1>1, <1>2, <1>3, Touched
  <2>2. CASE job' = job \ {at[d]} /\ Stops(d, at[d], at[d] \in job)
    BY <1>2, <2>1, <2>2 DEF Stops, HistoryTypes
  <2>3. CASE UNCHANGED <<job, cut>>
    BY <2>1, <2>3
  <2> QED BY <1>1, <2>2, <2>3
<1>5. (KindFits(d) /\ NotJudgedYet(d) /\ RowsAreCurrent(d) /\ ClassesAreCurrent(d) /\ RestartsIdle(d))'
  BY <1>2, <1>3, NotListing DEF UninstallStages
<1>6. ~Has(d, "force") /\ at[d] \in job => at[d] \in moved[d]
  BY <1>1, <1>2 DEF GateHolds
<1>7. PlanInScope(d)' /\ GateHolds(d)' /\ NothingCutYet(d)'
  BY <1>1, <1>2, <1>3, <1>4 DEF PlanInScope, GateHolds, NothingCutYet
<1>8. StopsLate(d)'
  BY <1>2, <1>4, <1>6 DEF StopsLate
<1> QED BY <1>5, <1>7, <1>8 DEF PassInv

\* The rest of an uninstall stops nothing.
LEMMA PurgeKeeps ==
  ASSUME Types, NEW d \in Commands,
         PurgeBase(d) \/ BackupConfigDir(d) \/ RemoveConfigDir(d) \/ RemoveBinary(d), PassInv(d)
  PROVE  PassInv(d)'
<1>1. /\ UNCHANGED <<job, lane, kind, flags, scope, todo, at, cut>>
      /\ pc[d] \in {"lanes", "backup", "config", "binary"} /\ pc[d] \in UninstallStages
      /\ \/ Goto(d, IF RemovesConfig(d) THEN "backup" ELSE "binary")
         \/ pc[d] = "backup" /\ Goto(d, "config")
         \/ Goto(d, "done") \/ Goto(d, "binary")
  BY DEF PurgeBase, BackupConfigDir, RemoveConfigDir, RemoveBinary, ctlVars, planVars, UninstallStages
<1>2. /\ HostTypes /\ CommandTypes /\ HistoryTypes
      /\ NothingCutYet(d) /\ PlanInScope(d) /\ GateHolds(d) /\ StopsLate(d)
      /\ kind[d] = "uninstall" /\ kind'[d] = "uninstall"
      /\ \A f : Has(d, f)' = Has(d, f)
      /\ \A x : InScope(d, x)' = InScope(d, x)
      /\ RemovesConfig(d)' = RemovesConfig(d)
      /\ Removing(d) <=> pc[d] \in {"gate", "gateLanes", "lanes", "wipe", "deregister"}
      /\ Removing(d)' <=> pc'[d] \in {"gate", "gateLanes", "lanes", "wipe", "deregister"}
  BY <1>1, UninstallStart
<1>3. /\ pc'[d] \in {"backup", "config", "done", "binary"}
      /\ pc'[d] = "backup" => RemovesConfig(d)
      /\ pc'[d] = "config" => pc[d] = "backup"
  BY <1>1, <1>2 DEF CommandTypes, Maps, Goto
<1>4. moved[d] \subseteq moved'[d]
  <2>1. CASE PurgeBase(d)
    <3>1. PICK X : Touch(d, X)
      BY <2>1 DEF PurgeBase
    <3> QED BY <1>2, <3>1 DEF Touch
  <2>2. CASE moved' = moved
    BY <2>2
  <2> QED BY <2>1, <2>2 DEF BackupConfigDir, RemoveConfigDir, RemoveBinary
<1>5. (KindFits(d) /\ NotJudgedYet(d) /\ RowsAreCurrent(d) /\ ClassesAreCurrent(d) /\ RestartsIdle(d))'
  BY <1>2, <1>3, NotListing DEF UninstallStages
<1>6. PlanInScope(d)' /\ GateHolds(d)' /\ NothingCutYet(d)' /\ StopsLate(d)'
  BY <1>1, <1>2, <1>3, <1>4 DEF PlanInScope, GateHolds, NothingCutYet, StopsLate
<1> QED BY <1>5, <1>6 DEF PassInv

-----------------------------------------------------------------------------
(* The invariant of the specification.                                     *)

\* Where the config directory may be removed next, a whole backup exists.
BackedUp == \A c \in Commands : pc[c] = "config" => cfg.backup = "full"

PassesInv ==
  /\ Types
  /\ \A c \in Commands : PassInv(c)
  /\ BackedUp /\ KeysSurvive

LEMMA FoundUnits ==
  \A s \in Situations : /\ GoodUnit(Found[s])
                        /\ Found[s].unit \/ s \in {"ghost", "absent"}
<1>1. GoodUnit(Installed) /\ Installed.unit
  <2>1. [mark |-> 1, body |-> 1] \in DropIns
    BY HostConstants DEF DropIns
  <2> QED BY <2>1, IdsAreNumbers DEF GoodUnit, Units, Installed
<1>2. ASSUME NEW x \in DropIns PROVE GoodUnit(Dropped(x)) /\ Dropped(x).unit
  BY <1>1, <1>2 DEF GoodUnit, Units, Dropped
<1>3. [mark |-> 0, body |-> 1] \in DropIns /\ [mark |-> 1, body |-> 0] \in DropIns /\ [mark |-> MaxGen, body |-> MaxGen] \in DropIns
  BY HostConstants DEF DropIns
<1>4. /\ GoodUnit(Dropped([mark |-> 0, body |-> 1])) /\ Dropped([mark |-> 0, body |-> 1]).unit
      /\ GoodUnit(Dropped([mark |-> 1, body |-> 0])) /\ Dropped([mark |-> 1, body |-> 0]).unit
      /\ GoodUnit(Dropped([mark |-> MaxGen, body |-> MaxGen])) /\ Dropped([mark |-> MaxGen, body |-> MaxGen]).unit
  BY <1>2, <1>3
<1>5. /\ GoodUnit([Installed EXCEPT !.svc = "down"]) /\ [Installed EXCEPT !.svc = "down"].unit
      /\ GoodUnit([Installed EXCEPT !.svc = "deaf"]) /\ [Installed EXCEPT !.svc = "deaf"].unit
      /\ GoodUnit([Installed EXCEPT !.tree = "flat"]) /\ [Installed EXCEPT !.tree = "flat"].unit
  BY <1>1 DEF GoodUnit, Units
<1>6. Absent.unit = FALSE /\ GoodUnit(Absent)
  BY UnitFacts DEF Absent
<1>7. /\ Found["healthy"] = Installed
      /\ Found["field"] = Dropped([mark |-> 0, body |-> 1])
      /\ Found["stale"] = Dropped([mark |-> 1, body |-> 0])
      /\ Found["newer"] = Dropped([mark |-> MaxGen, body |-> MaxGen])
  BY DEF Found
<1>8. /\ Found["stopped"] = [Installed EXCEPT !.svc = "down"]
      /\ Found["orphan"] = [Installed EXCEPT !.svc = "deaf"]
      /\ Found["flat"] = [Installed EXCEPT !.tree = "flat"]
      /\ Found["ghost"] = Absent /\ Found["absent"] = Absent
  BY DEF Found
<1> SUFFICES ASSUME NEW s \in Situations
             PROVE  GoodUnit(Found[s]) /\ (Found[s].unit \/ s \in {"ghost", "absent"})
  OBVIOUS
<1>9. CASE s \in {"healthy", "field", "stale", "newer"}
  BY <1>1, <1>4, <1>7, <1>9
<1>10. CASE s \in {"stopped", "orphan", "flat", "ghost", "absent"}
  BY <1>5, <1>6, <1>8, <1>10
<1> QED BY <1>9, <1>10 DEF Situations

LEMMA PassesInit == Init => PassesInv
<1> SUFFICES ASSUME Init PROVE PassesInv
  OBVIOUS
<1>1. PICK start \in Starts :
        /\ h = [r \in Runners |-> Found[start.sit[r]]]
        /\ reg = [r \in Runners |-> IF start.sit[r] \in {"orphan", "absent"} THEN NoId ELSE 1]
        /\ cfg = [dir |-> TRUE, backup |-> "none", binary |-> TRUE, isolated |-> start.isolated]
  BY DEF Init
<1>2. /\ idr = [c \in Commands |-> NoId] /\ job = {}
      /\ lane = [l \in Lanes |-> "between"]
      /\ pc = [c \in Commands |-> "idle"]
      /\ kind = [c \in Commands |-> "report"] /\ scope = [c \in Commands |-> Host]
      /\ flags = [c \in Commands |-> {}]
      /\ at = [c \in Commands |-> CHOOSE r \in Runners : TRUE]
      /\ list = [c \in Commands |-> [r \in Runners |-> "absent"]]
      /\ errs = [c \in Commands |-> {}] /\ todo = [c \in Commands |-> {}]
      /\ class = [c \in Commands |-> [r \in Runners |-> "none"]]
      /\ cut = [c \in Commands |-> {}] /\ moved = [c \in Commands |-> {}]
      /\ failed = [c \in Commands |-> {}]
  BY DEF Init
<1>3. start.sit \in [Runners -> Situations] /\ start.isolated \in BOOLEAN
  BY StartsAssumption
<1>4. \A r \in Runners : GoodUnit(h[r])
  BY <1>1, <1>3, FoundUnits
<1>5. h \in [Runners -> Units]
  <2>1. h = [r \in Runners |-> h[r]]
    BY <1>1
  <2> QED BY <1>4, <2>1 DEF GoodUnit
<1>6. reg \in [Runners -> Ids]
  BY <1>1, IdsAreNumbers DEF NoId
<1>7. HostTypes
  BY <1>1, <1>2, <1>3, <1>4, <1>5, <1>6 DEF HostTypes
<1>8. CommandTypes /\ HistoryTypes
  BY <1>2, IdsAreNumbers DEF CommandTypes, HistoryTypes, Maps, Rows, Classes, NoId
<1>9. \A c \in Commands : pc[c] = "idle" /\ kind[c] = "report" /\ cut[c] = {}
  BY <1>2
<1>10. \A c \in Commands : PassInv(c)
  BY <1>9 DEF PassInv, KindFits, NothingCutYet, NotJudgedYet, RowsAreCurrent, ClassesAreCurrent, RestartsIdle,
     AfterListing, PlanInScope, Removing, GateHolds, StopsLate, CreateStages, ReconcileStages, UninstallStages
<1>11. BackedUp /\ KeysSurvive
  BY <1>1, <1>9 DEF BackedUp, KeysSurvive
<1> QED BY <1>7, <1>8, <1>10, <1>11 DEF PassesInv, Types

\* A step of a command keeps the conditions of every command.
LEMMA PassStep ==
  ASSUME Types, NEW d \in Commands, Begin(d) \/ CreateStep(d) \/ ReconcileStep(d) \/ UninstallStep(d), PassInv(d)
  PROVE  PassInv(d)'
<1>1. CASE Begin(d)
  BY <1>1, BeginKeeps
<1>2. CASE CreateStep(d)
  BY <1>2, CreateKeeps
<1>3. CASE ReconcileStep(d)
  BY <1>3, ListAllRunnersKeeps, ListUnitsKeeps, UnmatchedKeeps, WipeOrphanKeeps, RestartUnitKeeps,
     InspectKeeps, RepairOrphanKeeps, RepairUnitKeeps, SkipRepairKeeps, RefreshRowKeeps
     DEF ReconcileStep
<1>4. CASE UninstallStep(d)
  BY <1>4, EnumerateKeeps, GateRunnersKeeps, GateLanesKeeps, WipeRunnerKeeps, DeregisterRunnerKeeps,
     PurgeKeeps, RemoveLaneKeeps, TeardownRunnerKeeps
     DEF UninstallStep
<1> QED BY <1>1, <1>2, <1>3, <1>4

\* Only the last steps of an uninstall touch the config directory.
LEMMA ConfigIsKept ==
  ASSUME Types, NEW d \in Commands,
         \/ Begin(d) \/ CreateStep(d) \/ ReconcileStep(d)
         \/ Enumerate(d) \/ GateRunners(d) \/ GateLanes(d) \/ WipeRunner(d) \/ DeregisterRunner(d) \/ PurgeBase(d)
         \/ \E l \in Lanes : RemoveLane(d, l)
         \/ \E r \in Runners : TeardownRunner(d, r)
  PROVE  cfg' = cfg /\ (pc'[d] = "config" => pc[d] = "config")
<1>1. Maps(pc)
  BY DEF Types, CommandTypes
<1>2. CASE Begin(d)
  BY <1>2, Begun DEF hostVars
<1>3. CASE CreateStep(d)
  BY <1>1, <1>3 DEF CreateStep, Create, Register, InstallUnit, Harden, Start, Goto, Maps
<1>4. CASE ReconcileStep(d)
  <2>1. CASE ListAllRunners(d) \/ ListUnits(d) \/ Unmatched(d)
    BY <1>1, <2>1 DEF ListAllRunners, ListUnits, Unmatched, Goto, Maps, hostVars
  <2>2. CASE WipeOrphan(d) \/ RestartUnit(d)
    BY <1>1, <2>2 DEF WipeOrphan, RestartUnit, Done, Goto, Maps
  <2>3. ASSUME NEW r \in Runners, Inspect(d, r) \/ RepairOrphan(d, r) \/ SkipRepair(d, r)
        PROVE  cfg' = cfg /\ (pc'[d] = "config" => pc[d] = "config")
    BY <1>1, <2>3 DEF Inspect, RepairOrphan, SkipRepair, Done, Goto, Maps, hostVars
  <2>4. ASSUME NEW r \in Runners, RepairUnit(d, r) \/ RefreshRow(d, r)
        PROVE  cfg' = cfg /\ (pc'[d] = "config" => pc[d] = "config")
    BY <1>1, <2>4 DEF RepairUnit, RefreshRow, Done, Goto, Maps
  <2> QED BY <1>4, <2>1, <2>2, <2>3, <2>4 DEF ReconcileStep
<1>5. CASE Enumerate(d) \/ GateRunners(d) \/ GateLanes(d)
  BY <1>1, <1>5 DEF Enumerate, GateRunners, GateLanes, Goto, Maps, hostVars
<1>6. CASE WipeRunner(d) \/ DeregisterRunner(d)
  BY <1>1, <1>6 DEF WipeRunner, DeregisterRunner, Goto, Maps
<1>7. CASE PurgeBase(d)
  BY <1>1, <1>7 DEF PurgeBase, Goto, Maps
<1>8. CASE \E l \in Lanes : RemoveLane(d, l)
  BY <1>8 DEF RemoveLane
<1>9. CASE \E r \in Runners : TeardownRunner(d, r)
  BY <1>1, <1>9 DEF TeardownRunner, Goto, Maps
<1> QED BY <1>2, <1>3, <1>4, <1>5, <1>6, <1>7, <1>8, <1>9

LEMMA ConfigStep ==
  ASSUME Types, BackedUp, KeysSurvive, NEW d \in Commands,
         Begin(d) \/ CreateStep(d) \/ ReconcileStep(d) \/ UninstallStep(d)
  PROVE  BackedUp' /\ KeysSurvive'
<1>1. \A c \in Commands : c # d => pc'[c] = pc[c]
  BY CommandFrames DEF FrameFor, Frame, Apart
<1>2. Maps(pc) /\ cfg \in [dir : BOOLEAN, backup : {"none", "torn", "full"}, binary : BOOLEAN, isolated : BOOLEAN]
  BY DEF Types, CommandTypes, HostTypes
<1>3. CASE BackupConfigDir(d)
  <2>1. cfg'.dir = cfg.dir /\ (cfg.backup = "full" => cfg'.backup = "full")
        /\ (pc'[d] = "config" => cfg'.backup = "full")
    BY <1>2, <1>3 DEF BackupConfigDir, Goto, Maps
  <2> QED BY <1>1, <2>1 DEF BackedUp, KeysSurvive
<1>4. CASE RemoveConfigDir(d)
  <2>1. cfg.backup = "full" /\ cfg'.backup = cfg.backup
    BY <1>2, <1>4 DEF RemoveConfigDir, BackedUp
  <2> QED BY <1>1, <2>1 DEF BackedUp, KeysSurvive
<1>5. CASE RemoveBinary(d)
  <2>1. cfg'.backup = cfg.backup /\ cfg'.dir = cfg.dir /\ pc'[d] = "done"
    BY <1>2, <1>5 DEF RemoveBinary, Goto, Maps
  <2> QED BY <1>1, <2>1 DEF BackedUp, KeysSurvive
<1>6. CASE ~(BackupConfigDir(d) \/ RemoveConfigDir(d) \/ RemoveBinary(d))
  <2>1. cfg' = cfg /\ (pc'[d] = "config" => pc[d] = "config")
    BY <1>6, ConfigIsKept DEF UninstallStep
  <2> QED BY <1>1, <2>1 DEF BackedUp, KeysSurvive
<1> QED BY <1>3, <1>4, <1>5, <1>6

LEMMA PassesStep == PassesInv /\ [Next]_vars => PassesInv'
<1> SUFFICES ASSUME PassesInv, [Next]_vars PROVE PassesInv'
  OBVIOUS
<1>1. ASSUME NEW d \in Commands, Begin(d) \/ CreateStep(d) \/ ReconcileStep(d) \/ UninstallStep(d)
      PROVE  PassesInv'
  <2>1. Types' /\ FrameFor(d)
    BY <1>1, CommandFrames DEF PassesInv
  <2>2. \A c \in Commands : PassInv(c)'
    BY <1>1, <2>1, PassStep, FrameKeeps DEF PassesInv, FrameFor
  <2>3. BackedUp' /\ KeysSurvive'
    BY <1>1, ConfigStep DEF PassesInv
  <2> QED BY <2>1, <2>2, <2>3 DEF PassesInv
<1>2. CASE GitHubStep
  <2>1. Types' /\ \A c \in Commands : Frame(c)
    BY <1>2, GitHubFrames DEF PassesInv
  <2>2. \A c \in Commands : PassInv(c)'
    BY <2>1, FrameKeeps DEF PassesInv
  <2>3. cfg' = cfg /\ pc' = pc
    BY <1>2 DEF GitHubStep, TakeJob, FinishJob, ServiceDrops, RemovedOnGitHub, LaneStep, Quiet
  <2> QED BY <2>1, <2>2, <2>3 DEF PassesInv, BackedUp, KeysSurvive
<1>3. CASE UNCHANGED vars
  <2>1. UNCHANGED <<h, reg, job, lane, cfg, pc, kind, scope, flags, at, list, errs, todo, class, idr, cut, moved, failed>>
    BY <1>3 DEF vars, hostVars, ctlVars, planVars
  <2>2. Types' /\ \A c \in Commands : Frame(c)
    BY <2>1 DEF PassesInv, Types, HostTypes, CommandTypes, HistoryTypes, Maps, Frame, Apart, LeavesUnmoved
  <2>3. \A c \in Commands : PassInv(c)'
    BY <2>2, FrameKeeps DEF PassesInv
  <2> QED BY <2>1, <2>2, <2>3 DEF PassesInv, BackedUp, KeysSurvive
<1> QED BY <1>1, <1>2, <1>3 DEF Next

LEMMA PassesInvHolds == Spec => []PassesInv
<1> QED BY PassesInit, PassesStep, PTL DEF Spec

\* A pass stops no job it has not been forced to stop, unless the job came
\* after its last look at GitHub and the lanes: of Reconcile and its repairs,
\* RefreshLocalUnits, and Uninstall behind its drain gate.
THEOREM StopsAreLate == Spec => []StopsOnlyLateJobs
<1>1. PassesInv => StopsOnlyLateJobs
  BY DEF PassesInv, PassInv, StopsLate, StopsOnlyLateJobs
<1> QED BY <1>1, PassesInvHolds, PTL

\* The config directory, with the keys GitHub shows once, only goes when a
\* whole backup exists: BackupConfigDir before os.RemoveAll in Uninstall.
THEOREM KeysSurvivePurges == Spec => []KeysSurvive
<1>1. PassesInv => KeysSurvive
  BY DEF PassesInv
<1> QED BY <1>1, PassesInvHolds, PTL

\* Units, registrations and the state of every command keep their kinds
\* (Reconcile, Uninstall, CreateRunner): no unit without its parts is online.
THEOREM UnitsKeepTheirKind == Spec => []TypeOK
<1>1. ASSUME NEW u, GoodUnit(u), ~u.unit PROVE u = [Absent EXCEPT !.tree = u.tree, !.id = u.id]
  <2>1. Absent \in Units /\ u \in Units
    BY <1>1, UnitFacts DEF GoodUnit
  <2>2. PICK a \in Units : a = [Absent EXCEPT !.tree = u.tree, !.id = u.id]
    BY <2>1 DEF Units
  <2>3. /\ a.unit = Absent.unit /\ a.svc = Absent.svc /\ a.drop = Absent.drop /\ a.loaded = Absent.loaded
        /\ a.tree = u.tree /\ a.id = u.id
    BY <2>1, <2>2 DEF Units
  <2>4. /\ u.unit = Absent.unit /\ u.svc = Absent.svc /\ u.drop = Absent.drop /\ u.loaded = Absent.loaded
    BY <1>1 DEF GoodUnit, Absent, Units
  <2>5. u = a
    BY <2>1, <2>3, <2>4 DEF Units
  <2> QED BY <2>2, <2>5
<1>2. PassesInv => TypeOK
  BY <1>1 DEF PassesInv, Types, HostTypes, CommandTypes, HistoryTypes, TypeOK
<1> QED BY <1>2, PassesInvHolds, PTL

-----------------------------------------------------------------------------
(* What no pass touches.                                                   *)

\* A unit is only removed as an orphan while GitHub does not know its runner.
LEMMA OrphanUnknown ==
  ASSUME Types, NEW c \in Commands, PassInv(c), NEW r \in Runners, RepairOrphan(c, r)
  PROVE  reg[r] = NoId \/ r \in moved[c]
<1>1. pc[c] = "repair" /\ r \in todo[c] /\ class[c][r] = "orphan-unit"
  BY DEF RepairOrphan
<1>2. AfterListing(c) /\ Unhandled(c, r)
  BY <1>1 DEF PassInv, KindFits, AfterListing, Unhandled
<1>3. list[c][r] = "absent" /\ Listed(c, r)
  BY <1>1, <1>2 DEF PassInv, ClassesAreCurrent
<1>4. r \in moved[c] \/ Row(r) = "absent"
  BY <1>2, <1>3 DEF PassInv, RowsAreCurrent
<1> QED BY <1>4, RowOfJob DEF Types

\* No repair takes a drop-in back to an older generation.
LEMMA RepairKeepsNewer ==
  ASSUME Types, NEW c \in Commands, PassInv(c), NEW r \in Runners,
         RepairUnit(c, r), h'[r].drop.mark < h[r].drop.mark
  PROVE  r \in moved[c]
<1>1. pc[c] = "repair" /\ class[c][r] \in {"stale-dropin", "stuck"}
  BY DEF RepairUnit
<1>2. AfterListing(c)
  BY <1>1 DEF PassInv, KindFits, AfterListing
<1>3. r \in moved[c] \/ ~Newer(c, h[r].drop)
  BY <1>1, <1>2 DEF PassInv, ClassesAreCurrent
<1>4. h[r].drop \in DropIns /\ h[r].drop.mark \in Int /\ Gen[c] \in Int
  BY HostConstants DEF Types, HostTypes, Units, DropIns
<1>5. CASE WriteDropIn(c, r)
  <2>1. h'[r].drop = Render(c)
    BY <1>5, DropInUnit DEF Types
  <2>2. Render(c).mark = Gen[c]
    BY DEF Render
  <2> QED BY <1>3, <1>4, <2>1, <2>2 DEF Newer
<1>6. CASE h' = h
  BY <1>4, <1>6
<1> QED BY <1>5, <1>6 DEF RepairUnit

\* What a purge removes of the base: nothing of the tool cache all software
\* shares, and for one org only what has its name.
LEMMA TargetsFit ==
  ASSUME Types, NEW c \in Commands
  PROVE  /\ <<"toolcache", Host>> \notin Targets(c)
         /\ scope[c] # Host => \A b \in Targets(c) : b[2] = scope[c]
         /\ \A o \in Configured : <<"tree", o>> \in Targets(c) => scope[c] \in {Host, o}
<1>1. scope[c] \in {Host} \cup Configured /\ Host \notin Configured
  BY HostConstants DEF Types, CommandTypes, AllOrgs
<1>2. /\ \A o \in Configured : <<"toolcache", Host>> \notin OwnBase(o)
      /\ \A o : \A b \in OwnBase(o) : b[2] = o
      /\ \A o, p : <<"tree", p>> \notin OwnBase(o)
  BY <1>1 DEF OwnBase
<1>3. CASE scope[c] = Host
  <2> DEFINE Own == IF cfg.isolated THEN UNION {OwnBase(o) : o \in Configured}
                    ELSE OwnBase(Host) \ {<<"toolcache", Host>>}
             Rest == {<<"root", Host>>, <<"control", Host>>, <<"slice", Host>>}
             Trees == {<<"tree", o>> : o \in Configured}
  <2>1. Targets(c) = (Own \cup Rest) \cup Trees
    BY <1>3 DEF Targets
  <2>2. <<"toolcache", Host>> \notin Own
    BY <1>2
  <2>3. <<"toolcache", Host>> \notin Rest /\ <<"toolcache", Host>> \notin Trees
    OBVIOUS
  <2> HIDE DEF Own, Rest, Trees
  <2> QED BY <1>3, <2>1, <2>2, <2>3
<1>4. CASE scope[c] # Host
  <2> DEFINE Own == IF cfg.isolated THEN OwnBase(scope[c]) ELSE {}
  <2>1. Targets(c) = Own \cup {<<"tree", scope[c]>>} /\ scope[c] \in Configured
    BY <1>1, <1>4 DEF Targets
  <2>2. /\ <<"toolcache", Host>> \notin Own
        /\ \A b \in Own : b[2] = scope[c]
        /\ \A p : <<"tree", p>> \notin Own
    BY <1>2, <2>1
  <2>3. <<"toolcache", Host>> # <<"tree", scope[c]>> /\ <<"tree", scope[c]>>[2] = scope[c]
        /\ \A o : <<"tree", o>> = <<"tree", scope[c]>> => o = scope[c]
    OBVIOUS
  <2> HIDE DEF Own
  <2> QED BY <2>1, <2>2, <2>3
<1> QED BY <1>3, <1>4

\* The steps of an uninstall stay within what it was asked about.
StaysWithin(c) ==
  /\ \A r \in Runners : ~InScope(c, r) => h'[r] = h[r] /\ reg'[r] = reg[r]
  /\ \A l \in Lanes : ~InScope(c, l) => lane'[l] = lane[l]
  /\ <<"toolcache", Host>> \notin base \ base'
  /\ scope[c] # Host => /\ \A b \in base \ base' : b[2] = scope[c]
                        /\ cfg' = cfg

LEMMA PurgeStaysWithin ==
  ASSUME Types, NEW c \in Commands, PurgeBase(c)
  PROVE  StaysWithin(c)
<1>1. PICK stuck \in SUBSET (Targets(c) \cap base) :
        /\ base' = base \ (Targets(c) \ stuck)
        /\ LET gone == {o \in Configured : <<"tree", o>> \in Targets(c) \ stuck} IN
             h' = [r \in Runners |->
               IF OrgOf[r] \in gone /\ h[r].tree # "none" /\ (scope[c] = Host \/ h[r].tree = "tree")
               THEN [h[r] EXCEPT !.tree = "none", !.id = NoId] ELSE h[r]]
  BY DEF PurgeBase
<1>2. UNCHANGED <<reg, lane, cfg>>
  BY DEF PurgeBase
<1>3. base \ base' \subseteq Targets(c)
  BY <1>1
<1>4. ASSUME NEW r \in Runners, ~InScope(c, r) PROVE h'[r] = h[r]
  <2>1. ~(OrgOf[r] \in Configured /\ <<"tree", OrgOf[r]>> \in Targets(c))
    BY <1>4, TargetsFit DEF InScope
  <2> QED BY <1>1, <2>1
<1> QED BY <1>2, <1>3, <1>4, TargetsFit DEF StaysWithin

LEMMA UninstallStaysWithin ==
  ASSUME Types, NEW c \in Commands, PassInv(c), kind[c] = "uninstall", UninstallStep(c)
  PROVE  StaysWithin(c)
<1>1. HostTypes /\ CommandTypes /\ PlanInScope(c)
  BY DEF Types, PassInv
<1>2. CASE Enumerate(c) \/ GateRunners(c) \/ GateLanes(c)
  BY <1>2 DEF Enumerate, GateRunners, GateLanes, hostVars, StaysWithin
<1>3. CASE WipeRunner(c)
  <2>1. at[c] \in Runners /\ InScope(c, at[c]) /\ UNCHANGED <<reg, lane, base, cfg>>
    BY <1>1, <1>3 DEF WipeRunner, PlanInScope, Removing, CommandTypes
  <2>2. \A r \in Runners \ {at[c]} : h'[r] = h[r]
    BY <1>1, <1>3, <2>1, WipeUnit DEF WipeRunner
  <2> QED BY <2>1, <2>2 DEF StaysWithin
<1>4. CASE DeregisterRunner(c)
  <2>1. at[c] \in Runners /\ InScope(c, at[c]) /\ UNCHANGED <<lane, base, cfg>>
    BY <1>1, <1>4 DEF DeregisterRunner, PlanInScope, Removing, CommandTypes
  <2>2. \A r \in Runners \ {at[c]} : h'[r] = h[r] /\ reg'[r] = reg[r]
    BY <1>1, <1>4, <2>1, ForgottenUnit DEF DeregisterRunner
  <2> QED BY <2>1, <2>2 DEF StaysWithin
<1>5. CASE PurgeBase(c)
  BY <1>5, PurgeStaysWithin
<1>6. CASE BackupConfigDir(c) \/ RemoveConfigDir(c)
  <2>1. scope[c] = Host
    BY <1>1, <1>6 DEF BackupConfigDir, RemoveConfigDir, PlanInScope, RemovesConfig
  <2> QED BY <1>6, <2>1 DEF BackupConfigDir, RemoveConfigDir, StaysWithin
<1>7. CASE RemoveBinary(c)
  <2>1. scope[c] # Host => cfg' = cfg
    BY <1>1, <1>7 DEF RemoveBinary, HostTypes
  <2> QED BY <1>7, <2>1 DEF RemoveBinary, StaysWithin
<1>8. ASSUME NEW l \in Lanes, RemoveLane(c, l) PROVE StaysWithin(c)
  <2>1. InScope(c, l) /\ UNCHANGED <<h, reg, base, cfg>> /\ \A m \in Lanes \ {l} : lane'[m] = lane[m]
    BY <1>1, <1>8 DEF RemoveLane, PlanInScope, Removing, HostTypes
  <2> QED BY <2>1 DEF StaysWithin
<1>9. ASSUME NEW r \in Runners, TeardownRunner(c, r) PROVE StaysWithin(c)
  <2>1. InScope(c, r) /\ UNCHANGED <<reg, lane, base, cfg>> /\ \A x \in Runners \ {r} : h'[x] = h[x]
    BY <1>1, <1>9, TeardownUnit DEF TeardownRunner, PlanInScope, Removing
  <2> QED BY <2>1 DEF StaysWithin
<1> QED BY <1>2, <1>3, <1>4, <1>5, <1>6, <1>7, <1>8, <1>9 DEF UninstallStep

\* A repair never removes a unit whose runner GitHub knows, nor writes an older
\* drop-in over a newer one, unless the runner has changed since it was looked
\* at; and an uninstall takes nothing it was not asked about, however many
\* commands share the host (repairRunner, Uninstall, uninstallBaseTargets).
THEOREM PassesKeepOffOthers == Spec => PassesKeepOff
<1>1. PassesInv => [\A c \in Commands, r \in Runners : RepairOrphan(c, r) => reg[r] = NoId \/ r \in moved[c]]_vars
  BY OrphanUnknown DEF PassesInv
<1>2. PassesInv => [\A c \in Commands, r \in Runners :
         RepairUnit(c, r) /\ h'[r].drop.mark < h[r].drop.mark => r \in moved[c]]_vars
  BY RepairKeepsNewer DEF PassesInv
<1>3. PassesInv => [\A c \in Commands : kind[c] = "uninstall" /\ UninstallStep(c) =>
       /\ \A r \in Runners : ~InScope(c, r) => h'[r] = h[r] /\ reg'[r] = reg[r]
       /\ \A l \in Lanes : ~InScope(c, l) => lane'[l] = lane[l]
       /\ <<"toolcache", Host>> \notin base \ base'
       /\ scope[c] # Host => /\ \A b \in base \ base' : b[2] = scope[c]
                             /\ cfg' = cfg]_vars
  BY UninstallStaysWithin DEF PassesInv, StaysWithin
<1>4. Spec => OrphansAreUnregistered
  BY <1>1, PassesInvHolds, PTL DEF OrphansAreUnregistered
<1>5. Spec => NewerIsLeftAlone
  BY <1>2, PassesInvHolds, PTL DEF NewerIsLeftAlone
<1>6. Spec => StaysInScope
  BY <1>3, PassesInvHolds, PTL DEF StaysInScope
<1> QED BY <1>4, <1>5, <1>6 DEF PassesKeepOff

-----------------------------------------------------------------------------
(* What a pass has done when it returns.                                   *)

\* Who is judged: a runner of the scope that nobody else has touched.
Kept(c, r)    == InScope(c, r) /\ r \notin moved[c]
Verdict(c, r) == Classify(c, r, list[c][r], Listed(c, r))

\* The inspection gives every unit it has looked at its class.
Inspected(c) == kind[c] = "fix" /\ pc[c] = "inspect" =>
  \A r \in Runners : Kept(c, r) =>
    /\ r \in todo[c] => h[r].unit
    /\ h[r].unit /\ r \notin todo[c] => class[c][r] = Verdict(c, r)
    /\ class[c][r] # "none" => h[r].unit /\ class[c][r] = Verdict(c, r)

\* What a repair still has to look at is as the inspection has found it.
Judged(c, r) ==
  /\ class[c][r] = "none" => ~h[r].unit
  /\ h[r].unit => class[c][r] = Verdict(c, r)
  /\ class[c][r] \in {"stale-dropin", "stuck"} => h[r].unit

\* Between the two steps of a repair.
HalfRepaired(c, r) ==
  /\ pc[c] = "wipe" => class[c][r] = "orphan-unit" /\ ~h[r].unit
  /\ pc[c] = "restart" => /\ class[c][r] \in {"stale-dropin", "stuck"}
                          /\ h[r].unit /\ h[r].drop = Render(c) /\ h[r].tree # "flat"

\* What FixRepairs asks of one runner.
Repaired(c, r) ==
  /\ class[c][r] = "orphan-unit" => ~h[r].unit /\ h[r].tree # "tree"
  /\ h[r].unit => \/ Classify(c, r, Row(r), TRUE) \in {"healthy", "dropin-newer", "legacy-flat"}
                  \/ h[r].tree = "none"
                  \/ Classify(c, r, Row(r), TRUE) = "stuck" /\ ~Registered(r)
  /\ class[c][r] \in {"stale-dropin", "stuck"} => h[r].loaded = Render(c)

AtHand(c, r) == r = at[c] /\ pc[c] \in {"wipe", "restart"}
Answers(c, r) == Kept(c, r) /\ r \notin failed[c] /\ Listed(c, r) /\ ~Busy(c, r)

FixProgress(c) == kind[c] = "fix" /\ pc[c] \in {"repair", "wipe", "restart", "done"} =>
  /\ pc[c] = "done" => todo[c] = {}
  /\ \A r \in Runners : Answers(c, r) =>
       IF AtHand(c, r) THEN HalfRepaired(c, r)
       ELSE IF r \in todo[c] THEN Judged(c, r) ELSE Repaired(c, r)

\* What an uninstall has planned and not removed is still on its list, and
\* after the purge of the host no tree is left.
AfterPurge  == {"backup", "config", "binary", "done"}
PurgeStages == {"gate", "gateLanes", "lanes", "wipe", "deregister"} \cup AfterPurge

PurgeProgress(c) == kind[c] = "uninstall" /\ pc[c] \in PurgeStages =>
  /\ \A r \in Runners : Kept(c, r) /\ h[r].unit => r \in todo[c]
  /\ \A l \in Lanes : InScope(c, l) /\ l \notin moved[c] \cup failed[c] /\ lane[l] # "gone" => l \in todo[c]
  /\ pc[c] \in AfterPurge =>
       /\ todo[c] = {}
       /\ scope[c] = Host /\ Host \notin failed[c] => \A r \in Runners : Kept(c, r) => h[r].tree = "none"

Delivers(c) == Inspected(c) /\ FixProgress(c) /\ PurgeProgress(c)

\* Nothing is said of a runner that is not seen in the state of the runner, the
\* listing and the classes of the command.
LEMMA RunnerKept ==
  ASSUME NEW c \in Commands, NEW r \in Runners, h'[r] = h[r], reg'[r] = reg[r], r \in job' <=> r \in job,
         list'[c] = list[c], errs'[c] = errs[c], class'[c] = class[c]
  PROVE  /\ Verdict(c, r)' = Verdict(c, r) /\ Listed(c, r)' = Listed(c, r) /\ Busy(c, r)' = Busy(c, r)
         /\ Judged(c, r) => Judged(c, r)'
         /\ Repaired(c, r) => Repaired(c, r)'
         /\ HalfRepaired(c, r) /\ pc'[c] = pc[c] => HalfRepaired(c, r)'
<1>1. Listed(c, r)' = Listed(c, r) /\ Busy(c, r)' = Busy(c, r)
  BY DEF Listed, Busy
<1>2. \A row, b : Classify(c, r, row, b)' = Classify(c, r, row, b)
  BY DEF Classify, Conforms, Newer
<1>3. Verdict(c, r)' = Verdict(c, r)
  BY <1>1 DEF Verdict, Classify, Conforms, Newer
<1>4. Row(r)' = Row(r) /\ Registered(r)' = Registered(r)
  BY RowKept DEF Registered
<1>5. Classify(c, r, Row(r), TRUE)' = Classify(c, r, Row(r), TRUE)
  BY <1>4 DEF Classify, Conforms, Newer
<1>6. Judged(c, r) => Judged(c, r)'
  BY <1>3 DEF Judged
<1>7. Repaired(c, r) => Repaired(c, r)'
  BY <1>4, <1>5 DEF Repaired, Render
<1>8. HalfRepaired(c, r) /\ pc'[c] = pc[c] => HalfRepaired(c, r)'
  BY DEF HalfRepaired, Render
<1> QED BY <1>1, <1>3, <1>6, <1>7, <1>8

LEMMA FrameDelivers ==
  ASSUME Types, NEW c \in Commands, Frame(c), Delivers(c)
  PROVE  Delivers(c)'
<1>1. Apart(c) /\ moved[c] \subseteq moved'[c]
  BY DEF Frame, LeavesUnmoved
<1>2. \A x : InScope(c, x)' = InScope(c, x)
  BY <1>1 DEF Apart, InScope
<1>3. ASSUME NEW r \in Runners, Kept(c, r)'
      PROVE  Kept(c, r) /\ h'[r] = h[r] /\ reg'[r] = reg[r] /\ (r \in job' <=> r \in job)
  BY <1>1, <1>2, <1>3 DEF Frame, LeavesUnmoved, Kept
<1>4. Inspected(c)'
  <2>1. ASSUME NEW r \in Runners, Kept(c, r)' PROVE Verdict(c, r)' = Verdict(c, r)
    BY <1>1, <1>3, <2>1, RunnerKept DEF Apart
  <2> QED BY <1>1, <1>3, <2>1 DEF Delivers, Inspected, Apart
<1>5. FixProgress(c)'
  <2> SUFFICES ASSUME kind'[c] = "fix", pc'[c] \in {"repair", "wipe", "restart", "done"}
               PROVE  /\ pc'[c] = "done" => todo'[c] = {}
                      /\ \A r \in Runners : Answers(c, r)' =>
                           IF AtHand(c, r)' THEN HalfRepaired(c, r)'
                           ELSE IF r \in todo'[c] THEN Judged(c, r)' ELSE Repaired(c, r)'
    BY DEF FixProgress
  <2>1. /\ pc[c] = "done" => todo[c] = {}
        /\ \A r \in Runners : Answers(c, r) =>
             IF AtHand(c, r) THEN HalfRepaired(c, r)
             ELSE IF r \in todo[c] THEN Judged(c, r) ELSE Repaired(c, r)
    BY <1>1 DEF Delivers, FixProgress, Apart
  <2>2. ASSUME NEW r \in Runners, Answers(c, r)'
        PROVE  /\ Answers(c, r) /\ AtHand(c, r)' = AtHand(c, r)
               /\ Judged(c, r) => Judged(c, r)'
               /\ Repaired(c, r) => Repaired(c, r)'
               /\ HalfRepaired(c, r) => HalfRepaired(c, r)'
    BY <1>1, <1>3, <2>2, RunnerKept DEF Answers, AtHand, Apart
  <2> QED BY <1>1, <2>1, <2>2 DEF Apart
<1>6. PurgeProgress(c)'
  <2>1. \A l \in Lanes : l \notin moved'[c] => lane'[l] = lane[l] /\ l \notin moved[c]
    BY <1>1 DEF Frame, LeavesUnmoved
  <2> QED BY <1>1, <1>2, <1>3, <2>1 DEF Delivers, PurgeProgress, Apart
<1> QED BY <1>4, <1>5, <1>6 DEF Delivers

\* A command of another kind, or at another place, owes nothing.
LEMMA OwesNothing ==
  ASSUME NEW c \in Commands,
         \/ kind'[c] \notin {"fix", "uninstall"}
         \/ kind'[c] = "fix" /\ pc'[c] \notin {"inspect", "repair", "wipe", "restart", "done"}
         \/ kind'[c] = "uninstall" /\ pc'[c] \notin PurgeStages
  PROVE  Delivers(c)'
BY DEF Delivers, Inspected, FixProgress, PurgeProgress

-----------------------------------------------------------------------------
(* The repairs.                                                            *)

LEMMA ListUnitsDelivers ==
  ASSUME Types, NEW d \in Commands, ListUnits(d), PassInv(d)
  PROVE  Delivers(d)'
<1>1. /\ UNCHANGED <<h, kind, class>> /\ pc'[d] = "inspect" /\ kind[d] \in {"report", "fix"}
      /\ todo'[d] = {r \in Runners : h[r].unit /\ InScope(d, r)} /\ pc[d] = "units"
      /\ \A r \in Runners : InScope(d, r)' = InScope(d, r)
  BY DEF ListUnits, hostVars, ctlVars, Goto, Types, CommandTypes, Maps, InScope
<1>2. \A r \in Runners : class'[d][r] = "none"
  BY <1>1 DEF PassInv, NotJudgedYet
<1>3. Inspected(d)'
  BY <1>1, <1>2 DEF Inspected, Kept
<1> QED BY <1>1, <1>3 DEF Delivers, FixProgress, PurgeProgress

LEMMA InspectDelivers ==
  ASSUME Types, NEW d \in Commands, NEW r \in Runners, Inspect(d, r), PassInv(d), Delivers(d)
  PROVE  Delivers(d)'
<1>1. /\ UNCHANGED <<h, pc, kind, scope, list, errs, moved>>
      /\ pc[d] = "inspect" /\ r \in todo[d] /\ todo'[d] = todo[d] \ {r}
      /\ \A x : InScope(d, x)' = InScope(d, x) /\ (Kept(d, x)' = Kept(d, x))
      /\ \A x \in Runners : Listed(d, x)' = Listed(d, x)
  BY DEF Inspect, hostVars, ctlVars, Types, CommandTypes, InScope, Kept, Listed
<1>2. /\ class'[d][r] = Classify(d, r, list[d][r], OrgOf[r] \notin errs[d])
      /\ \A x \in Runners \ {r} : class'[d][x] = class[d][x]
  <2> DEFINE k == Classify(d, r, list[d][r], OrgOf[r] \notin errs[d])
  <2>1. class' = [class EXCEPT ![d][r] = k]
    BY DEF Inspect
  <2> HIDE DEF k
  <2>2. class'[d][r] = k /\ \A x \in Runners \ {r} : class'[d][x] = class[d][x]
    BY <2>1 DEF Types, CommandTypes
  <2> QED BY <2>2 DEF k
<1>3. OrgOf[r] \in Configured
  BY <1>1 DEF PassInv, PlanInScope, InScope
<1>4. class'[d][r] = Verdict(d, r)
  BY <1>2, <1>3 DEF Verdict, Listed
<1>5. \A x \in Runners : Verdict(d, x)' = Verdict(d, x)
  BY <1>1 DEF Verdict, Classify, Conforms, Newer
<1>6. Inspected(d)'
  BY <1>1, <1>2, <1>4, <1>5 DEF Delivers, Inspected
<1>7. kind'[d] # "uninstall"
  BY <1>1 DEF PassInv, KindFits, ReconcileStages
<1> QED BY <1>1, <1>6, <1>7 DEF Delivers, FixProgress, PurgeProgress

\* What the inspection may say of a runner whose org was listed.
LEMMA VerdictMeans ==
  ASSUME NEW c \in Commands, NEW r \in Runners, NEW row, NEW b \in BOOLEAN
  PROVE  /\ Classify(c, r, row, b) # "none"
         /\ b => Classify(c, r, row, b) \in {"orphan-unit", "legacy-flat", "dropin-newer", "stale-dropin", "stuck", "healthy"}
         /\ Classify(c, r, row, b) \in {"stale-dropin", "stuck"} => h[r].tree # "flat"
BY DEF Classify

LEMMA UnmatchedDelivers ==
  ASSUME Types, NEW d \in Commands, Unmatched(d), PassInv(d), Delivers(d)
  PROVE  Delivers(d)'
<1>1. /\ UNCHANGED <<h, kind, scope, list, errs, moved>>
      /\ pc[d] = "inspect" /\ todo[d] = {}
      /\ todo'[d] = {r \in Runners : class'[d][r] # "none"}
      /\ pc' = [pc EXCEPT ![d] = IF kind[d] = "fix" /\ todo'[d] # {} THEN "repair" ELSE "done"]
      /\ \A x : InScope(d, x)' = InScope(d, x) /\ (Kept(d, x)' = Kept(d, x))
  BY DEF Unmatched, hostVars, ctlVars, Types, CommandTypes, InScope, Kept, Goto
<1>2. \A r \in Runners : \/ class'[d][r] = class[d][r]
                         \/ class[d][r] = "none" /\ class'[d][r] = "orphan-github"
  <2> DEFINE K == [r \in Runners |->
       IF class[d][r] = "none" /\ InScope(d, r) /\ list[d][r] # "absent"
          /\ (list[d][r] = "offline" \/ h[r].tree = "tree")
       THEN "orphan-github" ELSE class[d][r]]
  <2>1. \A r \in Runners : K[r] = class[d][r] \/ (class[d][r] = "none" /\ K[r] = "orphan-github")
    OBVIOUS
  <2>2. class' = [class EXCEPT ![d] = K]
    BY DEF Unmatched
  <2> HIDE DEF K
  <2> QED BY <2>1, <2>2 DEF Types, CommandTypes
<1>3. pc'[d] \in {"repair", "done"} /\ (kind[d] = "fix" /\ pc'[d] = "done" => todo'[d] = {})
  BY <1>1 DEF Types, CommandTypes, Maps
<1>4. kind'[d] # "uninstall"
  BY <1>1 DEF PassInv, KindFits, ReconcileStages
<1>5. FixProgress(d)'
  <2> SUFFICES ASSUME kind[d] = "fix", NEW r \in Runners, Answers(d, r)'
               PROVE  IF r \in todo'[d] THEN Judged(d, r)' ELSE Repaired(d, r)'
    BY <1>1, <1>3 DEF FixProgress, AtHand
  <2>1. Kept(d, r)
    BY <1>1 DEF Answers
  <2>2. /\ h[r].unit => class[d][r] = Verdict(d, r)
        /\ class[d][r] # "none" => h[r].unit /\ class[d][r] = Verdict(d, r)
    BY <1>1, <2>1 DEF Delivers, Inspected
  <2>3. Verdict(d, r)' = Verdict(d, r) /\ Verdict(d, r) # "none"
    <3>1. Listed(d, r)' = Listed(d, r) /\ Listed(d, r) \in BOOLEAN
      BY <1>1 DEF Listed
    <3>2. Verdict(d, r) # "none"
      BY <3>1, VerdictMeans DEF Verdict
    <3> QED BY <1>1, <3>1, <3>2 DEF Verdict, Classify, Conforms, Newer
  <2>4. Judged(d, r)'
    BY <1>1, <1>2, <2>2, <2>3 DEF Judged
  <2>5. r \notin todo'[d] => Repaired(d, r)'
    BY <1>1, <1>2, <2>2, <2>3 DEF Repaired
  <2> QED BY <2>4, <2>5
<1> QED BY <1>3, <1>4, <1>5 DEF Delivers, Inspected, PurgeProgress


\* A step that begins the repair of r ...
LEMMA HalfDelivers ==
  ASSUME Types, NEW d \in Commands, NEW r \in Runners, Delivers(d), kind[d] = "fix", pc[d] = "repair",
         UNCHANGED <<reg, kind, scope, list, errs, class, failed>>,
         moved'[d] = moved[d], todo'[d] = todo[d], pc'[d] \in {"wipe", "restart"}, at'[d] = r,
         \A x \in Runners \ {r} : h'[x] = h[x] /\ (x \in job' <=> x \in job),
         Answers(d, r) => HalfRepaired(d, r)'
  PROVE  Delivers(d)'
<1>1. \A x \in Runners : Answers(d, x)' = Answers(d, x)
  BY DEF Answers, Kept, InScope, Listed, Busy
<1>2. ASSUME NEW x \in Runners \ {r} PROVE (Judged(d, x) => Judged(d, x)') /\ (Repaired(d, x) => Repaired(d, x)')
  BY RunnerKept
<1>3. /\ \A x \in Runners : ~AtHand(d, x)
      /\ AtHand(d, r)' /\ \A x \in Runners \ {r} : ~AtHand(d, x)'
  BY DEF AtHand
<1>4. FixProgress(d)'
  BY <1>1, <1>2, <1>3 DEF Delivers, FixProgress
<1> QED BY <1>4 DEF Delivers, Inspected, PurgeProgress

\* ... and one that ends it.
LEMMA EndDelivers ==
  ASSUME Types, NEW d \in Commands, NEW r \in Runners, Delivers(d), kind[d] = "fix",
         pc[d] \in {"repair", "wipe", "restart"}, pc[d] \in {"wipe", "restart"} => r = at[d],
         UNCHANGED <<reg, kind, scope, list, errs, class>>,
         moved'[d] = moved[d], failed[d] \subseteq failed'[d],
         \A x \in Runners \ {r} : h'[x] = h[x] /\ (x \in job' <=> x \in job),
         Done(d, r, "repair"), Answers(d, r) /\ r \notin failed'[d] => Repaired(d, r)'
  PROVE  Delivers(d)'
<1>1. \A x \in Runners : Answers(d, x)' => Answers(d, x) /\ x \notin failed'[d]
  BY DEF Answers, Kept, InScope, Listed, Busy
<1>2. ASSUME NEW x \in Runners \ {r} PROVE (Judged(d, x) => Judged(d, x)') /\ (Repaired(d, x) => Repaired(d, x)')
  BY RunnerKept
<1>3. /\ todo'[d] = todo[d] \ {r} /\ pc'[d] \in {"repair", "done"}
      /\ pc'[d] = "done" => todo'[d] = {}
  BY DEF Done, Goto, Types, CommandTypes, Maps
<1>4. /\ \A x \in Runners \ {r} : ~AtHand(d, x)
      /\ \A x \in Runners : ~AtHand(d, x)'
  BY <1>3 DEF AtHand
<1>5. FixProgress(d)'
  BY <1>1, <1>2, <1>3, <1>4 DEF Delivers, FixProgress
<1> QED BY <1>3, <1>5 DEF Delivers, Inspected, PurgeProgress

\* What is known of a runner the pass is about to repair.
LEMMA JudgedNow ==
  ASSUME Types, NEW d \in Commands, NEW r \in Runners, PassInv(d), Delivers(d), kind[d] = "fix",
         pc[d] = "repair", r \in todo[d], Answers(d, r)
  PROVE  /\ Judged(d, r) /\ Verdict(d, r) = Classify(d, r, Row(r), TRUE)
         /\ Verdict(d, r) \in {"orphan-unit", "legacy-flat", "dropin-newer", "stale-dropin", "stuck", "healthy"}
         /\ Verdict(d, r) \in {"stale-dropin", "stuck"} => h[r].tree # "flat"
<1>1. Judged(d, r)
  BY DEF Delivers, FixProgress, AtHand
<1>2. Listed(d, r) = TRUE /\ AfterListing(d) /\ Unhandled(d, r) /\ r \notin moved[d]
  BY DEF Answers, Kept, Listed, AfterListing, Unhandled
<1>3. list[d][r] = Row(r)
  BY <1>2 DEF PassInv, RowsAreCurrent
<1>4. Verdict(d, r) = Classify(d, r, Row(r), TRUE)
  BY <1>2, <1>3 DEF Verdict
<1> QED BY <1>1, <1>4, VerdictMeans

LEMMA SkipRepairDelivers ==
  ASSUME Types, NEW d \in Commands, NEW r \in Runners, SkipRepair(d, r), PassInv(d), Delivers(d)
  PROVE  Delivers(d)'
<1>1. /\ UNCHANGED <<h, reg, job, kind, scope, list, errs, class, moved, failed>>
      /\ pc[d] = "repair" /\ r \in todo[d] /\ Done(d, r, "repair") /\ kind[d] = "fix"
      /\ Busy(d, r) \/ class[d][r] \notin {"orphan-unit", "stale-dropin", "stuck"}
  BY DEF SkipRepair, ctlVars, hostVars, Fine, PassInv, KindFits
<1>2. Answers(d, r) => Repaired(d, r)
  BY <1>1, JudgedNow DEF Answers, Judged, Repaired
<1>3. Repaired(d, r) => Repaired(d, r)'
  BY <1>1, RunnerKept
<1> QED BY <1>1, <1>2, <1>3, EndDelivers

LEMMA RepairOrphanDelivers ==
  ASSUME Types, NEW d \in Commands, NEW r \in Runners, RepairOrphan(d, r), PassInv(d), Delivers(d)
  PROVE  Delivers(d)'
<1>1. /\ UNCHANGED <<reg, kind, scope, list, errs, class, todo, failed>>
      /\ pc[d] = "repair" /\ class[d][r] = "orphan-unit" /\ kind[d] = "fix"
      /\ Teardown(d, r) /\ pc'[d] = "wipe" /\ at'[d] = r
  BY DEF RepairOrphan, ctlVars, planVars, Fine, PassInv, KindFits, Goto, Types, CommandTypes, Maps
<1>2. moved'[d] = moved[d] /\ job' = job \ {r}
  BY <1>1 DEF Teardown, Touch, Types, HistoryTypes
<1>3. ~h'[r].unit /\ \A x \in Runners \ {r} : h'[x] = h[x]
  BY <1>1, TeardownUnit DEF Types
<1>4. HalfRepaired(d, r)'
  BY <1>1, <1>3 DEF HalfRepaired
<1> QED BY <1>1, <1>2, <1>3, <1>4, HalfDelivers

LEMMA WipeOrphanDelivers ==
  ASSUME Types, NEW d \in Commands, WipeOrphan(d), PassInv(d), Delivers(d)
  PROVE  Delivers(d)'
<1>1. PICK r \in Runners : r = at[d]
  BY DEF WipeOrphan, Types, CommandTypes
<1>2. /\ UNCHANGED <<reg, job, kind, scope, list, errs, class>>
      /\ (WipeTree(d, r) /\ Fine) \/ (Fail(d, r) /\ UNCHANGED <<h, moved>>)
      /\ Done(d, r, "repair") /\ pc[d] = "wipe" /\ kind[d] = "fix"
  BY <1>1 DEF WipeOrphan, ctlVars
<1>3. Answers(d, r) => class[d][r] = "orphan-unit" /\ ~h[r].unit
  BY <1>1, <1>2 DEF Delivers, FixProgress, AtHand, HalfRepaired
<1>4. CASE WipeTree(d, r) /\ Fine
  <2>1. moved'[d] = moved[d] /\ failed' = failed
    BY <1>4 DEF WipeTree, Touch, Types, HistoryTypes, Fine
  <2>2. h'[r].unit = h[r].unit /\ h'[r].tree # "tree" /\ \A x \in Runners \ {r} : h'[x] = h[x]
    BY <1>4, WipeUnit DEF Types
  <2>3. Answers(d, r) => Repaired(d, r)'
    BY <1>2, <1>3, <2>2 DEF Repaired
  <2> QED BY <1>1, <1>2, <2>1, <2>2, <2>3, EndDelivers
<1>5. CASE Fail(d, r) /\ UNCHANGED <<h, moved>>
  <2>1. failed'[d] = failed[d] \cup {r}
    BY <1>5 DEF Fail, Types, CommandTypes, Maps
  <2> QED BY <1>1, <1>2, <1>5, <2>1, EndDelivers
<1> QED BY <1>2, <1>4, <1>5

LEMMA RepairUnitDelivers ==
  ASSUME Types, NEW d \in Commands, NEW r \in Runners, RepairUnit(d, r), PassInv(d), Delivers(d)
  PROVE  Delivers(d)'
<1>1. /\ UNCHANGED <<reg, job, kind, scope, list, errs, class>>
      /\ pc[d] = "repair" /\ r \in todo[d] /\ class[d][r] \in {"stale-dropin", "stuck"} /\ kind[d] = "fix"
  BY DEF RepairUnit, ctlVars, PassInv, KindFits
<1>2. Answers(d, r) => h[r].unit /\ h[r].tree # "flat"
  BY <1>1, JudgedNow DEF Judged
<1>3. CASE WriteDropIn(d, r) /\ Fine /\ Goto(d, "restart") /\ at' = [at EXCEPT ![d] = r] /\ UNCHANGED todo
  <2>1. pc'[d] = "restart" /\ at'[d] = r /\ moved'[d] = moved[d] /\ failed' = failed
    BY <1>3 DEF Types, CommandTypes, HistoryTypes, Maps, Goto, WriteDropIn, Touch, Fine
  <2>2. /\ h'[r].unit /\ h'[r].drop = Render(d) /\ h'[r].tree = h[r].tree
        /\ \A x \in Runners \ {r} : h'[x] = h[x]
    BY <1>3, DropInUnit DEF Types
  <2>3. Answers(d, r) => HalfRepaired(d, r)'
    BY <1>1, <1>2, <2>1, <2>2 DEF HalfRepaired, Render
  <2> QED BY <1>1, <1>3, <2>1, <2>2, <2>3, HalfDelivers
<1>4. CASE /\ (h[r].unit /\ Fail(d, r)) \/ (~h[r].unit /\ Fine)
           /\ Done(d, r, "repair") /\ UNCHANGED <<h, at, moved>>
  <2>1. \/ failed'[d] = failed[d] \cup {r}
        \/ ~h[r].unit /\ failed' = failed
    BY <1>4 DEF Fail, Fine, Types, CommandTypes, Maps
  <2> QED BY <1>1, <1>2, <1>4, <2>1, EndDelivers
<1> QED BY <1>3, <1>4 DEF RepairUnit

\* A restart with the right drop-in, in a tree GitHub knows or does not.
LEMMA RestartedMeans ==
  ASSUME Types, NEW d \in Commands, NEW r \in Runners, Restart(d, r), h[r].unit, UNCHANGED reg,
         h[r].drop = Render(d), h[r].tree # "flat", reg[r] # NoId
  PROVE  /\ h'[r].loaded = Render(d) /\ r \notin job' /\ h'[r].unit
         /\ \/ Classify(d, r, Row(r), TRUE)' \in {"healthy", "dropin-newer", "legacy-flat"}
            \/ h'[r].tree = "none"
            \/ Classify(d, r, Row(r), TRUE)' = "stuck" /\ ~Registered(r)'
<1>1. /\ h'[r].tree = h[r].tree /\ h'[r].id = h[r].id /\ h'[r].unit
      /\ h'[r].drop = h[r].drop /\ h'[r].loaded = h[r].drop
      /\ h'[r].svc = IF h[r].tree # "tree" THEN "down" ELSE IF Registered(r) THEN "online" ELSE "deaf"
  BY RestartedUnit DEF Types
<1>2. r \notin job' /\ Registered(r)' = Registered(r)
  BY <1>1 DEF Restart, Registered
<1>3. Gen[d] \in Int /\ ~Newer(d, h'[r].drop) /\ Conforms(d, h'[r].drop)
  <2>1. Gen[d] \in Int
    BY HostConstants
  <2> QED BY <1>1, <2>1 DEF Newer, Conforms, Render
<1>4. h[r].tree \in {"none", "tree"}
  BY DEF Types, HostTypes, Units
<1>5. CASE Registered(r) /\ h[r].tree = "tree"
  <2>1. Row(r)' = "online" /\ h'[r].svc = "online" /\ h'[r].tree = "tree"
    BY <1>1, <1>2, <1>5 DEF Row
  <2>2. Classify(d, r, Row(r), TRUE)' = "healthy"
    BY <1>3, <2>1 DEF Classify, Conforms, Newer
  <2> QED BY <1>1, <1>2, <2>2
<1>6. CASE ~Registered(r) /\ h[r].tree = "tree"
  <2>1. Row(r)' = "offline" /\ h'[r].tree = "tree"
    BY <1>1, <1>2, <1>6 DEF Row
  <2>2. Classify(d, r, Row(r), TRUE)' = "stuck"
    BY <1>3, <2>1 DEF Classify, Conforms, Newer
  <2> QED BY <1>1, <1>2, <1>6, <2>2
<1> QED BY <1>1, <1>2, <1>4, <1>5, <1>6

LEMMA RestartUnitDelivers ==
  ASSUME Types, NEW d \in Commands, RestartUnit(d), PassInv(d), Delivers(d)
  PROVE  Delivers(d)'
<1>1. PICK r \in Runners : r = at[d]
  BY DEF RestartUnit, Types, CommandTypes
<1>2. /\ UNCHANGED <<reg, kind, scope, list, errs, class>> /\ pc[d] = "restart"
      /\ \/ h[r].unit /\ Restart(d, r) /\ Fine
         \/ ~h[r].unit /\ Fine /\ UNCHANGED <<h, job, cut, moved>>
         \/ Fail(d, r) /\ UNCHANGED <<h, job, cut, moved>>
      /\ Done(d, r, IF kind[d] = "fix" THEN "repair" ELSE "refresh")
  BY <1>1 DEF RestartUnit, ctlVars
<1>3. CASE kind[d] # "fix"
  BY <1>2, <1>3, OwesNothing DEF PassInv, KindFits, ReconcileStages
<1>4. CASE kind[d] = "fix"
  <2>1. Answers(d, r) => /\ class[d][r] \in {"stale-dropin", "stuck"}
                         /\ h[r].unit /\ h[r].drop = Render(d) /\ h[r].tree # "flat"
    BY <1>1, <1>2, <1>4 DEF Delivers, FixProgress, AtHand, HalfRepaired
  <2>2. Answers(d, r) => reg[r] # NoId
    <3>1. AfterListing(d) /\ r \in todo[d] /\ list[d][r] # "absent" /\ Unhandled(d, r)
      BY <1>1, <1>2, <1>4 DEF PassInv, RestartsIdle, AfterListing, Unhandled
    <3>2. Answers(d, r) => list[d][r] = Row(r)
      BY <3>1 DEF PassInv, RowsAreCurrent, Answers, Kept
    <3> QED BY <3>1, <3>2, RowOfJob DEF Types
  <2>3. CASE h[r].unit /\ Restart(d, r) /\ Fine
    <3>1. moved'[d] = moved[d] /\ failed' = failed /\ job' = job \ {r}
      BY <2>3 DEF Restart, Touch, Types, HistoryTypes, Fine
    <3>2. \A x \in Runners \ {r} : h'[x] = h[x]
      BY <2>3, RestartedUnit DEF Types
    <3>3. Answers(d, r) => Repaired(d, r)'
      BY <1>2, <2>1, <2>2, <2>3, RestartedMeans DEF Repaired, Render
    <3> QED BY <1>1, <1>2, <1>4, <3>1, <3>2, <3>3, EndDelivers
  <2>4. CASE ~h[r].unit /\ Fine /\ UNCHANGED <<h, job, cut, moved>>
    BY <1>1, <1>2, <1>4, <2>1, <2>4, EndDelivers DEF Fine
  <2>5. CASE Fail(d, r) /\ UNCHANGED <<h, job, cut, moved>>
    <3>1. failed'[d] = failed[d] \cup {r}
      BY <2>5 DEF Fail, Types, CommandTypes, Maps
    <3> QED BY <1>1, <1>2, <1>4, <2>5, <3>1, EndDelivers
  <2> QED BY <1>2, <2>3, <2>4, <2>5
<1> QED BY <1>3, <1>4


-----------------------------------------------------------------------------
(* The uninstall.                                                          *)

\* Before the purge, a step that reports no more than it has moved.
LEMMA PlanDelivers ==
  ASSUME NEW d \in Commands, kind'[d] = "uninstall", pc'[d] \notin AfterPurge,
         \A r \in Runners : Kept(d, r)' /\ h'[r].unit => r \in todo'[d],
         \A l \in Lanes : InScope(d, l)' /\ l \notin moved'[d] \cup failed'[d] /\ lane'[l] # "gone" => l \in todo'[d]
  PROVE  Delivers(d)'
BY DEF Delivers, Inspected, FixProgress, PurgeProgress

LEMMA EnumerateDelivers ==
  ASSUME Types, NEW d \in Commands, Enumerate(d), PassInv(d)
  PROVE  Delivers(d)'
<1>1. /\ UNCHANGED <<h, lane, kind, scope>> /\ pc[d] = "enumerate"
      /\ todo'[d] = {r \in Runners : h[r].unit /\ InScope(d, r)}
                      \cup {l \in Lanes : lane[l] # "gone" /\ InScope(d, l)}
      /\ pc'[d] \in {"lanes", "gate"}
      /\ \A x : InScope(d, x)' = InScope(d, x)
  BY DEF Enumerate, hostVars, ctlVars, Goto, Types, CommandTypes, Maps, InScope
<1>2. kind'[d] = "uninstall"
  BY <1>1 DEF PassInv, KindFits, UninstallStages
<1> QED BY <1>1, <1>2, PlanDelivers DEF Kept, AfterPurge

\* The steps of an uninstall on what is on its list.
LEMMA RemovalDelivers ==
  ASSUME Types, NEW d \in Commands, Delivers(d), kind[d] = "uninstall", pc[d] \in PurgeStages,
         UNCHANGED <<kind, scope>>, pc'[d] \notin AfterPurge,
         moved[d] \subseteq moved'[d] \cup todo'[d], failed[d] \subseteq failed'[d],
         \A r \in Runners : h'[r].unit => h[r].unit /\ (r \in todo[d] => r \in todo'[d]),
         \A l \in Lanes : /\ lane'[l] = "gone" \/ lane'[l] = lane[l]
                          /\ l \in todo[d] /\ lane'[l] # "gone" => l \in todo'[d] \cup failed'[d]
  PROVE  Delivers(d)'
<1>1. \A x : InScope(d, x)' = InScope(d, x)
  BY DEF InScope
<1>2. ASSUME NEW r \in Runners, Kept(d, r)', h'[r].unit PROVE r \in todo'[d]
  BY <1>1, <1>2 DEF Delivers, PurgeProgress, Kept
<1>3. ASSUME NEW l \in Lanes, InScope(d, l)', l \notin moved'[d] \cup failed'[d], lane'[l] # "gone" PROVE l \in todo'[d]
  BY <1>1, <1>3 DEF Delivers, PurgeProgress
<1> QED BY <1>2, <1>3, PlanDelivers

LEMMA GatesDeliver ==
  ASSUME Types, NEW d \in Commands, GateRunners(d) \/ GateLanes(d), PassInv(d), Delivers(d)
  PROVE  Delivers(d)'
<1>1. /\ UNCHANGED <<h, lane, kind, scope, todo>> /\ kind[d] = "uninstall" /\ pc[d] \in PurgeStages
      /\ pc'[d] \in {"gateLanes", "refused", "lanes", "refusedLane"} /\ failed' = failed
  BY DEF GateRunners, GateLanes, hostVars, ctlVars, planVars, Goto, Types, CommandTypes, Maps, Fine,
     PassInv, KindFits, UninstallStages, PurgeStages
<1>2. moved[d] \subseteq moved'[d] \cup todo'[d]
  BY <1>1 DEF GateRunners, GateLanes, Types, HistoryTypes
<1> QED BY <1>1, <1>2, RemovalDelivers DEF AfterPurge

LEMMA RemoveLaneDelivers ==
  ASSUME Types, NEW d \in Commands, NEW l \in Lanes, RemoveLane(d, l), PassInv(d), Delivers(d)
  PROVE  Delivers(d)'
<1>1. /\ UNCHANGED <<h, kind, scope, pc>> /\ pc[d] = "lanes" /\ todo'[d] = todo[d] \ {l}
      /\ kind[d] = "uninstall" /\ pc[d] \in PurgeStages
  BY DEF RemoveLane, ctlVars, Types, CommandTypes, PassInv, KindFits, UninstallStages, PurgeStages
<1>2. moved'[d] = moved[d]
  BY DEF RemoveLane, Touch, Types, HistoryTypes
<1>3. /\ failed[d] \subseteq failed'[d]
      /\ lane' = [lane EXCEPT ![l] = "gone"] \/ (lane' = lane /\ l \in failed'[d])
  BY DEF RemoveLane, Fine, Fail, Types, CommandTypes, Maps
<1>4. \A m \in Lanes : /\ lane'[m] = "gone" \/ lane'[m] = lane[m]
                       /\ m \in todo[d] /\ lane'[m] # "gone" => m \in todo'[d] \cup failed'[d]
  BY <1>1, <1>3 DEF Types, HostTypes
<1>5. \A r \in Runners : r \in todo[d] => r \in todo'[d]
  BY <1>1, HostConstants
<1> QED BY <1>1, <1>2, <1>3, <1>4, <1>5, RemovalDelivers DEF AfterPurge

LEMMA TeardownRunnerDelivers ==
  ASSUME Types, NEW d \in Commands, NEW r \in Runners, TeardownRunner(d, r), PassInv(d), Delivers(d)
  PROVE  Delivers(d)'
<1>1. /\ UNCHANGED <<lane, kind, scope, failed>> /\ pc[d] = "lanes" /\ pc'[d] = "wipe" /\ todo'[d] = todo[d] \ {r}
      /\ kind[d] = "uninstall" /\ pc[d] \in PurgeStages /\ Teardown(d, r)
  BY DEF TeardownRunner, ctlVars, Types, CommandTypes, Maps, Goto, Fine, PassInv, KindFits, UninstallStages, PurgeStages
<1>2. moved'[d] = moved[d]
  BY <1>1 DEF Teardown, Touch, Types, HistoryTypes
<1>3. ~h'[r].unit /\ \A x \in Runners \ {r} : h'[x] = h[x]
  BY <1>1, TeardownUnit DEF Types
<1>4. \A l \in Lanes : l # r
  BY HostConstants
<1> QED BY <1>1, <1>2, <1>3, <1>4, RemovalDelivers DEF AfterPurge

LEMMA WipeRunnerDelivers ==
  ASSUME Types, NEW d \in Commands, WipeRunner(d), PassInv(d), Delivers(d)
  PROVE  Delivers(d)'
<1>1. PICK r \in Runners : r = at[d]
  BY DEF WipeRunner, Types, CommandTypes
<1>2. /\ UNCHANGED <<lane, kind, scope, todo>> /\ pc[d] = "wipe" /\ pc'[d] \in {"lanes", "deregister"}
      /\ kind[d] = "uninstall" /\ pc[d] \in PurgeStages
      /\ (WipeTree(d, r) /\ Fine) \/ (Fail(d, r) /\ UNCHANGED <<h, moved>>)
  BY <1>1 DEF WipeRunner, ctlVars, planVars, Types, CommandTypes, Maps, Goto, PurgeStages
<1>3. moved'[d] = moved[d] /\ failed[d] \subseteq failed'[d]
  BY <1>2 DEF WipeTree, Touch, Fine, Fail, Types, HistoryTypes, CommandTypes, Maps
<1>4. \A x \in Runners : h'[x].unit = h[x].unit
  BY <1>2, WipeUnit DEF Types
<1> QED BY <1>2, <1>3, <1>4, RemovalDelivers DEF AfterPurge

LEMMA DeregisterRunnerDelivers ==
  ASSUME Types, NEW d \in Commands, DeregisterRunner(d), PassInv(d), Delivers(d)
  PROVE  Delivers(d)'
<1>1. PICK r \in Runners : r = at[d]
  BY DEF DeregisterRunner, Types, CommandTypes
<1>2. /\ UNCHANGED <<lane, kind, scope, todo>> /\ pc[d] = "deregister" /\ pc'[d] = "lanes"
      /\ kind[d] = "uninstall" /\ pc[d] \in PurgeStages
      /\ Forget(r) \/ h' = h
      /\ Fine \/ Fail(d, r)
  BY <1>1 DEF DeregisterRunner, ctlVars, planVars, Types, CommandTypes, Maps, Goto, PassInv, KindFits,
     UninstallStages, PurgeStages
<1>3. moved'[d] = moved[d] /\ failed[d] \subseteq failed'[d]
  BY <1>2 DEF DeregisterRunner, Touch, Fine, Fail, Types, HistoryTypes, CommandTypes, Maps
<1>4. \A x \in Runners : h'[x].unit = h[x].unit
  BY <1>2, ForgottenUnit DEF Types
<1> QED BY <1>2, <1>3, <1>4, RemovalDelivers DEF AfterPurge

\* After the purge the list is empty and stays so.
LEMMA RestDelivers ==
  ASSUME NEW d \in Commands, kind'[d] = "uninstall", pc'[d] \in AfterPurge, todo'[d] = {},
         \A r \in Runners : Kept(d, r)' => ~h'[r].unit,
         \A l \in Lanes : InScope(d, l)' /\ l \notin moved'[d] \cup failed'[d] => lane'[l] = "gone",
         scope'[d] = Host /\ Host \notin failed'[d] => \A r \in Runners : Kept(d, r)' => h'[r].tree = "none"
  PROVE  Delivers(d)'
BY DEF Delivers, Inspected, FixProgress, PurgeProgress

LEMMA PurgeBaseDelivers ==
  ASSUME Types, NEW d \in Commands, PurgeBase(d), PassInv(d), Delivers(d)
  PROVE  Delivers(d)'
<1>1. PICK stuck \in SUBSET (Targets(d) \cap base) :
        /\ IF stuck = {} THEN Fine ELSE Fault /\ failed' = [failed EXCEPT ![d] = @ \cup {Host}]
        /\ LET gone == {o \in Configured : <<"tree", o>> \in Targets(d) \ stuck} IN
             /\ h' = [r \in Runners |->
               IF OrgOf[r] \in gone /\ h[r].tree # "none" /\ (scope[d] = Host \/ h[r].tree = "tree")
               THEN [h[r] EXCEPT !.tree = "none", !.id = NoId] ELSE h[r]]
             /\ Touch(d, {r \in Runners : h'[r] # h[r]})
  BY DEF PurgeBase
<1>2. /\ UNCHANGED <<lane, kind, scope, todo>> /\ pc[d] = "lanes" /\ pc'[d] \in {"backup", "binary"}
      /\ kind[d] = "uninstall" /\ pc[d] \in PurgeStages /\ todo[d] = {}
      /\ \A x : InScope(d, x)' = InScope(d, x)
  BY DEF PurgeBase, ctlVars, planVars, Types, CommandTypes, Maps, Goto, PassInv, KindFits,
     UninstallStages, PurgeStages, InScope
<1>3. moved'[d] = moved[d]
  BY <1>1 DEF Touch, Types, HistoryTypes
<1>4. failed[d] \subseteq failed'[d] /\ (Host \notin failed'[d] => stuck = {})
  <2>1. CASE stuck = {}
    BY <1>1, <2>1 DEF Fine
  <2>2. CASE stuck # {}
    <3>1. failed' = [failed EXCEPT ![d] = @ \cup {Host}]
      BY <1>1, <2>2
    <3>2. failed'[d] = failed[d] \cup {Host}
      BY <3>1 DEF Types, CommandTypes, Maps
    <3> QED BY <3>2
  <2> QED BY <2>1, <2>2
<1>5. \A r \in Runners : h'[r].unit = h[r].unit
  BY <1>1 DEF Types, HostTypes, Units
<1>6. \A r \in Runners : Kept(d, r)' => ~h'[r].unit
  BY <1>2, <1>3, <1>5 DEF Delivers, PurgeProgress, Kept
<1>7. \A l \in Lanes : InScope(d, l)' /\ l \notin moved'[d] \cup failed'[d] => lane'[l] = "gone"
  BY <1>2, <1>3, <1>4 DEF Delivers, PurgeProgress
<1>8. ASSUME scope[d] = Host, Host \notin failed'[d], NEW r \in Runners, OrgOf[r] \in Configured PROVE h'[r].tree = "none"
  <2>1. stuck = {} /\ <<"tree", OrgOf[r]>> \in Targets(d)
    BY <1>4, <1>8 DEF Targets
  <2>2. h'[r] = IF h[r].tree # "none" THEN [h[r] EXCEPT !.tree = "none", !.id = NoId] ELSE h[r]
    BY <1>1, <1>8, <2>1
  <2> QED BY <2>2 DEF Types, HostTypes, Units
<1>9. scope'[d] = Host /\ Host \notin failed'[d] => \A r \in Runners : Kept(d, r)' => h'[r].tree = "none"
  BY <1>2, <1>8 DEF Kept, InScope
<1> QED BY <1>2, <1>6, <1>7, <1>9, RestDelivers DEF AfterPurge

LEMMA ConfigDelivers ==
  ASSUME Types, NEW d \in Commands, BackupConfigDir(d) \/ RemoveConfigDir(d) \/ RemoveBinary(d), PassInv(d), Delivers(d)
  PROVE  Delivers(d)'
<1>1. /\ UNCHANGED <<h, lane, kind, scope, todo, moved>> /\ pc[d] \in AfterPurge /\ pc'[d] \in AfterPurge
      /\ kind[d] = "uninstall"
      /\ \A x : InScope(d, x)' = InScope(d, x)
  BY DEF BackupConfigDir, RemoveConfigDir, RemoveBinary, ctlVars, planVars, Types, CommandTypes, Maps, Goto, PassInv, KindFits,
     UninstallStages, AfterPurge, InScope
<1>2. failed[d] \subseteq failed'[d]
  BY DEF BackupConfigDir, RemoveConfigDir, RemoveBinary, Fine, Fail, Types, CommandTypes, Maps
<1>3. /\ \A r \in Runners : Kept(d, r)' => Kept(d, r)
      /\ \A r \in Runners : Kept(d, r) => ~h[r].unit
      /\ \A l \in Lanes : InScope(d, l) /\ l \notin moved[d] \cup failed[d] => lane[l] = "gone"
      /\ todo[d] = {}
      /\ scope[d] = Host /\ Host \notin failed[d] => \A r \in Runners : Kept(d, r) => h[r].tree = "none"
  BY <1>1 DEF Delivers, PurgeProgress, PurgeStages, Kept
<1> QED BY <1>1, <1>2, <1>3, RestDelivers

-----------------------------------------------------------------------------
(* The passes deliver.                                                     *)

LEMMA OwnStepDelivers ==
  ASSUME Types, NEW d \in Commands, Begin(d) \/ CreateStep(d) \/ ReconcileStep(d) \/ UninstallStep(d),
         PassInv(d), Delivers(d)
  PROVE  Delivers(d)'
<1>1. CASE Begin(d)
  BY <1>1, Begun, OwesNothing DEF PurgeStages, AfterPurge
<1>2. CASE CreateStep(d)
  <2>1. kind[d] = "create" /\ kind' = kind
    BY <1>2 DEF CreateStep, Create, Register, InstallUnit, Harden, Start, ctlVars, PassInv, KindFits, CreateStages
  <2> QED BY <2>1, OwesNothing
<1>3. CASE ListAllRunners(d) \/ \E r \in Runners : RefreshRow(d, r)
  <2>1. kind' = kind /\ pc[d] \in {"list", "refresh"}
    BY <1>3 DEF ListAllRunners, RefreshRow, ctlVars
  <2>2. kind[d] # "uninstall" /\ (kind[d] = "fix" => pc[d] = "list")
    BY <2>1 DEF PassInv, KindFits, ReconcileStages
  <2>3. kind[d] = "fix" => pc'[d] = "units"
    BY <1>3, <2>2 DEF ListAllRunners, RefreshRow, Goto, Types, CommandTypes, Maps
  <2> QED BY <2>1, <2>2, <2>3, OwesNothing
<1>4. CASE \/ ListUnits(d) \/ Unmatched(d) \/ WipeOrphan(d) \/ RestartUnit(d)
           \/ \E r \in Runners : \/ Inspect(d, r) \/ RepairOrphan(d, r) \/ RepairUnit(d, r) \/ SkipRepair(d, r)
  BY <1>4, ListUnitsDelivers, UnmatchedDelivers, WipeOrphanDelivers, RestartUnitDelivers,
     InspectDelivers, RepairOrphanDelivers, RepairUnitDelivers, SkipRepairDelivers
<1>5. CASE UninstallStep(d)
  BY <1>5, EnumerateDelivers, GatesDeliver, WipeRunnerDelivers, DeregisterRunnerDelivers, PurgeBaseDelivers,
     ConfigDelivers, RemoveLaneDelivers, TeardownRunnerDelivers
     DEF UninstallStep
<1> QED BY <1>1, <1>2, <1>3, <1>4, <1>5 DEF ReconcileStep

DeliveryInv == PassesInv /\ \A c \in Commands : Delivers(c)

LEMMA DeliveryInit == Init => DeliveryInv
<1> SUFFICES ASSUME Init PROVE DeliveryInv
  OBVIOUS
<1>1. \A c \in Commands : kind[c] = "report"
  BY DEF Init
<1> QED BY <1>1, PassesInit DEF DeliveryInv, Delivers, Inspected, FixProgress, PurgeProgress

LEMMA DeliveryStep == DeliveryInv /\ [Next]_vars => DeliveryInv'
<1> SUFFICES ASSUME DeliveryInv, [Next]_vars PROVE \A c \in Commands : Delivers(c)'
  BY PassesStep DEF DeliveryInv
<1>1. ASSUME NEW d \in Commands, Begin(d) \/ CreateStep(d) \/ ReconcileStep(d) \/ UninstallStep(d)
      PROVE  \A c \in Commands : Delivers(c)'
  <2>1. FrameFor(d)
    BY <1>1, CommandFrames DEF DeliveryInv, PassesInv
  <2> QED BY <1>1, <2>1, OwnStepDelivers, FrameDelivers DEF DeliveryInv, PassesInv, FrameFor
<1>2. CASE GitHubStep
  BY <1>2, GitHubFrames, FrameDelivers DEF DeliveryInv, PassesInv
<1>3. CASE UNCHANGED vars
  <2>1. UNCHANGED <<h, reg, job, lane, cfg, pc, kind, scope, flags, at, list, errs, todo, class, idr, cut, moved, failed>>
    BY <1>3 DEF vars, hostVars, ctlVars, planVars
  <2>2. \A c \in Commands : Frame(c)
    BY <2>1 DEF Frame, Apart, LeavesUnmoved
  <2> QED BY <2>2, FrameDelivers DEF DeliveryInv, PassesInv
<1> QED BY <1>1, <1>2, <1>3 DEF Next

\* A fix pass that has returned has repaired every runner it listed, found idle
\* and nobody touched, and a purge of the host has left nothing of srm but what
\* it has reported; and units, trees and registrations keep their kinds
\* (Reconcile, repairRunner, RefreshUnit, Uninstall, PurgeBase).
THEOREM PassesDoTheirWork == Spec => []PassesDeliver
<1>1. DeliveryInv => FixRepairs
  <2> SUFFICES ASSUME DeliveryInv, NEW c \in Commands, pc[c] = "done", kind[c] = "fix",
                      NEW r \in Runners, InScope(c, r), r \notin moved[c] \cup failed[c], OrgOf[r] \notin errs[c], ~Busy(c, r)
               PROVE  Repaired(c, r)
    BY DEF FixRepairs, Repaired
  <2>1. Answers(c, r) /\ ~AtHand(c, r)
    BY DEF Answers, Kept, Listed, InScope, AtHand
  <2> QED BY <2>1 DEF DeliveryInv, Delivers, FixProgress
<1>2. DeliveryInv => PurgeIsComplete
  <2> SUFFICES ASSUME DeliveryInv, NEW c \in Commands, pc[c] = "done", kind[c] = "uninstall", scope[c] = Host
               PROVE  /\ \A r \in Runners : OrgOf[r] \in Configured /\ r \notin moved[c] \cup failed[c] =>
                           ~h[r].unit /\ (Host \notin failed[c] => h[r].tree = "none")
                      /\ \A l \in Lanes : OrgOf[l] \in Configured /\ l \notin moved[c] \cup failed[c] => lane[l] = "gone"
    BY DEF PurgeIsComplete
  <2> QED BY DEF DeliveryInv, Delivers, PurgeProgress, PurgeStages, AfterPurge, Kept, InScope
<1>3. Spec => []DeliveryInv
  BY DeliveryInit, DeliveryStep, PTL DEF Spec
<1>4. DeliveryInv => FixRepairs /\ PurgeIsComplete
  BY <1>1, <1>2
<1> QED BY <1>3, <1>4, UnitsKeepTheirKind, PTL DEF PassesDeliver

=============================================================================
