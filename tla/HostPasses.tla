----------------------------- MODULE HostPasses -----------------------------
(***************************************************************************)
(* The passes of Reconcile and Uninstall and the creation of runners, run  *)
(* by several srm invocations on one host, among jobs, services that drop  *)
(* and runners deleted on GitHub.                                          *)
(***************************************************************************)
EXTENDS Reconcile, Uninstall

Ended == {"idle", "done", "refused", "refusedLane"}

\* A command starts, with a config file to read.
Begin(c) ==
  /\ pc[c] \in Ended /\ cfg.dir /\ cfg.binary
  /\ runs < MaxRuns /\ runs' = runs + 1
  /\ \E k \in KindsOf[c], s \in Scopes, F \in Flags, r \in Runners :
       /\ k # "uninstall" => F = {}
       /\ k = "create" => OrgOf[r] = s /\ ~h[r].unit
       /\ k # "create" => r = CHOOSE x \in Runners : TRUE
       /\ kind'  = [kind EXCEPT ![c] = k]
       /\ scope' = [scope EXCEPT ![c] = s]
       /\ flags' = [flags EXCEPT ![c] = IF k = "uninstall" THEN EffectiveFlags(s, F) ELSE F]
       /\ at'    = [at EXCEPT ![c] = r]
       /\ Goto(c, CASE k = "create" -> "create" [] k = "uninstall" -> "enumerate" [] OTHER -> "list")
  /\ list'   = [list EXCEPT ![c] = [r \in Runners |-> "absent"]]
  /\ errs'   = [errs EXCEPT ![c] = {}]
  /\ todo'   = [todo EXCEPT ![c] = {}]
  /\ class'  = [class EXCEPT ![c] = [r \in Runners |-> "none"]]
  /\ idr'    = [idr EXCEPT ![c] = NoId]
  /\ cut'    = [cut EXCEPT ![c] = {}]
  /\ moved'  = [moved EXCEPT ![c] = {}]
  /\ failed' = [failed EXCEPT ![c] = {}]
  /\ UNCHANGED <<hostVars, faults, events>>

\* What a host may look like before srm is run: units of this and of other
\* generations, with other options, dead, deregistered, or from the time
\* before trees had an org in their path; and registrations without a unit.
Installed == [unit |-> TRUE, svc |-> "online", drop |-> [mark |-> 1, body |-> 1],
              loaded |-> [mark |-> 1, body |-> 1], tree |-> "tree", id |-> 1]
Dropped(d) == [Installed EXCEPT !.drop = d, !.loaded = d]
Found == [healthy |-> Installed,
          field   |-> Dropped([mark |-> 0, body |-> 1]),
          stale   |-> Dropped([mark |-> 1, body |-> 0]),
          newer   |-> Dropped([mark |-> MaxGen, body |-> MaxGen]),
          stopped |-> [Installed EXCEPT !.svc = "down"],
          orphan  |-> [Installed EXCEPT !.svc = "deaf"],
          flat    |-> [Installed EXCEPT !.tree = "flat"],
          ghost   |-> Absent, absent |-> Absent]
Situations == {"healthy", "field", "stale", "newer", "stopped", "orphan", "flat", "ghost", "absent"}

ASSUME StartsAssumption ==
  \A start \in Starts : start.sit \in [Runners -> Situations] /\ start.isolated \in BOOLEAN

Init ==
  \E start \in Starts : LET sit == start.sit IN
    /\ h = [r \in Runners |-> Found[sit[r]]]
    /\ reg = [r \in Runners |-> IF sit[r] \in {"orphan", "absent"} THEN NoId ELSE 1]
    /\ idr = [c \in Commands |-> NoId]
    /\ job = {}
    /\ lane = [l \in Lanes |-> "between"]
    /\ cfg = [dir |-> TRUE, backup |-> "none", binary |-> TRUE, isolated |-> start.isolated]
    /\ base = UNION {BaseOf(o) : o \in Configured} \cup {<<"control", Host>>, <<"slice", Host>>}
    /\ pc = [c \in Commands |-> "idle"]
    /\ kind = [c \in Commands |-> "report"] /\ scope = [c \in Commands |-> Host]
    /\ flags = [c \in Commands |-> {}]
    /\ at = [c \in Commands |-> CHOOSE r \in Runners : TRUE]
    /\ list = [c \in Commands |-> [r \in Runners |-> "absent"]]
    /\ errs = [c \in Commands |-> {}] /\ todo = [c \in Commands |-> {}]
    /\ class = [c \in Commands |-> [r \in Runners |-> "none"]]
    /\ cut = [c \in Commands |-> {}] /\ moved = [c \in Commands |-> {}]
    /\ failed = [c \in Commands |-> {}]
    /\ runs = 0 /\ faults = 0 /\ events = 0

Next == \/ \E c \in Commands : Begin(c) \/ CreateStep(c) \/ ReconcileStep(c) \/ UninstallStep(c)
        \/ GitHubStep

Spec == Init /\ [][Next]_vars

-----------------------------------------------------------------------------
\* Units, registrations and the state of every command (Reconcile, Uninstall,
\* CreateRunner) have values of their kind.
TypeOK ==
  /\ h \in [Runners -> Units]
  /\ \A r \in Runners : ~h[r].unit => h[r] \in {Absent, [Absent EXCEPT !.tree = h[r].tree, !.id = h[r].id]}
  /\ reg \in [Runners -> Ids] /\ idr \in [Commands -> Ids]
  /\ \A r \in job : h[r].svc = "online" /\ OrgOf[r] \in Configured
  /\ lane \in [Lanes -> {"gone", "between", "waiting", "job"}]
  /\ cfg \in [dir : BOOLEAN, backup : {"none", "torn", "full"}, binary : BOOLEAN, isolated : BOOLEAN]
  /\ list \in [Commands -> [Runners -> Rows]]
  /\ errs \in [Commands -> SUBSET Configured] /\ todo \in [Commands -> SUBSET Things]
  /\ class \in [Commands -> [Runners -> Classes]]
  /\ moved \in [Commands -> SUBSET Things] /\ cut \in [Commands -> SUBSET Things]

\* A pass acts on a listing as old as the pass.  The jobs it stops without
\* having been forced to are those dispatched after it looked; --keep-github
\* asks nobody about the runners, and a creation replaces what it finds.
StopsOnlyLateJobs ==
  \A c \in Commands : kind[c] # "create" /\ ~Has(c, "force") =>
    cut[c] \subseteq moved[c] \cup (IF Has(c, "keepGitHub") THEN Runners ELSE {})

\* A repair removes a unit whose runner GitHub does not know - not one whose
\* org could not be listed - unless the runner has changed since the listing.
OrphansAreUnregistered ==
  [][\A c \in Commands, r \in Runners : RepairOrphan(c, r) => reg[r] = NoId \/ r \in moved[c]]_vars

\* On a host two generations of srm take turns on, a repair never writes an
\* older drop-in over a newer one, unless it appeared after the inspection.
NewerIsLeftAlone ==
  [][\A c \in Commands, r \in Runners :
       RepairUnit(c, r) /\ h'[r].drop.mark < h[r].drop.mark => r \in moved[c]]_vars

\* What a fix pass leaves behind: of the runners it listed, found idle, and
\* nobody else touched, those with a unit are conformant to its binary (or
\* newer, or of the flat layout) and run with the drop-in on disk; those
\* GitHub does not know are gone with their tree.  What no restart mends is a
\* unit without its tree, or with the tree of another registration.
FixRepairs ==
  \A c \in Commands : pc[c] = "done" /\ kind[c] = "fix" =>
    \A r \in Runners :
      (InScope(c, r) /\ r \notin moved[c] \cup failed[c] /\ OrgOf[r] \notin errs[c] /\ ~Busy(c, r)) =>
        /\ class[c][r] = "orphan-unit" => ~h[r].unit /\ h[r].tree # "tree"
        /\ h[r].unit => \/ Classify(c, r, Row(r), TRUE) \in {"healthy", "dropin-newer", "legacy-flat"}
                        \/ h[r].tree = "none"
                        \/ Classify(c, r, Row(r), TRUE) = "stuck" /\ ~Registered(r)
        /\ class[c][r] \in {"stale-dropin", "stuck"} => h[r].loaded = Render(c)

\* An uninstall takes nothing from an org it was not asked about, nothing of a
\* foreign unit, never the tool cache all software of the host shares, and for
\* one org nothing that is shared.
StaysInScope ==
  [][\A c \in Commands : kind[c] = "uninstall" /\ UninstallStep(c) =>
       /\ \A r \in Runners : ~InScope(c, r) => h'[r] = h[r] /\ reg'[r] = reg[r]
       /\ \A l \in Lanes : ~InScope(c, l) => lane'[l] = lane[l]
       /\ <<"toolcache", Host>> \notin base \ base'
       /\ scope[c] # Host => /\ \A b \in base \ base' : b[2] = scope[c]
                             /\ cfg' = cfg]_vars

\* The config directory, and with it the keys GitHub shows once, is only gone
\* when a whole backup exists.
KeysSurvive == ~cfg.dir => cfg.backup = "full"

\* After a purge of the host nothing of srm is left, except what a reported
\* failure kept and what others have touched meanwhile.
PurgeIsComplete ==
  \A c \in Commands : pc[c] = "done" /\ kind[c] = "uninstall" /\ scope[c] = Host =>
    /\ \A r \in Runners : OrgOf[r] \in Configured /\ r \notin moved[c] \cup failed[c] =>
         ~h[r].unit /\ (Host \notin failed[c] => h[r].tree = "none")
    /\ \A l \in Lanes : OrgOf[l] \in Configured /\ l \notin moved[c] \cup failed[c] => lane[l] = "gone"

\* A fix or a purge that has returned has done what it is for (ReconcileFix,
\* UninstallApply), and every unit, tree and registration has a value of its kind.
PassesDeliver == TypeOK /\ FixRepairs /\ PurgeIsComplete

\* No pass touches what is not its to touch: a runner GitHub knows, what a newer srm
\* wrote, what is out of its scope (repairRunner, Uninstall).
PassesKeepOff == OrphansAreUnregistered /\ NewerIsLeftAlone /\ StaysInScope
=============================================================================
