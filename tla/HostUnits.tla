------------------------------ MODULE HostUnits ------------------------------
(***************************************************************************)
(* The persistent runners and the lanes of one host as srm finds them: the *)
(* systemd unit of a runner with its drop-in, its install tree, its        *)
(* registration on GitHub and the job it runs.  Reconcile, Uninstall and   *)
(* CreateRunner work on this state; here are the steps of the orchestrator *)
(* they share, what GitHub and systemd do by themselves, and the history   *)
(* variables the properties of the commands speak of.                      *)
(*                                                                         *)
(* A drop-in is the generation of its marker (0: none) and the generation  *)
(* whose rendering its body equals (0: none, for example other limits).    *)
(***************************************************************************)
EXTENDS Integers, FiniteSets

CONSTANTS
  Configured,  \* the orgs of the config file
  Runners, Lanes,
  OrgOf,       \* the org of a runner or lane; a foreign unit has another one
  Commands,    \* srm invocations
  Gen,         \* the template generation the binary of a command renders
  KindsOf,     \* the commands it may be
  MaxGen, Scopes, Flags,
  Starts,      \* the hosts srm may find: how the runners are, and the user mode
  MaxRuns, MaxFaults, MaxEvents

Things == Runners \cup Lanes
AllOrgs == {OrgOf[x] : x \in Things} \cup Configured
Host    == "host"    \* stands for an org in the name of a shared artefact
Nobody  == "nobody"  \* stands for a command where none acts

ASSUME HostConstants ==
  /\ OrgOf \in [Things -> AllOrgs]
  /\ Host \notin AllOrgs
  /\ Runners \cap Lanes = {}
  /\ MaxGen \in Nat \ {0} /\ Gen \in [Commands -> 1..MaxGen]
  /\ Scopes \subseteq {Host} \cup Configured
  /\ IsFiniteSet(Commands) /\ Nobody \notin Commands
  /\ MaxRuns \in Nat /\ MaxFaults \in Nat /\ MaxEvents \in Nat

NoId == 0
Ids  == NoId..(MaxRuns + Cardinality(Commands) + 1)

DropIns == [mark : 0..MaxGen, body : 0..MaxGen]
NoDrop  == [mark |-> 0, body |-> 0]
Units   == [unit : BOOLEAN, svc : {"down", "deaf", "online"}, drop : DropIns,
            loaded : DropIns, tree : {"none", "flat", "tree"}, id : Ids]
Absent  == [unit |-> FALSE, svc |-> "down", drop |-> NoDrop, loaded |-> NoDrop,
            tree |-> "none", id |-> NoId]

VARIABLES
  h,       \* the host's view of every runner
  reg,     \* the id GitHub has registered for every runner
  job,     \* the runners that run a job
  lane,    \* "gone", "between" two cycles, "waiting" with a recorded id, "job"
  base,    \* the users, caches, roots and control dirs on the host
  cfg,     \* the config directory, the backup, the binary and the user mode
  pc, kind, scope, flags, at,
  list, errs, todo, class,  \* what a pass has listed, still to do, and judged
  idr,     \* the id a command has read from a tree it removes
  cut,     \* history: the things whose job a command has stopped
  moved,   \* history: what anyone else changed since a command's listing
  failed,  \* history: the things a step of the command failed for
  runs, faults, events

hostVars == <<h, reg, job, lane, base, cfg>>
planVars == <<list, errs, todo, class, idr>>
ctlVars  == <<kind, scope, flags, runs>>
vars == <<hostVars, pc, ctlVars, at, planVars, cut, moved, failed, faults, events>>

Rows == {"absent", "offline", "online", "busy"}

-----------------------------------------------------------------------------
\* templateConformance: a newer marker is somebody else's to rewrite; a body
\* equal to this binary's own rendering conforms whatever its marker says.
Newer(c, d)    == d.mark > Gen[c]
Conforms(c, d) == ~Newer(c, d) /\ d.body = Gen[c]
Render(c)      == [mark |-> Gen[c], body |-> Gen[c]]

InScope(c, x) == /\ OrgOf[x] \in Configured
                 /\ scope[c] \in {Host, OrgOf[x]}

Registered(r) == h[r].id # NoId /\ reg[r] = h[r].id
Fresh(r, id)  == id \notin {NoId, reg[r], h[r].id} \cup {idr[c] : c \in Commands}

Goto(c, p) == pc' = [pc EXCEPT ![c] = p]

\* A change of x by the actor a outdates what the other commands have listed.
Touch(a, X) ==
  moved' = [c \in Commands |-> IF c = a THEN moved[c] ELSE moved[c] \cup X]

Fault == faults < MaxFaults /\ faults' = faults + 1
Fail(c, x) == Fault /\ failed' = [failed EXCEPT ![c] = @ \cup {x}]
Fine == UNCHANGED <<faults, failed>>

Stops(c, x, running) ==
  cut' = IF running THEN [cut EXCEPT ![c] = @ \cup {x}] ELSE cut

-----------------------------------------------------------------------------
(* Steps of the orchestrator.                                              *)

\* teardownService: stop, disable, unit file and drop-in directory, best effort.
Teardown(c, r) ==
  /\ h' = [h EXCEPT ![r] = [Absent EXCEPT !.tree = h[r].tree, !.id = h[r].id]]
  /\ job' = job \ {r}
  /\ Stops(c, r, r \in job)
  /\ Touch(c, {r})

\* RemoveRunner after the teardown: os.RemoveAll of the namespaced tree.
WipeTree(c, r) ==
  /\ h' = [h EXCEPT ![r] = IF @.tree = "tree" THEN [@ EXCEPT !.tree = "none", !.id = NoId] ELSE @]
  /\ Touch(c, {r})

\* writeHardening within RefreshUnit, which insists on an installed unit.
WriteDropIn(c, r) ==
  /\ h[r].unit
  /\ h' = [h EXCEPT ![r].drop = Render(c)]
  /\ Touch(c, {r})

\* Mutant: daemon-reload alone; the process keeps what it was started with.
RestartReloadsOnly(c, r) ==
  h' = [h EXCEPT ![r].svc = IF Registered(r) THEN "online" ELSE @]
  /\ UNCHANGED <<job, cut>> /\ Touch(c, {r})

\* systemctl restart: the job dies with the old process; the new one comes up
\* when its tree is there, and connects when GitHub knows the id in the tree.
Restart(c, r) ==
  /\ h' = [h EXCEPT ![r].svc = IF h[r].tree # "tree" THEN "down"
                               ELSE IF Registered(r) THEN "online" ELSE "deaf",
                    ![r].loaded = h[r].drop]
  /\ job' = job \ {r}
  /\ Stops(c, r, r \in job)
  /\ Touch(c, {r})

\* DELETE of a runner on GitHub is forced: an agent that runs loses its
\* connection, and GitHub ends the job it has.
Forget(r) ==
  /\ reg' = [reg EXCEPT ![r] = NoId]
  /\ h' = [h EXCEPT ![r].svc = IF @ = "online" THEN "deaf" ELSE @]

\* EnsureBase: users and directories, per org when isolated, else shared.
OwnBase(o) == {<<"user", o>>, <<"depcache", o>>, <<"toolcache", o>>}
BaseOf(o)  == (IF cfg.isolated THEN OwnBase(o) ELSE OwnBase(Host))
                \cup {<<"root", Host>>, <<"tree", o>>}

-----------------------------------------------------------------------------
(* CreateRunner, and the events no command causes.                         *)

Create(c, r) ==
  /\ pc[c] = "create" /\ at[c] = r
  /\ base' = base \cup BaseOf(OrgOf[r])
  /\ Teardown(c, r)
  /\ Goto(c, "register") /\ Fine
  /\ UNCHANGED <<reg, lane, cfg, ctlVars, at, planVars, events>>

\* Extraction and config.sh: from here on GitHub knows the runner.
Register(c, r) ==
  /\ pc[c] = "register" /\ at[c] = r
  /\ \/ \E id \in Ids :
          /\ Fresh(r, id) /\ \A i \in 1..(id - 1) : ~Fresh(r, i)
          /\ reg' = [reg EXCEPT ![r] = id]
          /\ h' = [h EXCEPT ![r].tree = "tree", ![r].id = id]
          /\ Goto(c, "install") /\ Fine
     \/ /\ h' = [h EXCEPT ![r].tree = "tree", ![r].id = NoId]
        /\ reg' = reg /\ Goto(c, "idle") /\ Fail(c, r)
  /\ Touch(c, {r})
  /\ UNCHANGED <<job, lane, base, cfg, ctlVars, at, planVars, cut, events>>

InstallUnit(c, r) ==
  /\ pc[c] = "install" /\ at[c] = r
  /\ h' = [h EXCEPT ![r].unit = TRUE]
  /\ Touch(c, {r})
  /\ Goto(c, "harden") /\ Fine
  /\ UNCHANGED <<reg, job, lane, base, cfg, ctlVars, at, planVars, cut, events>>

Harden(c, r) ==
  /\ pc[c] = "harden" /\ at[c] = r
  /\ IF h[r].unit THEN WriteDropIn(c, r) /\ Goto(c, "start")
                  ELSE UNCHANGED <<h, moved>> /\ Goto(c, "idle")
  /\ Fine
  /\ UNCHANGED <<reg, job, lane, base, cfg, ctlVars, at, planVars, cut, events>>

Start(c, r) ==
  /\ pc[c] = "start" /\ at[c] = r
  /\ IF h[r].unit THEN Restart(c, r) ELSE UNCHANGED <<h, job, cut, moved>>
  /\ Goto(c, "idle") /\ Fine
  /\ UNCHANGED <<reg, lane, base, cfg, ctlVars, at, planVars, events>>

CreateStep(c) == \E r \in Runners :
  Create(c, r) \/ Register(c, r) \/ InstallUnit(c, r) \/ Harden(c, r) \/ Start(c, r)

Event == events < MaxEvents /\ events' = events + 1
Quiet == UNCHANGED <<base, cfg, pc, ctlVars, at, planVars, cut, failed, faults>>

TakeJob(r) ==
  /\ h[r].svc = "online" /\ Registered(r) /\ r \notin job
  /\ job' = job \cup {r}
  /\ Touch(Nobody, {r}) /\ Event /\ Quiet /\ UNCHANGED <<h, reg, lane>>

FinishJob(r) ==
  /\ r \in job
  /\ job' = job \ {r}
  /\ Touch(Nobody, {r}) /\ Quiet /\ UNCHANGED <<h, reg, lane, events>>

\* The process exits, or hangs without its connection to GitHub.
ServiceDrops(r) ==
  /\ h[r].svc = "online"
  /\ \E s \in {"down", "deaf"} : h' = [h EXCEPT ![r].svc = s]
  /\ job' = job \ {r}
  /\ Touch(Nobody, {r}) /\ Event /\ Quiet /\ UNCHANGED <<reg, lane>>

\* An idle runner is deleted on GitHub.
RemovedOnGitHub(r) ==
  /\ reg[r] # NoId /\ r \notin job
  /\ Forget(r)
  /\ Touch(Nobody, {r}) /\ Event /\ Quiet /\ UNCHANGED <<job, lane>>

\* A lane between two cycles mints, waits with its id recorded, gets a job and
\* clears the id when the cycle is over.
LaneStep(l) ==
  /\ lane[l] # "gone"
  /\ lane' = [lane EXCEPT ![l] = CASE @ = "between" -> "waiting"
                                   [] @ = "waiting" -> "job"
                                   [] @ = "job"     -> "between"]
  /\ Touch(Nobody, {l}) /\ Event /\ Quiet /\ UNCHANGED <<h, reg, job>>

\* What foreign units do is no concern of srm.
GitHubStep == \/ \E r \in {x \in Runners : OrgOf[x] \in Configured} :
                    TakeJob(r) \/ FinishJob(r) \/ ServiceDrops(r) \/ RemovedOnGitHub(r)
              \/ \E l \in Lanes : LaneStep(l)
=============================================================================
