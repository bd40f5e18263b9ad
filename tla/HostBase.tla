------------------------------ MODULE HostBase ------------------------------
(***************************************************************************)
(* Who owns what under the install root of a Linux host.  EnsureBase lays  *)
(* out one service user for every org, or one per org (isolation); it runs *)
(* at the start of every create and refresh, beside jobs and beside other  *)
(* srm processes, each in the mode its own config file named.  A unit runs *)
(* as the User= of its drop-in, else as the user svc.sh installed it for,  *)
(* and reaches its tree only if that user owns it.                         *)
(***************************************************************************)
EXTENDS Integers, FiniteSets

CONSTANTS
  Homes,        \* the orgs
  Boxes,        \* persistent runners
  HomeOf,       \* the org of a runner
  Srms,         \* srm processes
  MaxSwitches,  \* changes of isolation.perOrgUsers
  MaxCommands, MaxMishaps

\* The per-org user of org o is written o.
Shared == "srm"
None   == "none"
Owners == Homes \cup {Shared, None}

ASSUME BaseConstants ==
  /\ HomeOf \in [Boxes -> Homes]
  /\ {Shared, None} \cap Homes = {}
  /\ MaxSwitches \in Nat /\ MaxCommands \in Nat /\ MaxMishaps \in Nat

VARIABLES
  isolated,  \* isolation.perOrgUsers in the config file
  accounts,  \* the service users that exist
  root,      \* the install root: None, "closed" (0750, srm's) or "open" (0755)
  home,      \* the owner of an org's subtree
  caches,    \* the owner of an org's caches, and of the shared ones
  unit,      \* svc: svc.sh's user; drop: the drop-in's User=; env: its caches
  up,        \* the user a unit's process runs as
  work,      \* the runners with a job
  at,        \* per process: its step, command, mode, org and runner, and (history)
             \* whether nobody has worked in another mode since it began
  todo,      \* per process: the runners it still has to refresh
  ensured,   \* per process: the layouts it has already ensured
  fresh,     \* history: refreshed or created, and no other mode's step since
  switches, commands, mishaps

baseVars == <<isolated, accounts, root, home, caches, unit, up, work, at, todo,
              ensured, fresh, switches, commands, mishaps>>

NoUnit == [svc |-> None, drop |-> None, env |-> None]
Idle   == [step |-> "idle", kind |-> None, iso |-> FALSE, org |-> None, box |-> None,
           clean |-> FALSE]

-----------------------------------------------------------------------------
UserFor(iso, o)  == IF iso THEN o ELSE Shared
CacheFor(iso, o) == IF iso THEN o ELSE Shared
DropFor(iso, o)  == IF iso THEN o ELSE None

Effective(x) == IF x.drop # None THEN x.drop ELSE x.svc

\* systemd can enter the unit's working directory as the unit's user.
Reaches(o, u) == u \in accounts /\ home[o] = u /\ (root = "open" \/ u = Shared)
Usable(b)     == /\ Reaches(HomeOf[b], Effective(unit[b]))
                 /\ caches[unit[b].env] = Effective(unit[b])

\* svc.sh start and systemctl restart report success once systemd has forked.
Started(b, x) ==
  IF Reaches(HomeOf[b], Effective(x)) THEN Effective(x) ELSE None

\* A step of a process that runs in the mode the file no longer names.
Outdated(p) == at[p].iso # isolated

-----------------------------------------------------------------------------
BaseInit ==
  /\ isolated \in BOOLEAN
  /\ accounts = {} /\ root = None
  /\ home = [o \in Homes |-> None] /\ caches = [o \in Owners |-> None]
  /\ unit = [b \in Boxes |-> NoUnit] /\ up = [b \in Boxes |-> None] /\ work = {}
  /\ at = [p \in Srms |-> Idle]
  /\ todo = [p \in Srms |-> {}] /\ ensured = [p \in Srms |-> {}]
  /\ fresh = {} /\ switches = 0 /\ commands = 0 /\ mishaps = 0

Go(p, s) == at' = [at EXCEPT ![p].step = s]

\* A chown of p's undoes one that q, in the other mode, may have done.
Spoils(p, q) == at[q].iso # at[p].iso

\* A chown.  What the commands of the other mode are about to report no longer holds,
\* nor, if the file no longer names p's mode, what has been reported.
Claims(p, s) ==
  /\ fresh' = IF Outdated(p) THEN {} ELSE fresh
  /\ at' = [q \in Srms |-> [at[q] EXCEPT !.clean = @ /\ ~Spoils(p, q),
                                          !.step = IF q = p THEN s ELSE @]]

Command(p, k, o, b) ==
  /\ at[p].step = "idle" /\ commands < MaxCommands
  /\ commands' = commands + 1
  /\ at' = [at EXCEPT ![p] = [step |-> IF k = "create" THEN "account" ELSE "pick",
                              kind |-> k, iso |-> isolated, org |-> o, box |-> b,
                              clean |-> TRUE]]
  /\ ensured' = [ensured EXCEPT ![p] = {}]
  /\ UNCHANGED <<isolated, accounts, root, home, caches, unit, up, work, fresh,
                 switches, mishaps>>

BeginCreate(p, b) ==
  /\ b \notin work
  /\ \A q \in Srms : at[q].box # b
  /\ Command(p, "create", HomeOf[b], b)
  /\ UNCHANGED todo

\* RefreshLocalUnits: the idle runners of this host, of one org or of all.
BeginRefresh(p, O) ==
  /\ Command(p, "refresh", None, None)
  /\ todo' = [todo EXCEPT ![p] =
       {b \in Boxes : unit[b] # NoUnit /\ HomeOf[b] \in O /\ b \notin work}]

\* reconcile --fix: the units whose drop-in is not this config's, or that are down.
BeginFix(p) ==
  /\ Command(p, "fix", None, None)
  /\ todo' = [todo EXCEPT ![p] =
       {b \in Boxes : /\ unit[b] # NoUnit /\ b \notin work
                      /\ \/ unit[b].drop # DropFor(isolated, HomeOf[b])
                         \/ up[b] = None}]

\* EnsureBase runs once per layout; reconcile's fix goes straight to RefreshUnit.
NextRow(p) ==
  /\ at[p].step = "pick"
  /\ \/ /\ todo[p] = {} /\ at' = [at EXCEPT ![p] = Idle]
        /\ UNCHANGED todo
     \/ \E b \in todo[p] :
          LET o == HomeOf[b]
              skip == at[p].kind = "fix" \/ UserFor(at[p].iso, o) \in ensured[p]
          IN /\ todo' = [todo EXCEPT ![p] = @ \ {b}]
             /\ at' = [at EXCEPT ![p] = [@ EXCEPT !.box = b, !.org = o,
                                         !.step = IF skip THEN "unit" ELSE "account"]]
  /\ UNCHANGED <<isolated, accounts, root, home, caches, unit, up, work, ensured,
                 fresh, switches, commands, mishaps>>

-----------------------------------------------------------------------------
\* EnsureBase, step by step.
AddUser(p) ==
  /\ at[p].step = "account"
  /\ accounts' = accounts \cup {UserFor(at[p].iso, at[p].org)}
  /\ Go(p, "root")
  /\ UNCHANGED <<isolated, root, home, caches, unit, up, work, todo, ensured,
                 fresh, switches, commands, mishaps>>

\* ensureBaseLegacy: the whole tree becomes the one user's.
ClaimRoot(p) ==
  /\ at[p].step = "root" /\ ~at[p].iso
  /\ root' = IF root = None THEN "closed" ELSE root
  /\ home' = [o \in Homes |-> IF home[o] = None THEN None ELSE Shared]
  /\ Claims(p, "caches")
  /\ UNCHANGED <<isolated, accounts, caches, unit, up, work, todo, ensured,
                 switches, commands, mishaps>>

\* ensureBaseIsolated: MkdirAll leaves an existing mode alone, so chmod forces it.
OpenRoot(p) ==
  /\ at[p].step = "root" /\ at[p].iso
  /\ root' = "open"
  /\ Go(p, "home")
  /\ UNCHANGED <<isolated, accounts, home, caches, unit, up, work, todo, ensured,
                 fresh, switches, commands, mishaps>>

ClaimHomeTree(p) ==
  /\ at[p].step = "home"
  /\ home' = [o \in Homes |-> IF o = at[p].org \/ home[o] # None THEN at[p].org ELSE None]
  /\ Claims(p, "caches")
  /\ UNCHANGED <<isolated, accounts, root, caches, unit, up, work, todo, ensured,
                 switches, commands, mishaps>>

ClaimHome(p) ==
  /\ at[p].step = "home"
  /\ home' = [home EXCEPT ![at[p].org] = at[p].org]
  /\ Claims(p, "caches")
  /\ UNCHANGED <<isolated, accounts, root, caches, unit, up, work, todo, ensured,
                 switches, commands, mishaps>>

\* EnsureBase is done for this layout.
Ensured(p) == ensured' = [ensured EXCEPT ![p] = @ \cup {UserFor(at[p].iso, at[p].org)}]

\* The recursive chown of the shared roots takes the per-org caches under them too.
ClaimSharedCaches(p) ==
  /\ at[p].step = "caches" /\ ~at[p].iso
  /\ caches' = [c \in Owners |-> IF c = Shared \/ caches[c] # None THEN Shared ELSE None]
  /\ Claims(p, "unit") /\ Ensured(p)
  /\ UNCHANGED <<isolated, accounts, root, home, unit, up, work, todo, switches,
                 commands, mishaps>>

ClaimOwnCaches(p) ==
  /\ at[p].step = "caches" /\ at[p].iso
  /\ caches' = [caches EXCEPT ![at[p].org] = at[p].org]
  /\ Claims(p, "unit") /\ Ensured(p)
  /\ UNCHANGED <<isolated, accounts, root, home, unit, up, work, todo, switches,
                 commands, mishaps>>

\* A step of EnsureBase fails: the row, or the create, is given up.
EnsureFails(p) ==
  /\ at[p].step \in {"account", "root", "home", "caches"}
  /\ mishaps < MaxMishaps /\ mishaps' = mishaps + 1
  /\ at' = [at EXCEPT ![p] = IF @.kind = "create" THEN Idle
                             ELSE [@ EXCEPT !.step = "pick", !.box = None]]
  /\ UNCHANGED <<isolated, accounts, root, home, caches, unit, up, work, todo,
                 ensured, fresh, switches, commands>>

-----------------------------------------------------------------------------
\* A row is reported done; nobody has meanwhile worked in another mode.
Reported(p, b) ==
  fresh' = IF at[p].clean /\ ~Outdated(p) THEN fresh \cup {b} ELSE fresh \ {b}

\* CreateRunner: the old unit goes, the org's subtree is chowned, svc.sh and
\* the drop-in name the user, and the unit starts.
InstallRunner(p) ==
  LET b == at[p].box  o == HomeOf[b]  iso == at[p].iso
      x == [svc |-> UserFor(iso, o), drop |-> DropFor(iso, o), env |-> CacheFor(iso, o)]
  IN /\ at[p].step = "unit" /\ at[p].kind = "create"
     /\ home' = [home EXCEPT ![o] = x.svc]
     /\ unit' = [unit EXCEPT ![b] = x]
     /\ up' = [up EXCEPT ![b] = IF x.svc \in accounts /\ (root = "open" \/ x.svc = Shared)
                                THEN x.svc ELSE None]
     /\ work' = work \ {b}
     /\ IF Outdated(p) THEN fresh' = {} ELSE Reported(p, b)
     /\ at' = [q \in Srms |-> IF q = p THEN Idle
                              ELSE [at[q] EXCEPT !.clean = @ /\ ~Spoils(p, q)]]
     /\ UNCHANGED <<isolated, accounts, root, caches, todo, ensured, switches,
                    commands, mishaps>>

\* RefreshUnit: the drop-in is rewritten and the unit restarted, whoever owns
\* the tree by now.
RefreshUnit(p) ==
  LET b == at[p].box  o == HomeOf[b]  iso == at[p].iso
      x == [unit[b] EXCEPT !.drop = DropFor(iso, o), !.env = CacheFor(iso, o)]
  IN /\ at[p].step = "unit" /\ at[p].kind # "create"
     /\ unit' = [unit EXCEPT ![b] = x]
     /\ up' = [up EXCEPT ![b] = Started(b, x)]
     /\ work' = work \ {b}
     /\ IF at[p].kind = "refresh" THEN Reported(p, b) ELSE fresh' = fresh \ {b}
     /\ at' = [at EXCEPT ![p] = [@ EXCEPT !.step = "pick", !.box = None]]
     /\ UNCHANGED <<isolated, accounts, root, home, caches, todo, ensured, switches,
                    commands, mishaps>>

-----------------------------------------------------------------------------
\* The operator, GitHub, and the host.
SwitchMode ==
  /\ switches < MaxSwitches /\ switches' = switches + 1
  /\ isolated' = ~isolated /\ fresh' = {}
  /\ UNCHANGED <<accounts, root, home, caches, unit, up, work, at, todo, ensured,
                 commands, mishaps>>

TakeJob(b) ==
  /\ up[b] # None /\ b \notin work /\ home[HomeOf[b]] = up[b]
  /\ \A p \in Srms : at[p].kind = "create" => at[p].box # b
  /\ work' = work \cup {b}
  /\ UNCHANGED <<isolated, accounts, root, home, caches, unit, up, at, todo, ensured,
                 fresh, switches, commands, mishaps>>

EndJob(b) ==
  /\ b \in work /\ work' = work \ {b}
  /\ UNCHANGED <<isolated, accounts, root, home, caches, unit, up, at, todo, ensured,
                 fresh, switches, commands, mishaps>>

Reboot ==
  /\ mishaps < MaxMishaps /\ mishaps' = mishaps + 1
  /\ \E b \in Boxes : unit[b] # NoUnit
  /\ up' = [b \in Boxes |-> IF unit[b] = NoUnit THEN None ELSE Started(b, unit[b])]
  /\ work' = {} /\ at' = [p \in Srms |-> Idle]
  /\ todo' = [p \in Srms |-> {}]
  /\ UNCHANGED <<isolated, accounts, root, home, caches, unit, ensured, fresh,
                 switches, commands>>

BaseNext ==
  \/ \E p \in Srms :
       \/ \E b \in Boxes : BeginCreate(p, b)
       \/ \E O \in {Homes} \cup {{o} : o \in Homes} : BeginRefresh(p, O)
       \/ BeginFix(p) \/ NextRow(p)
       \/ AddUser(p) \/ ClaimRoot(p) \/ OpenRoot(p) \/ ClaimHome(p)
       \/ ClaimSharedCaches(p) \/ ClaimOwnCaches(p) \/ EnsureFails(p) \/ InstallRunner(p) \/ RefreshUnit(p)
  \/ SwitchMode \/ Reboot
  \/ \E b \in Boxes : TakeJob(b) \/ EndJob(b)

BaseSpec == BaseInit /\ [][BaseNext]_baseVars

-----------------------------------------------------------------------------
\* Owners are users and every process is at a step of EnsureBase or its caller.
BaseTypeOK ==
  /\ isolated \in BOOLEAN /\ accounts \subseteq Homes \cup {Shared}
  /\ root \in {None, "closed", "open"}
  /\ home \in [Homes -> Owners] /\ caches \in [Owners -> Owners]
  /\ unit \in [Boxes -> [svc : Owners, drop : Owners, env : Owners]]
  /\ up \in [Boxes -> Owners] /\ work \subseteq Boxes /\ fresh \subseteq Boxes
  /\ todo \in [Srms -> SUBSET Boxes] /\ ensured \in [Srms -> SUBSET Owners]

\* In one and the same mode, no create or refresh takes the tree of a runner
\* from under its job: per-org layouts touch only their own org's files, and
\* the shared layout gives everything to the one user (ensureBaseIsolated).
JobKeepsTree ==
  switches = 0 => \A b \in work : home[HomeOf[b]] = up[b]

\* A runner that a create or a refresh has reported done can start as the user
\* its unit names, and reaches its tree and its caches: the migration is in
\* place (RefreshLocalUnits, CreateRunner).  The way back, from a unit that was
\* installed for an org's own user, is excluded: its drop-in names no user, so
\* the unit keeps svc.sh's.
MigratesInPlace ==
  \A b \in fresh : isolated \/ unit[b].svc = Shared => Usable(b)

\* The layout of the install root serves the jobs that run in it and the units that
\* start next, in either mode (EnsureBase, RefreshLocalUnits, CreateRunner).
LayoutServes == BaseTypeOK /\ JobKeepsTree /\ MigratesInPlace
=============================================================================
