----------------------------- MODULE Provision ------------------------------
(***************************************************************************)
(* The host-once dependency layer.  `srm provision` applies the manifest   *)
(* of the config (packages, cache paths, setup scripts, tool-cache seeds)  *)
(* and, with --rootless-dind, first a manifest of its own; `srm doctor`    *)
(* reads the host back: HostDrift for the manifest, DinDReadiness for      *)
(* rootless Docker.  With isolation.perOrgUsers the seeds go into a cache  *)
(* per org.  Steps fail, srm is killed, and between passes the operator    *)
(* edits the config and the host.                                          *)
(***************************************************************************)
EXTENDS FiniteSets, Integers

CONSTANTS
  Orgs,
  Packages,     \* what a manifest may name for the package manager
  Manifests,    \* the manifests the config may hold
  MaxPasses, MaxEdits

NoOrg     == "shared"                   \* the shared tool cache and RunnerUser
DinDDeps  == {"uidmap"}                 \* of rootlessDinDAptDeps, one
DinDSetup == "dind"                     \* rootlessDinDSetupScript, in a temporary file
Docker    == "docker-ce"                \* what that script installs
Paths     == {"cache"}
Scripts   == {"file", "inline", DinDSetup}
Seeds     == {"node", "python", "malformed"}

Manifest == [pkgs : SUBSET Packages, paths : SUBSET Paths,
             scripts : SUBSET Scripts, seeds : SUBSET Seeds]
Empty    == [pkgs |-> {}, paths |-> {}, scripts |-> {}, seeds |-> {}]
DinD     == [pkgs |-> DinDDeps, paths |-> {}, scripts |-> {DinDSetup}, seeds |-> {}]

ASSUME ProvisionConstants ==
  /\ NoOrg \notin Orgs /\ DinDDeps \cup {Docker} \subseteq Packages
  /\ \A m \in Manifests : m \in Manifest /\ DinDSetup \notin m.scripts
  /\ MaxPasses \in Nat /\ MaxEdits \in Nat

VARIABLES
  perOrg, orgs, want,   \* config: isolation.perOrgUsers, the orgs, the manifest
  pm,                   \* the package manager the host offers
  pkg,                  \* per package: absent, installed, or removed but for its
                        \* configuration files
  claimed,              \* the cache paths the runner user has been given
  placed,               \* the setup scripts that are files on the host
  marked,               \* <<root, seed>>: x64.complete is there
  owner,                \* per <<root, seed>>: who owns it; users are named by their
                        \* org, RunnerUser by NoOrg
  userns, ranges,       \* user namespaces and /dev/fuse are there; the users with a
                        \* wide enough sub-id range
  pass,                 \* the pass under way
  outcome,              \* how the last manifest applied has ended
  touched,              \* history: config or host changed since that one began
  half,                  \* history: a seed was marked and not given to its user
  refused,              \* history: the setup script could not switch userns on
  passes, edits

provVars == <<perOrg, orgs, want, pm, pkg, claimed, placed, marked, owner, userns,
              ranges, pass, outcome, touched, half, refused, passes, edits>>
hostConf == <<perOrg, orgs, want, pm, placed>>

NoPass == [step |-> "idle", man |-> Empty, todo |-> {}, roots |-> {}]

\* RunnerUserFor and ToolCacheFor: an org's own under isolation.
UserOf(r) == IF perOrg THEN r ELSE NoOrg
Roots     == IF perOrg THEN orgs ELSE {NoOrg}

Supported(s)  == s = "node" \/ (s = "python" /\ pm = "apt")
WellFormed(s) == s # "malformed"

-----------------------------------------------------------------------------
(* What srm reports about the host *)

\* pm.present: dpkg -s also knows a package of which only the configuration is
\* left; winget and choco list what is installed.
Present(p) == pkg[p] = "installed" \/ (pm = "apt" /\ pkg[p] = "removed")

\* Without a package manager the inspection of packages fails, and doctor prints
\* nothing about the manifest.
DriftFails(m) == pm = "none" /\ m.pkgs # {}

\* HostDrift, where it does not fail.
Drift(m) ==
       {<<"package", p>> : p \in {q \in m.pkgs : ~Present(q)}}
  \cup {<<"script", s>> : s \in m.scripts \ placed}
  \cup {<<"toolcache", t[2], t[1]>> :
          t \in (Roots \X {s \in m.seeds : WellFormed(s)}) \ marked}

\* DinDReadiness: the failed checks, each a blocker.
Blockers ==
       {<<"binary", p>> : p \in {q \in DinDDeps \cup {Docker} : pkg[q] # "installed"}}
  \cup {<<"userns", NoOrg>> : x \in IF userns THEN {} ELSE {TRUE}}
  \cup {<<"range", UserOf(o)>> : o \in {q \in orgs : UserOf(q) \notin ranges}}

-----------------------------------------------------------------------------
(* A pass *)

ProvInit ==
  /\ perOrg \in BOOLEAN /\ orgs \in SUBSET Orgs /\ want \in Manifests
  /\ pm \in {"apt", "winget", "choco", "none"}
  /\ pkg = [p \in Packages |-> "absent"]
  /\ claimed = {} /\ placed \in {{}, {"file"}} /\ marked = {}
  /\ owner = [t \in (Orgs \cup {NoOrg}) \X Seeds |-> "root"]
  /\ userns \in BOOLEAN /\ ranges = {}
  /\ pass = NoPass /\ outcome = "none" /\ touched = FALSE /\ half = FALSE /\ refused = FALSE
  /\ passes = 0 /\ edits = 0

\* Apply begins: with isolation the seeds wait for the orgs' own caches.
ApplyingShared(m) == [step |-> "packages", man |-> m, todo |-> m.pkgs, roots |-> {NoOrg}]
Applying(m) == [step |-> "packages", man |-> m, todo |-> m.pkgs, roots |-> Roots]

\* srm provision: with --rootless-dind its manifest first, as a pass of its own,
\* then the config's; with nothing to apply it is refused.
BeginProvision(dind) ==
  /\ pass.step = "idle" /\ passes < MaxPasses
  /\ dind \/ want # Empty
  /\ dind => pm = "apt"
  /\ passes' = passes + 1
  /\ pass' = Applying(IF dind THEN DinD ELSE want)
  /\ placed' = IF dind THEN placed \cup {DinDSetup} ELSE placed
  /\ touched' = FALSE /\ outcome' = "running"
  /\ UNCHANGED <<perOrg, orgs, want, pm, pkg, claimed, marked, owner, userns, ranges,
                 half, refused, edits>>

\* The temporary script goes with the pass that wrote it.
Stop(result) ==
  /\ pass' = [NoPass EXCEPT !.man = pass.man]
  /\ placed' = placed \ {DinDSetup}
  /\ outcome' = result

At(step) == pass.step = step
To(step, todo) == pass' = [pass EXCEPT !.step = step, !.todo = todo]

\* apt-get update and one apt-get install; a failed one may have done some.
AptInstall ==
  /\ At("packages") /\ pm = "apt"
  /\ \E done \in SUBSET pass.todo, ok \in BOOLEAN :
       /\ ok => done = pass.todo
       /\ pass.todo = {} => ok
       /\ pkg' = [p \in Packages |-> IF p \in done THEN "installed" ELSE pkg[p]]
       /\ IF ok THEN To("paths", pass.man.paths) /\ UNCHANGED <<placed, outcome>>
                ELSE Stop("packages")
  /\ UNCHANGED <<perOrg, orgs, want, pm, claimed, marked, owner, userns, ranges,
                 touched, half, refused, passes, edits>>

\* winget or choco, one package at a time; winget only where it is missing.
EnsurePackage(p) ==
  /\ At("packages") /\ pm \in {"winget", "choco"} /\ p \in pass.todo
  /\ \/ /\ pkg' = [pkg EXCEPT ![p] = "installed"]
        /\ To("packages", pass.todo \ {p}) /\ UNCHANGED <<placed, outcome>>
     \/ /\ ~(pm = "winget" /\ Present(p))
        /\ Stop("packages") /\ UNCHANGED pkg
  /\ UNCHANGED <<perOrg, orgs, want, pm, claimed, marked, owner, userns, ranges,
                 touched, half, refused, passes, edits>>

\* All packages are there, or none was asked for; without a manager that fails.
PackagesDone ==
  /\ At("packages") /\ pm # "apt"
  /\ pm = "none" \/ pass.todo = {}
  /\ IF pass.todo = {} THEN To("paths", pass.man.paths) /\ UNCHANGED <<placed, outcome>>
                       ELSE Stop("packages")
  /\ UNCHANGED <<perOrg, orgs, want, pm, pkg, claimed, marked, owner, userns, ranges,
                 touched, half, refused, passes, edits>>

\* A persistent cache path is made and given to the runner user.
ClaimPath(d) ==
  /\ At("paths") /\ d \in pass.todo
  /\ \/ /\ claimed' = claimed \cup {d}
        /\ To("paths", pass.todo \ {d}) /\ UNCHANGED <<placed, outcome>>
     \/ Stop("paths") /\ UNCHANGED claimed
  /\ UNCHANGED <<perOrg, orgs, want, pm, pkg, marked, owner, userns, ranges,
                 touched, half, refused, passes, edits>>

PathsDone ==
  /\ At("paths") /\ pass.todo = {}
  /\ To("scripts", pass.man.scripts)
  /\ UNCHANGED <<hostConf, pkg, claimed, marked, owner, userns, ranges, outcome,
                 touched, half, refused, passes, edits>>

\* resolveSetupScript: a file runs in place, an inline body from a temporary
\* file, any other entry is a mistyped path.
RunScript(s) ==
  /\ At("scripts") /\ s \in pass.todo
  /\ \/ /\ s \in placed \/ s = "inline"
        /\ To("scripts", pass.todo \ {s}) /\ UNCHANGED <<placed, outcome>>
        /\ IF s = DinDSetup
           THEN /\ pkg' = [pkg EXCEPT ![Docker] = "installed"]
                /\ userns' \in {TRUE, userns}
                /\ refused' = ~userns'
           ELSE UNCHANGED <<pkg, userns, refused>>
     \/ Stop("scripts") /\ UNCHANGED <<pkg, userns, refused>>
  /\ UNCHANGED <<perOrg, orgs, want, pm, claimed, marked, owner, ranges,
                 touched, half, passes, edits>>

\* Seed of the next cache; after the last one the manifest is applied.
NextCache ==
  /\ \/ At("scripts") \/ At("seeds")
  /\ pass.todo = {}
  /\ IF pass.roots = {} \/ pass.man.seeds = {}
     THEN Stop("ok")
     ELSE /\ \E r \in pass.roots :
               pass' = [pass EXCEPT !.step = "seeds", !.roots = @ \ {r},
                                    !.todo = {r} \X pass.man.seeds]
          /\ UNCHANGED <<placed, outcome>>
  /\ UNCHANGED <<perOrg, orgs, want, pm, pkg, claimed, marked, owner, userns, ranges,
                 touched, half, refused, passes, edits>>

\* The user a cache's reconciler is made for.
CacheUser(root) == root

\* seedTarball, seedPython, seedZip: what is not marked is fetched, unpacked,
\* marked and given to the cache's user.
Seed(t) ==
  /\ At("seeds") /\ t \in pass.todo
  /\ \/ /\ Supported(t[2]) /\ t \in marked
        /\ To("seeds", pass.todo \ {t})
        /\ UNCHANGED <<marked, owner, placed, outcome, half>>
     \/ /\ Supported(t[2]) /\ t \notin marked
        /\ marked' = marked \cup {t}
        /\ owner' = [owner EXCEPT ![t] = CacheUser(t[1])]
        /\ To("seeds", pass.todo \ {t}) /\ UNCHANGED <<placed, outcome, half>>
     \/ /\ Supported(t[2]) /\ t \notin marked
        /\ marked' = marked \cup {t} /\ half' = TRUE
        /\ Stop("seeds") /\ UNCHANGED owner
     \/ /\ ~Supported(t[2]) \/ t \notin marked
        /\ Stop("seeds") /\ UNCHANGED <<marked, owner, half>>
  /\ UNCHANGED <<perOrg, orgs, want, pm, pkg, claimed, userns, ranges,
                 touched, refused, passes, edits>>

\* srm is killed; between a seed's marker and its user too.  The temporary
\* script stays.
KillProvision ==
  /\ pass.step # "idle"
  /\ pass' = [NoPass EXCEPT !.man = pass.man] /\ outcome' = "killed"
  /\ \/ UNCHANGED <<marked, half>>
     \/ /\ At("seeds") /\ half' = TRUE
        /\ \E t \in pass.todo \ marked : Supported(t[2]) /\ marked' = marked \cup {t}
  /\ UNCHANGED <<hostConf, pkg, claimed, owner, userns, ranges, touched, refused, passes, edits>>

-----------------------------------------------------------------------------
(* The operator *)

Edited ==
  /\ edits < MaxEdits /\ edits' = edits + 1 /\ touched' = TRUE
  /\ UNCHANGED <<claimed, marked, owner, ranges, pass, outcome, half, refused, passes>>

EditConfig ==
  /\ Edited
  /\ \/ \E m \in Manifests \ {want} : want' = m /\ UNCHANGED <<perOrg, orgs>>
     \/ perOrg' = ~perOrg /\ UNCHANGED <<want, orgs>>
     \/ \E o \in Orgs : orgs' = (orgs \cup {o}) \ (orgs \cap {o}) /\ UNCHANGED <<want, perOrg>>
  /\ UNCHANGED <<pm, pkg, placed, userns>>

EditHost ==
  /\ Edited
  /\ \/ /\ \E p \in Packages, left \in {"absent", "removed"} :
             pkg[p] = "installed" /\ pkg' = [pkg EXCEPT ![p] = left]
        /\ UNCHANGED <<pm, placed, userns>>
     \/ /\ placed' = (placed \cup {"file"}) \ (placed \cap {"file"})
        /\ UNCHANGED <<pm, pkg, userns>>
     \/ /\ pm # "apt" /\ pm' \in {"winget", "choco", "none"} \ {pm}
        /\ UNCHANGED <<pkg, placed, userns>>
     \/ userns /\ userns' = FALSE /\ UNCHANGED <<pm, pkg, placed>>
  /\ UNCHANGED <<perOrg, orgs, want>>

\* EnsureBase gives an org's user its sub-id range when a slot is made.
CreateSlot(o) ==
  /\ o \in orgs /\ UserOf(o) \notin ranges
  /\ ranges' = ranges \cup {UserOf(o)}
  /\ UNCHANGED <<hostConf, pkg, claimed, marked, owner, userns, pass, outcome,
                 touched, half, refused, passes, edits>>

ProvNext ==
  \/ \E dind \in BOOLEAN : BeginProvision(dind)
  \/ AptInstall \/ \E p \in Packages : EnsurePackage(p)
  \/ PackagesDone \/ \E d \in Paths : ClaimPath(d)
  \/ PathsDone \/ \E s \in Scripts : RunScript(s)
  \/ NextCache \/ \E t \in (Orgs \cup {NoOrg}) \X Seeds : Seed(t)
  \/ KillProvision \/ EditConfig \/ EditHost
  \/ \E o \in Orgs : CreateSlot(o)

ProvSpec == ProvInit /\ [][ProvNext]_provVars

-----------------------------------------------------------------------------
\* After a pass that succeeded, with config and host as they were, doctor's
\* inspection does not fail and finds nothing missing that provision could bring:
\* only inline scripts, which Drift looks for as files (ProvisionHost against
\* HostDrift, in either mode).
ProvisionedIsQuiet ==
  outcome = "ok" /\ ~touched /\ pass.man = want =>
    ~DriftFails(want) /\ Drift(want) \subseteq {<<"script", "inline">>}

\* What a manifest seeds that doctor calls satisfied belongs to the user of each
\* cache, unless a pass was cut short between a seed's marker and its chown, which
\* no later pass makes up for (HostDrift reads the marker only).
QuietIsUsable ==
  ~DriftFails(want) /\ Drift(want) = {} /\ pass.step = "idle" /\ ~half =>
    \A r \in Roots, s \in want.seeds : WellFormed(s) => owner[<<r, s>>] = r

\* A setup script finds the packages of its manifest: the runtime libraries
\* NodeSource needs, the tools Docker's repository is added with (Apply).
ScriptsSeePackages ==
  pass.step = "scripts" /\ ~touched =>
    \A p \in pass.man.pkgs : pkg[p] = "installed"

\* `srm provision --rootless-dind` clears what doctor's blockers send the
\* operator to it for: what stays is the range of a user without a slot, and
\* user namespaces where the kernel would not have them.
RemediationClears ==
  outcome = "ok" /\ ~touched /\ pass.man = DinD =>
    \A b \in Blockers : b[1] = "range" \/ (b[1] = "userns" /\ refused)

\* Provisioning and its inspection agree: what one has done the other accepts, what the
\* one accepts can be used, and what the other asks for is cleared (ProvisionHost,
\* HostDrift, Apply, DinDReport.Blockers).
ProvisionAgrees == ProvisionedIsQuiet /\ QuietIsUsable /\ ScriptsSeePackages /\ RemediationClears
=============================================================================
