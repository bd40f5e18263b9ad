---------------------------- MODULE RunnerManifest ----------------------------
(***************************************************************************)
(* The persistent runners of one host, the manifest that records them      *)
(* (state.json) and the commands that change both: create, destroy and the *)
(* upgrade pass.                                                           *)
(*                                                                         *)
(* The manifest is advisory: it gates the upgrade pass (skip if at target, *)
(* no downgrade, no runner whose name another host has taken over) but no  *)
(* lock guards it.  create and destroy read, change and write it at their  *)
(* end; the upgrade pass reads it once at its start and writes its copy    *)
(* back after every runner.  Meanwhile GitHub gives jobs to the runners,   *)
(* publishes and withdraws agent releases, and other hosts of the org      *)
(* register runners, possibly under a name this host uses.                 *)
(***************************************************************************)
EXTENDS Integers, FiniteSets

CONSTANTS
  Names,       \* runner names of one org
  OwnIds,      \* the registration ids GitHub gives to this host
  OtherIds,    \* those it gives to other hosts of the org
  NoId,        \* GitHub id 0: unknown
  MaxVersion,  \* agent versions are 1..MaxVersion; 0 is the unknown version
  Commands,    \* srm invocations; each may run one command after another
  Kinds,       \* the commands they run
  CommandFaults,
  MaxCommandFaults

CommandFaultKinds == {"api", "install", "swap", "save", "crash"}
OpKinds == {"create", "destroy", "upgrade", "force", "rollback"}

ASSUME ManifestConstants ==
  /\ OwnIds \cap OtherIds = {}
  /\ NoId \notin OwnIds \cup OtherIds
  /\ MaxVersion \in Nat \ {0}
  /\ Kinds \subseteq OpKinds
  /\ CommandFaults \subseteq CommandFaultKinds
  /\ MaxCommandFaults \in Nat

Ids      == OwnIds \cup OtherIds
Releases == 1..MaxVersion

Trees   == [ver : {0} \cup Releases, id : {NoId} \cup OwnIds]
Records == [ver : {0} \cup Releases, prev : {0} \cup Releases, id : {NoId} \cup Ids]
Rows    == [name : Names, id : Ids, busy : BOOLEAN]

NoTree   == [ver |-> 0, id |-> NoId]              \* not installed
NoRecord == [ver |-> 0, prev |-> 0, id |-> NoId]  \* Get of a missing entry

VARIABLES
  gh,      \* GitHub: the id registered under every name
  busy,    \* GitHub: the ids that run a job
  pub,     \* the agent version GitHub publishes
  tree,    \* the installed agent and the id in its .runner file
  was,     \* history: the version a tree had before its last swap
  cached,  \* the versions whose tarball is in the host's cache
  disk,    \* state.json
  cmdPc,   \* the step a command is at
  kind, at,
  liveId,  \* the id of the row it handles
  idr,     \* the id a command has read from .runner, or found recorded
  mem,     \* the manifest a command has loaded
  rows,    \* the rows of its GitHub listing still to be handled
  goal,    \* the version it installs (0: none resolved yet)
  missed,  \* history: the names a failed or killed command left unrecorded
  commandFaults

hostVars == <<gh, busy, pub, tree, was, cached>>
cmdVars  == <<cmdPc, kind, at, liveId, idr, mem, rows, goal>>
manifestVars == <<hostVars, disk, cmdVars, missed, commandFaults>>

CommandPcs == {"idle", "install", "remove", "load", "store", "deregister", "list",
               "row", "recheck", "swap", "save", "lastSave"}

\* Registrations, trees, state.json and the copies commands hold of it (State) have
\* values of their kind.
ManifestTypeOK ==
  /\ gh     \in [Names -> {NoId} \cup Ids]
  /\ busy   \in SUBSET Ids
  /\ pub    \in Releases
  /\ tree   \in [Names -> Trees]
  /\ was    \in [Names -> {0} \cup Releases]
  /\ cached \in SUBSET Releases
  /\ disk   \in [Names -> Records]
  /\ cmdPc  \in [Commands -> CommandPcs]
  /\ kind   \in [Commands -> OpKinds \cup {"none"}]
  /\ at     \in [Commands -> Names \cup {NoId}]
  /\ liveId \in [Commands -> {NoId} \cup Ids]
  /\ idr    \in [Commands -> {NoId} \cup Ids]
  /\ mem    \in [Commands -> [Names -> Records]]
  /\ rows   \in [Commands -> SUBSET Rows]
  /\ goal   \in [Commands -> {0} \cup Releases]
  /\ missed \in SUBSET Names
  /\ commandFaults \in 0..MaxCommandFaults

-----------------------------------------------------------------------------
CommandFault(k) ==
  /\ k \in CommandFaults
  /\ commandFaults < MaxCommandFaults
  /\ commandFaults' = commandFaults + 1

NoCommandFault == UNCHANGED <<missed, commandFaults>>

\* A fault after which the host may have changed under c's name unrecorded.
FaultMisses(c, k) ==
  /\ CommandFault(k)
  /\ missed' = missed \cup ({at[c]} \cap Names)

\* One that changes nothing the manifest records.
FaultSpares(k) == CommandFault(k) /\ UNCHANGED missed

Installed(n) == tree[n] # NoTree

\* An id that nothing refers to any more cannot be told from one never issued.
Fresh(id) ==
  \A n \in Names :
    /\ id # gh[n]
    /\ id # tree[n].id
    /\ id # disk[n].id
    /\ \A c \in Commands : /\ id # idr[c]
                           /\ id # liveId[c]
                           /\ id # mem[c][n].id
                           /\ \A r \in rows[c] : id # r.id

Advance(c, step) == cmdPc' = [cmdPc EXCEPT ![c] = step]

Begin(c, k, step) ==
  /\ k \in Kinds
  /\ cmdPc[c] = "idle"
  /\ Advance(c, step)
  /\ kind' = [kind EXCEPT ![c] = k]

End(c) ==
  /\ Advance(c, "idle")
  /\ kind' = [kind EXCEPT ![c] = "none"]
  /\ at'   = [at EXCEPT ![c] = NoId]
  /\ liveId' = [liveId EXCEPT ![c] = NoId]
  /\ idr'  = [idr EXCEPT ![c] = NoId]
  /\ mem'  = [mem EXCEPT ![c] = [n \in Names |-> NoRecord]]
  /\ rows' = [rows EXCEPT ![c] = {}]
  /\ goal' = [goal EXCEPT ![c] = 0]

-----------------------------------------------------------------------------
(* create and destroy *)

\* CreateRunners, for one name, and the second half of RecreateRunner: the
\* published agent is looked up first.
BeginCreate(c, n) ==
  /\ Begin(c, "create", "install")
  /\ at'   = [at EXCEPT ![c] = n]
  /\ goal' = [goal EXCEPT ![c] = pub]
  /\ NoCommandFault
  /\ UNCHANGED <<hostVars, disk, liveId, idr, mem, rows>>

\* CreateRunner tears down what is there, installs the agent and runs
\* config.sh --replace, which takes the name over on GitHub, whoever had
\* it; then AgentID.  A failure leaves no tree, or one that is registered but
\* whose service does not start.
InstallRunner(c) ==
  /\ cmdPc[c] = "install"
  /\ \/ /\ \E id \in OwnIds :
             /\ Fresh(id)
             /\ gh'   = [gh EXCEPT ![at[c]] = id]
             /\ tree' = [tree EXCEPT ![at[c]] = [ver |-> goal[c], id |-> id]]
             /\ busy' = busy \ {gh[at[c]], tree[at[c]].id}
             /\ \/ NoCommandFault /\ idr' = [idr EXCEPT ![c] = id] /\ Advance(c, "load")
                          /\ UNCHANGED <<kind, at, liveId, mem, rows, goal>>
                \/ FaultMisses(c, "install") /\ End(c)
     \/ /\ FaultMisses(c, "install")
        /\ tree' = [tree EXCEPT ![at[c]] = NoTree]
        /\ busy' = busy \ {tree[at[c]].id}
        /\ End(c)
        /\ UNCHANGED gh
  /\ was' = [was EXCEPT ![at[c]] = 0]
  /\ cached' = cached \cup {goal[c]}
  /\ UNCHANGED <<pub, disk>>

\* DestroyRunner reads the id from .runner before the teardown.
BeginDestroy(c, n) ==
  /\ Begin(c, "destroy", "remove")
  /\ at'  = [at EXCEPT ![c] = n]
  /\ idr' = [idr EXCEPT ![c] = tree[n].id]
  /\ NoCommandFault
  /\ UNCHANGED <<hostVars, disk, liveId, mem, rows, goal>>

\* RemoveRunner.
RemoveRunner(c) ==
  /\ cmdPc[c] = "remove"
  /\ tree' = [tree EXCEPT ![at[c]] = NoTree]
  /\ was'  = [was EXCEPT ![at[c]] = 0]
  /\ busy' = busy \ {tree[at[c]].id}
  /\ Advance(c, "load")
  /\ NoCommandFault
  /\ UNCHANGED <<gh, pub, cached, disk, kind, at, liveId, idr, mem, rows, goal>>

\* recordCreated and forget: mutateState loads the manifest ...
LoadState(c) ==
  /\ cmdPc[c] = "load"
  /\ mem' = [mem EXCEPT ![c] = disk]
  /\ Advance(c, "store")
  /\ NoCommandFault
  /\ UNCHANGED <<hostVars, disk, kind, at, liveId, idr, rows, goal>>

\* Mutant: the id is looked up on GitHub, by name.
StoreLiveId(c) ==
  /\ cmdPc[c] = "store"
  /\ kind[c] = "create"
  /\ NoCommandFault
  /\ disk' = [mem[c] EXCEPT ![at[c]] =
                [ver |-> goal[c], prev |-> 0, id |-> gh[at[c]]]]
  /\ End(c)
  /\ UNCHANGED hostVars

\* ... changes one entry and saves it; a failing Save is ignored.
StoreRecord(c) ==
  /\ cmdPc[c] = "store"
  /\ \/ /\ missed' = missed \ {at[c]}
        /\ UNCHANGED commandFaults
        /\ disk' = [mem[c] EXCEPT ![at[c]] =
                      IF kind[c] = "create"
                      THEN [ver |-> goal[c], prev |-> 0, id |-> idr[c]]
                      ELSE NoRecord]
     \/ FaultMisses(c, "save") /\ UNCHANGED disk
  /\ IF kind[c] = "destroy" /\ idr[c] # NoId
     THEN Advance(c, "deregister") /\ UNCHANGED <<kind, at, liveId, idr, mem, rows, goal>>
     ELSE End(c)
  /\ UNCHANGED hostVars

\* The authoritative API delete, by the id .runner held.
Deregister(c) ==
  /\ cmdPc[c] = "deregister"
  /\ \/ /\ NoCommandFault
        /\ gh' = [n \in Names |-> IF gh[n] = idr[c] THEN NoId ELSE gh[n]]
        /\ busy' = busy \ {idr[c]}
     \/ FaultSpares("api") /\ UNCHANGED <<gh, busy>>
  /\ End(c)
  /\ UNCHANGED <<pub, tree, was, cached, disk>>

-----------------------------------------------------------------------------
(* The upgrade pass *)

\* UpgradeLocalRunnersStream loads the manifest once ...
BeginPass(c, k) ==
  /\ k \in {"upgrade", "force", "rollback"}
  /\ Begin(c, k, "list")
  /\ mem' = [mem EXCEPT ![c] = disk]
  /\ NoCommandFault
  /\ UNCHANGED <<hostVars, disk, at, liveId, idr, rows, goal>>

\* ... and lists GitHub's runners once, of which it keeps those with a tree
\* here that are in the selection (--org, or the rows picked in the TUI).
ListRunners(c) ==
  /\ cmdPc[c] = "list"
  /\ \/ /\ NoCommandFault
        /\ \E only \in SUBSET Names :
             rows' = [rows EXCEPT ![c] =
                        {[name |-> n, id |-> gh[n], busy |-> gh[n] \in busy] :
                           n \in {m \in only : Installed(m) /\ gh[m] # NoId}}]
     \/ FaultSpares("api") /\ rows' = [rows EXCEPT ![c] = {}]
  /\ Advance(c, "row")
  /\ UNCHANGED <<hostVars, disk, kind, at, liveId, idr, mem, goal>>

\* The id the upgrade holds a runner to: the recorded one, else .runner's.
RecordedId(c, n) == IF mem[c][n].id # NoId THEN mem[c][n].id ELSE tree[n].id

\* Mutant: an entry without an id does not gate, .runner is not consulted.
EligibleUnrecorded(c, r) == ~r.busy /\ mem[c][r.name].id \in {NoId, r.id}

\* The gates before a target is looked up: not busy in the listing, and the
\* name still this host's (idMismatchSkip).
Eligible(c, r) == ~r.busy /\ RecordedId(c, r.name) \in {NoId, r.id}

\* versionGateSkip: at the target already, or an unwanted downgrade; an unknown
\* version passes both gates.
VersionGate(k, from, to) ==
  /\ k # "force" /\ from # 0 => from # to
  /\ k = "upgrade" /\ from # 0 => to >= from

\* Take the row of a runner off the listing.
TakeRow(c, r) ==
  /\ cmdPc[c] = "row"
  /\ r \in rows[c]
  /\ at'   = [at EXCEPT ![c] = r.name]
  /\ liveId' = [liveId EXCEPT ![c] = r.id]
  /\ idr'  = [idr EXCEPT ![c] = RecordedId(c, r.name)]
  /\ rows' = [rows EXCEPT ![c] = @ \ {r}]
  /\ UNCHANGED <<hostVars, disk, kind, mem>>

SkipRow(c) ==
  \E r \in rows[c] :
    /\ TakeRow(c, r)
    /\ ~Eligible(c, r)
    /\ Advance(c, "save")
    /\ NoCommandFault
    /\ UNCHANGED goal

\* resolveTarget and shouldProceed: the recorded previous version, if it is
\* cached, or the published one, looked up once per pass.
ResolveTarget(c) ==
  \E r \in rows[c] :
    /\ TakeRow(c, r)
    /\ Eligible(c, r)
    /\ LET rec == mem[c][r.name]
           to  == IF kind[c] = "rollback" THEN rec.prev
                  ELSE IF goal[c] # 0 THEN goal[c] ELSE pub
       IN \/ /\ NoCommandFault
             /\ goal' = [goal EXCEPT ![c] = to]
             /\ Advance(c, IF /\ to # 0
                              /\ kind[c] = "rollback" => to \in cached
                              /\ VersionGate(kind[c], rec.ver, to)
                           THEN "recheck" ELSE "save")
          \/ /\ kind[c] # "rollback" /\ goal[c] = 0
             /\ FaultSpares("api")
             /\ Advance(c, "save")
             /\ UNCHANGED goal

\* GetRunner by the listed id, immediately before the swap: only an answer that
\* says busy stops it.
RecheckBusy(c) ==
  /\ cmdPc[c] = "recheck"
  /\ \/ NoCommandFault /\ Advance(c, IF liveId[c] \in busy THEN "save" ELSE "swap")
     \/ FaultSpares("api") /\ Advance(c, "swap")
  /\ UNCHANGED <<hostVars, disk, kind, at, liveId, idr, mem, rows, goal>>

\* Mutant: the previous version is read after the new one has been recorded.
SwapReadsPreviousLate(c) ==
  /\ cmdPc[c] = "swap"
  /\ Installed(at[c])
  /\ NoCommandFault
  /\ tree' = [tree EXCEPT ![at[c]].ver = goal[c]]
  /\ was'  = [was EXCEPT ![at[c]] = tree[at[c]].ver]
  /\ busy' = busy \ {tree[at[c]].id}
  /\ mem'  = [mem EXCEPT ![c][at[c]] = [ver |-> goal[c], prev |-> goal[c], id |-> idr[c]]]
  /\ cached' = cached \cup {goal[c]}
  /\ Advance(c, "save")
  /\ UNCHANGED <<gh, pub, disk, kind, at, liveId, idr, rows, goal>>

\* UpgradeRunnerAgent (module AgentUpgrade), an atomic step here, and the new
\* record.  Without a tree it fails; if it fails later the runner has been
\* stopped, and is back on the version it had.
SwapAgent(c) ==
  /\ cmdPc[c] = "swap"
  /\ \/ /\ Installed(at[c])
        /\ NoCommandFault
        /\ tree' = [tree EXCEPT ![at[c]].ver = goal[c]]
        /\ was'  = [was EXCEPT ![at[c]] = tree[at[c]].ver]
        /\ busy' = busy \ {tree[at[c]].id}
        /\ mem'  = [mem EXCEPT ![c][at[c]] = [ver |-> goal[c], prev |-> @.ver, id |-> idr[c]]]
        /\ cached' = cached \cup {goal[c]}
     \/ /\ Installed(at[c])
        /\ FaultSpares("swap")
        /\ busy' = busy \ {tree[at[c]].id}
        /\ UNCHANGED <<tree, was, mem, cached>>
     \/ ~Installed(at[c]) /\ NoCommandFault /\ UNCHANGED <<tree, was, busy, mem, cached>>
  /\ Advance(c, "save")
  /\ UNCHANGED <<gh, pub, disk, kind, at, liveId, idr, rows, goal>>

\* _ = st.Save(StatePath), after every row and once more at the end.
SaveState(c) ==
  /\ \/ /\ cmdPc[c] = "save"
        /\ Advance(c, "row")
        /\ at'   = [at EXCEPT ![c] = NoId]
        /\ liveId' = [liveId EXCEPT ![c] = NoId]
        /\ idr'  = [idr EXCEPT ![c] = NoId]
        /\ UNCHANGED <<kind, mem, rows, goal>>
     \/ cmdPc[c] = "row" /\ rows[c] = {} /\ End(c)
  /\ \/ NoCommandFault /\ disk' = mem[c]
     \/ FaultMisses(c, "save") /\ UNCHANGED disk
  /\ UNCHANGED hostVars

\* The command is killed between two steps.
KillCommand(c) ==
  /\ cmdPc[c] # "idle"
  /\ FaultMisses(c, "crash")
  /\ End(c)
  /\ UNCHANGED <<hostVars, disk>>

-----------------------------------------------------------------------------
(* GitHub, and the other hosts *)

\* A job is given to, and ends on, an agent of this host that is registered.
TakeJob(n) ==
  /\ gh[n] # NoId
  /\ gh[n] = tree[n].id
  /\ busy' = busy \cup {gh[n]}
  /\ NoCommandFault
  /\ UNCHANGED <<gh, pub, tree, was, cached, disk, cmdVars>>

FinishJob(n) ==
  /\ gh[n] \in busy
  /\ busy' = busy \ {gh[n]}
  /\ NoCommandFault
  /\ UNCHANGED <<gh, pub, tree, was, cached, disk, cmdVars>>

\* Another host registers a runner under the name, replacing who had it.
OtherHostTakes(n) ==
  /\ gh[n] \notin busy
  /\ \E id \in OtherIds : Fresh(id) /\ gh' = [gh EXCEPT ![n] = id]
  /\ NoCommandFault
  /\ UNCHANGED <<busy, pub, tree, was, cached, disk, cmdVars>>

\* An idle registration of this host is removed on GitHub (by hand, or because
\* it was offline for too long); its tree stays.
RemovedOnGitHub(n) ==
  /\ gh[n] \in OwnIds \ busy
  /\ gh' = [gh EXCEPT ![n] = NoId]
  /\ NoCommandFault
  /\ UNCHANGED <<busy, pub, tree, was, cached, disk, cmdVars>>

\* GitHub publishes another agent release, or withdraws the last one.
Publish(v) ==
  /\ pub' = v
  /\ NoCommandFault
  /\ UNCHANGED <<gh, busy, tree, was, cached, disk, cmdVars>>

-----------------------------------------------------------------------------
\* A host as an older srm left it: runners may be installed and registered,
\* and nothing is recorded yet.
ManifestInit ==
  /\ gh     \in {g \in [Names -> {NoId} \cup OwnIds] :
                   \A m, n \in Names : m # n /\ g[m] = g[n] => g[m] = NoId}
  /\ busy   = {}
  /\ pub    \in Releases
  /\ tree   = [n \in Names |-> IF gh[n] = NoId THEN NoTree ELSE [ver |-> pub, id |-> gh[n]]]
  /\ was    = [n \in Names |-> 0]
  /\ cached = {}
  /\ disk   = [n \in Names |-> NoRecord]
  /\ cmdPc  = [c \in Commands |-> "idle"]
  /\ kind   = [c \in Commands |-> "none"]
  /\ at     = [c \in Commands |-> NoId]
  /\ liveId = [c \in Commands |-> NoId]
  /\ idr    = [c \in Commands |-> NoId]
  /\ mem    = [c \in Commands |-> [n \in Names |-> NoRecord]]
  /\ rows   = [c \in Commands |-> {}]
  /\ goal   = [c \in Commands |-> 0]
  /\ missed = {}
  /\ commandFaults = 0

CommandStep(c) ==
  \/ \E n \in Names : BeginCreate(c, n) \/ BeginDestroy(c, n)
  \/ \E k \in OpKinds : BeginPass(c, k)
  \/ InstallRunner(c) \/ RemoveRunner(c) \/ LoadState(c) \/ StoreRecord(c)
  \/ Deregister(c) \/ ListRunners(c) \/ SkipRow(c) \/ ResolveTarget(c)
  \/ RecheckBusy(c) \/ SwapAgent(c) \/ SaveState(c) \/ KillCommand(c)

GitHubStep ==
  \/ \E n \in Names : TakeJob(n) \/ FinishJob(n) \/ OtherHostTakes(n) \/ RemovedOnGitHub(n)
  \/ \E v \in Releases : Publish(v)

ManifestNext == (\E c \in Commands : CommandStep(c)) \/ GitHubStep

ManifestSpec == ManifestInit /\ [][ManifestNext]_manifestVars

-----------------------------------------------------------------------------
(* Properties *)

\* What an entry says of a runner is true of it; what it does not know it
\* leaves unknown, and a runner that is gone has no entry.
RecordTrue(n) ==
  IF Installed(n)
  THEN /\ disk[n].ver  \in {0, tree[n].ver}
       /\ disk[n].prev \in {0, was[n]}
       /\ disk[n].id   \in {NoId, tree[n].id}
  ELSE disk[n] = NoRecord

\* As long as commands follow one another ("never concurrent with each other",
\* mutateState), the manifest agrees with the host whenever none runs, whatever
\* GitHub refuses, the self-test rejects and other hosts take over.  A command
\* that is killed, or fails to install or to save, may leave the entry of the
\* one runner it was at wrong, and of no other.
ManifestAgrees ==
  (\A c \in Commands : cmdPc[c] = "idle") => \A n \in Names \ missed : RecordTrue(n)

\* The manifest is well-formed at every step and agrees with the host between commands
\* (State, mutateState).
ManifestSound == ManifestTypeOK /\ ManifestAgrees

\* versionGateSkip, "anti-downgrade": an upgrade that was not forced never
\* lowers the version of a runner whose version is recorded, although GitHub
\* may withdraw a release in the middle of a pass.
NeverDowngrades ==
  [][\A c \in Commands :
       /\ cmdPc[c] = "swap"
       /\ kind[c] = "upgrade"
       /\ mem[c][at[c]].ver # 0
       /\ at[c] \notin missed
       => tree'[at[c]].ver >= tree[at[c]].ver]_manifestVars

\* idMismatchSkip: "another host in the org now owns this name, which upgrade
\* ... must never touch".  The tree that is swapped is that of the very
\* registration GitHub listed as idle, not of one that has lost its name.
SwapsListedRunner ==
  [][\A c \in Commands :
       cmdPc[c] = "swap" /\ cmdPc'[c] = "save" /\ Installed(at[c]) =>
         tree[at[c]].id = liveId[c]]_manifestVars

\* DestroyRunner: "we never delete another host's same-named runner".
OthersNeverDeregistered ==
  [][\A n \in Names : gh[n] \in OtherIds => gh'[n] # NoId]_manifestVars

\* The gates of a command hold against what happens after they were passed: no
\* downgrade, no swap under a runner that lost its name, nothing of another host
\* (versionGateSkip, idMismatchSkip, DestroyRunner).
GatesHold == NeverDowngrades /\ SwapsListedRunner /\ OthersNeverDeregistered

\* Whatever is lost, raced or interrupted, the id recorded under a name is one
\* this host registered, never that of a host that took the name over.
RecordedIdsAreOwn == \A n \in Names : disk[n].id \in {NoId} \cup OwnIds
=============================================================================
