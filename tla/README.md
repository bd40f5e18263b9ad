# srm in TLA+

srm manages self-hosted GitHub Actions runners: it installs *persistent*
runners, keeps *ephemeral lanes* that run one job per registration, upgrades
agents in place, reconciles what GitHub lists with what the host runs, prepares
the host, keeps the credentials, and offers all of it on a command line and in a
terminal UI, on Linux and on Windows. This directory holds TLA+ modules of the
parts whose correctness depends on the order of events, TLC configurations that
check them on small instances, and proofs that TLAPS checks for every instance.
Paths below are relative to `src/internal/` unless they begin with `docs/`.

## 1. The system

| Part | State it keeps | Operations | Talks to |
|---|---|---|---|
| ephemeral lanes (`service/ephemeral.go`, `runner/orchestrator.go`) | per slot: unit file, warm tree, `jit-id`, `jit-params`, mounts, job logs | one job cycle, create, destroy, recreate | GitHub (mint, delete), systemd (Restart=always) |
| ghost reaping (`service/reconcile.go`) | a GitHub listing, held for one pass | list, judge, delete | GitHub, the lanes' `jit-id` and unit state |
| agent upgrade (`UpgradeRunnerAgent`, `runner/orchestrator.go`) | two payload directories and their `.srm-prev` snapshots, the unit | fetch, stop, snapshot, extract, start, self-test, roll back, recover | systemd, the file system |
| upgrade pass and manifest (`service/upgrade.go`, `state.go`, `deploy.go`) | `state.json`, `.runner` of every tree | create, destroy, upgrade, rollback | GitHub (list, get, releases), the agent upgrade |
| manager (`service/manager.go`) | the shared config, its file, cached clients, the dry-run flag | reload, save, add an org, preview, apply | every operation |
| reconcile (`service/reconcile.go`, `deploy.go`) | none of its own | classify units, rewrite drifted units, restart idle ones, remove orphans | systemd, GitHub's listing |
| uninstall (`service/uninstall.go`, `backup.go`) | none of its own | enumerate, drain gate, tear down, back up and purge | lanes, runners, config directory |
| host base (`runner/orchestrator.go`, `config/paths.go`) | service users, owners of the install root, caches, `/etc/subuid` | ensure the layout of either isolation mode, allocate ranges | user database, file system |
| downloads and caches (`runner/orchestrator.go`, `download.go`, `seed.go`) | tarballs, tool-cache seeds, an image cache | fetch, verify, unpack, mark | the network, the file system |
| job log store (`joblog/joblog.go`) | a directory per slot and run | write, list, prune | lane cycles |
| host provisioning (`provision/`, `service/provision.go`, `dind_provision.go`) | markers of seeds, packages, links | apply, seed, drift, remediation of rootless Docker | apt, winget, scripts |
| configuration (`config/config.go`, `service/settings.go`, `profiles.go`, `cli/config.go`) | `config.yaml`, one copy per process | load, migrate, edit, save whole documents | every command |
| keys (`secrets/`, `setup/org.go`, `cli/config.go`) | `.pem` files, `secrets.age`, `secrets.pass` | import a key, the org form, open the store | the units, which have no environment |
| Windows (`runner/windows*.go`, `cli/supervisor_windows.go`) | services, trees, control directories, a job object | create, refresh, upgrade, remove; the supervisor's loop | the service control manager |
| terminal UI (`tui/`) | gates, pending operation, lists, marks, panels, streams of messages | keys, messages, ticks | the manager |
| bulk delete and groups, command line, GitHub client | none that outlives a call | single calls | GitHub |

The parts are separate processes most of the time: each cycle of a lane is an
`srm` process of its own, started by systemd, and every operator command is
another. They share GitHub's registrations, the files of the host and the config
directory; **no lock spans two processes**. The terminal UI is one process with
one event loop, and everything slow runs beside it and answers late. What makes
the behaviour hard is therefore

* *interleaving*: a reap judges a registration while a cycle mints it; a destroy
  reads a pending id before the cycle writes the next one; two creates allocate
  the same slot; an upgrade pass holds the manifest while a create ends;
* *crashes and restarts*: a cycle dies between GitHub's answer and its record on
  disk, an upgrade dies inside an extraction, a file is truncated and not yet
  written, and a successor has to make sense of what it finds;
* *partial failure*: a deregistration that may or may not have happened, a
  rollback whose own steps fail, an ignored error, an `sc.exe` verb that returns
  before it took effect;
* *staleness*: the listing of a pass, the busy flag, a recorded id, a config read
  long ago, a plan that arrives when another gate is open.

What makes each part correct:

* lanes: no job in flight is killed by a reap, no registration is online without
  an agent, each job starts in a clean workspace on a registration of its own,
  leftovers are deregistered, the lane always serves again; a create adds lanes
  and a recreate keeps its parameters;
* agent upgrade: all or nothing, and what was on disk is never lost;
* manifest: it agrees with what the host has installed, an upgrade never
  downgrades, and a name taken over by another host is never touched;
* manager: a preview changes nothing, an apply acts, no client outlives its key;
* reconcile and uninstall: a pass stops no job it could have known of, removes
  nothing of another org or that GitHub knows, leaves behind what it promises, and
  purges keys only after a backup;
* host: allocated blocks never overlap, a cached or marked artefact is a whole one,
  in one mode of isolation no runner loses its tree, what `provision` brought
  `doctor` does not call missing;
* config directory: what was asked is kept, and a detached unit finds the key of
  every org wherever a move of keys is cut short;
* terminal UI: what runs is what was asked about, with the tokens its plan
  demanded, on the rows that were marked; what was started ends.

`PROJECT.json` lists every component with its status, and the hazards of the
code line by line with the properties that cover them.

## 2. The modules

| Module | Models |
|---|---|
| `EphemeralLane` | `RunCycle` step by step, the systemd unit that restarts it, the GitHub agent, create, destroy, recreate and the reap, crashes and failing calls |
| `JobLane` | what a lane promises to jobs: empty, ready, working |
| `LaneSlots` | the slot numbers and mint parameters of an org's lanes under several creates, destroys and recreates |
| `SlotJob` | what a cycle leaves in its slot: home, mounts, Docker's data root, `_diag`; the captured logs and their prune |
| `AgentUpgrade` | `UpgradeRunnerAgent` with snapshot, rollback, discard and recovery over two directories |
| `AtomicUpgrade` | what it promises: the runner changes to the new version, or stays as it was |
| `RunnerManifest` | create, destroy and the upgrade pass over `state.json`, with GitHub's view of the runners |
| `ManagerConfig` | the operations of one srm process over the shared config: previews and applies, destroys, settings, the onboard wizard, restoring a backup |
| `HostUnits` | the persistent units of a host with drop-in, tree, registration and job, and the orchestrator's steps on them |
| `Reconcile`, `Uninstall` | the passes over `HostUnits` |
| `HostPasses` | several commands of both, and creates, on one host; the properties of the passes |
| `HostBase` | users and owners under the install root in both isolation modes |
| `SubIds` | allocation of subordinate id ranges by several processes |
| `Downloads` | tarballs, seeds and the image cache under several fetches and crashes |
| `Provision` | `Apply`, `Seed`, `Drift` and the remediation of rootless Docker |
| `ConfigFile` | `config.yaml` as a whole document between a command line process and a long-lived terminal UI |
| `OrgKeys` | an org's key between its `.pem`, `secrets.age` and `secrets.pass` |
| `TuiSession` | gates, forms and streams of the terminal UI's event loop |
| `FleetView` | lists, filters, marks and the auto-refresh over the two-tier snapshot; what is asked about rows; `m.loading` with every command that sets it, the forms and the answers that reset it or do not |
| `TuiPanels` | the Information, Logs and repository panels with late answers |
| `TuiViews` | the two beside each other: the steps that touch both, and the properties of both |
| `WindowsScm` | one Windows service, its agents and tree, and every elevated command as a sequence of steps |
| `WindowsLane` | the supervisor's loop on top of it, implementing `JobLane` |
| `MC...` | constants and composition of the instances TLC checks |
| `...Proofs` | theorems and proofs |

### EphemeralLane

A step is cut wherever another process can be seen to interleave: at each GitHub
call, each `systemctl` call, each access to `jit-id`. For every lane, `pc` is
the point its `RunCycle` process has reached:

    down -> begin -> [reap -> reapClear] -> mint -> record -> [undo] -> reset
         -> agent -> settle -> [settleDelete] -> settleClear -> down

`reg` is GitHub's state of each registration, `jitId` the file, `cur` the id the
process has in a local variable, `unit` the unit file and its enablement,
`slate` whether the per-job part of the tree has been wiped. `StartCycle` is
systemd (enable, boot, Restart=always). `Crash` and an operator's stop end in
`KillCycle`: the unit has KillMode=mixed and srm installs no SIGTERM handler, so
the main process dies and the rest of its control group with it.
An operator has a program counter of its own (`opPc`): create, destroy
(deregister, disable, unlink, wipe), recreate and reap (list, then for each row
inspect, pending, reap). The check of a reap is three steps because the code
reads the unit's state, then the file, and then calls GitHub.

Abstractions: registration ids are opaque and `Owner` says in advance which lane
an id will go to; `Fresh` reuses an id only when it is gone from GitHub and
nothing refers to it, which stands for a new one. `systemctl disable --now` is
taken to work. GitHub may refuse to delete a registration with a job, or not:
both are possible. Group and label resolution, which happen before the mint and
only refuse, are left out.

### LaneSlots and SlotJob

`LaneSlots` looks at all slots of an org: a create allocates the lowest numbers
`ListEphemeralUnits` does not show, for as many lanes as were asked for, and
writes control files and units one by one; a recreate reads its slot's
parameters, tears down and stands up again; a destroy tears down. A command may
fail or be killed between any two steps. `CreateAdds` is asked of creates beside
which nothing else runs: two at once take the same numbers (section 4). `lost` is
the history behind the exceptions of `RecreateKeepsParams`: slots whose `jit-params`
a command that ended has left other than the last created lane's, because it
destroyed the lane or was cut short after wiping or writing the file.
`SlotJob` opens a cycle up: stale mounts are unmounted, per-job directories
wiped, `_diag` cleared, the daemon started on a data root, the job run, its log
captured into the store in two writes; a prune removes log and record beside it.

### AgentUpgrade

`live` and `bak` hold, for each of `bin` and `externals`, a version, "absent" or
"torn"; `idx` is the position of a loop over the two. A fault of kind "crash"
kills srm between two steps or inside one (`CutShort`: what a killed process
leaves of a removal or an extraction); a boot may start the unit at any
time srm does not run. The other kinds are the failing calls: download, stop,
rename, extraction, start, self-test. `prior` remembers what an upgrade found.

### RunnerManifest

`gh` maps each name to the id GitHub has registered under it, `tree` is what is
installed, with the id in its `.runner` file, `disk` is `state.json` (always
whole: it is written to a temporary file and renamed), `mem` a copy a command
has loaded. A pass lists GitHub once, loads the manifest once, and handles its
rows in any order; after each swap it saves its copy. Each row passes the gates
of `upgradeOnePersistent` in their order: recorded id against the listed one,
version, download, busy re-check, swap. An agent upgrade is one step here
(`AgentUpgrade` justifies that), which succeeds, rolls back or fails. Other
hosts register runners, possibly under a name of this host, GitHub removes
runners, publishes and withdraws releases, and dispatches jobs at any time.
`missed` remembers the names whose record a failed or killed command could not
write. `--to-version` and the version pin only refuse and are left out, as is
`--force` together with `--rollback`.

### ManagerConfig

The terminal UI runs operations as goroutines over one `Manager`
(`service/manager.go`). `mem` is the config `m.cfg` points to, reduced to an
org's credentials (named by the edit that wrote them) and the dry-run flag,
`file` the config file, `client` the org's cached GitHub client, `dryMu` and `mu`
the two mutexes. Each of `Tasks` is a goroutine that runs one operation after
another; `Begin` carries the screens' rule: while an apply runs its panel takes
all keys, a preview, a save, a restore or a single destroy only sets the loading
flag. `Lock`, `Gate`, `DrainGate`, `Teardown`, `Deregister`, `PurgeBase`,
`Unlock` are `withDryRun` around `Uninstall`, cut at every place where the flag
is read; `CopyConfig` and `SwapConfig` are two steps because `withDryRun` writes
the flag without taking `mu`; `Marshal` and `WriteFile` are two because
`SaveConfig` holds no lock between them. `mixed` remembers whether a scope of
`withDryRun` and a change of the config have ever overlapped, `unsaved` whether
an editor has failed half way since the last reload. A second org would be a
second, independent copy of `creds` and `client`.

### HostUnits, Reconcile, Uninstall, HostPasses

A runner on the host is a record `h[r]`: unit file, service state, drop-in on
disk and drop-in systemd has loaded, tree, and the id in its `.runner`. A drop-in
is the generation of its version marker and the generation whose rendering its
body equals: that is all `templateConformance` tells apart. `Gen` gives each
command the generation its binary renders, so an older and a newer srm can share
a host. A command lists once, then inspects and classifies unit by unit, then
repairs one runner at a time in the code's order (unregister and remove an
orphan; write the drop-in, reload, restart). `Uninstall` enumerates, passes the
drain gate on GitHub's side and on the lanes' side, tears lanes and runners down,
purges the base, backs up and purges the config directory. `moved`, `cut` and
`failed` are history: what anyone else changed since the command's last look, whose
jobs it stopped, what it reported as failed. Every promise of a pass is stated
relative to these, because a pass is as old as its listing; the drain gate is a
second look, so it starts the clock again for what it asks about. A DELETE on GitHub
is forced (`Forget`): an agent that runs loses its connection, and its job ends.
Archives of the config directory carry their time in their names, so a second backup
never spoils the first, and `cfg.backup` is the best there is.

### HostBase, SubIds, Downloads, Provision

`HostBase` follows owners: `EnsureBase` gives the whole root to one user or opens
it and claims each org's subtree, and each create and refresh does so in the mode
its own config named. Two histories carry what a reader of the code would say: `fresh`
holds the runners reported done in the mode of the file and not disturbed since, `clean`
says that nobody in the other mode has undone a command's chowns (`Spoils`), which after two
changes of the mode can be a command of the mode the file is back in. `SubIds` cuts `ensureSubIDFile` into read, truncate and
write; the books are sequences of lines as in the file. `Downloads` cuts fetch,
verify, unpack, mark and rename for each kind of artefact, with processes dying
in each and with a disk that fills up. `Provision` runs passes of `Apply`, `Seed`
and `Drift` for one or several orgs over packages, seeds with markers and
owners, scripts, and the remediation `srm provision --rootless-dind`, while
somebody edits manifests and removes packages in between. `DriftFails` is where `Drift`
returns an error (Windows, with packages and no package manager).

### ConfigFile and OrgKeys

A process holds the document it loaded and writes all of it back. `ConfigFile`
gives documents the keys its commands tell apart (orgs with app, user, limits and
profile; host limits, isolation, mode, schema, dry-run) and `asked`, the first document
with all that the commands carried out asked for since: a command changes what the process
holds, and is meant to change just as much of `asked`, so that whatever a load, an edit or a
save loses on the way shows at the next comparison (`AskedIsKept`). A save may fail
(`SaveFails`: `StoreOrgKey`, the open or the write) after the process has changed what it
holds. The command line then ends; the terminal UI keeps the change, and its next save
writes it although it was refused: `held` are the fields of such changes, `spilled` those
that a later save may have written. `OrgKeys` has the two
moves of a key, `srm config import-key` and the org form (init, edit-org,
terminal UI), cut at every file they read or write. `overwrote` remembers which
files a process wrote without having seen their latest content: with no locks that
is all the code can promise to be relative to. `astray` remembers the orgs whose path the form
took without looking for the file, and those that name the `.pem` which `import-key
--remove-source` has deleted for another org.

### TuiSession, FleetView, TuiPanels, TuiViews

The event loop handles one message at a time, so an action is one key or one
message with all it does (`onKey`, `Update`); commands, ticks and answers wait in
a bag and are delivered in any order. `TuiSession` has the gates in the order
`onKey` tests them, the pending operation, the modals and typed tokens, forms
that swallow messages, the worker's stream and the ticks. `FleetView` has the
lists as sets of rows with marks and a cursor, the org and text filters, and the
snapshot whose second tier fills in drift classes later. `Order` is every row there may
be, as `FleetFast` sorts them; the cursor is an index, as in the code, and the row under
it the one with as many shown rows before it (`Place`).

Marked rows are destroyed through the operation runner (`runPendingOp`); a single row, a
group and a restore go through `onConfirm` (`runOnConfirm`), which sets `m.loading` and
sends off a command (`Act`, `RunAct`) that answers later with an `actionMsg`. All views
share `m.loading`: it is set by whatever begins a load or a save (`Loads`), reset by the
answers of loads (`Loaded`), and left as it is by an `actionMsg` or a `groupSavedMsg` with
an error and by an open form, which takes every message and does nothing with it
(`LeftLoading`, `Swallow`, `SwallowTick`). `lost` is the history of what was dropped in
that way: "load" while `m.loading` stays set with nothing under way, "tick" while
auto-refresh is on with no tick to come. `FleetView` has one form for all ten, because they
take messages alike, and one message for the answers of the other tabs, because the lists
notice them alike.

`TuiPanels` has what each open panel holds and how late answers are matched with it;
`missed` is the history of a form that took what a Logs panel polls. `TuiViews` puts the two
beside each other. What they share is the event loop (a panel or an operation takes the
keys, a form the messages, an open panel holds auto-refresh back) and the steps of
`JointStep`: the picker's save sets `m.loading` and ends in an `actionMsg` (`savePicker`,
`endSave`), and a group's save may open the picker (`onGroupSavedMsgPicker`).

### WindowsScm and WindowsLane

`sc.exe` start, stop and delete return early: `svc` has pending states, `doomed`
is the SCM's mark for deletion, `penv` is the environment the process has read
as opposed to what the registry holds. A command is the sequence of its steps,
which a failing one ends or sends to the rollback. `WindowsLane` adds the
supervisor, which loops in one process, is cancelled wherever it is, and holds its
job in a job object only when the lane has limits. `tree` and `snap` say what the payload
and its snapshot hold: a recovery or a rollback brings back what was moved aside, which is
a torn tree when the host went down over an extraction and the next upgrade took what it
found for the prior payload (`recoverAgentSnapshot` drops the snapshot beside it). That is
the exception `UpgradeKeepsPayload` makes.

## 3. The runs

Nine passing runs (distinct states; one to a little over three minutes each with two workers):

| Run | Instance | What it asks |
|---|---|---|
| `lane` (271 000) | `MCLaneScenes`: one lane, 4 ids, in four scenes: all four commands with 2 faults; a reap with 3; no operator, 3 faults of all five kinds; a reap with 2 faults that leave GitHub's answers alone | `ReapSafe`, `OnlineHasAgent`, `DownWhileTornDown`; the refinement `OneCleanJob` of `JobLane`; `LeftoversAreSettled` (`OrphansBounded`, `ClearedOnlyWhenGone`, liveness `RecordedIsReaped`); liveness `LaneServes` |
| `upgrades` (1.25 million, up to symmetry) | `MCUpgrades`: a swap with three versions and 2 failing downloads, extractions or self-tests; and commands over two names, 3 ids of this host and one of another, 2 releases, one fault | `LeavesHealthyAgent` (`RolledBackIsRestored`, `InstalledIsHealthy`), `RunsWholeAgent`, the refinement `AtomicSwap` of `AtomicUpgrade`; `ManifestSound` (`ManifestAgrees`), `RecordedIdsAreOwn`, `GatesHold` (`NeverDowngrades`, `SwapsListedRunner`, `OthersNeverDeregistered`) |
| `endings` (503 000) | `MCEndings`: a session of three tabs with every kind of operation, form and panel, two messages in flight, in two scenes: without filters and without forms; and a swap with 3 faults of all seven kinds, kills included | `SessionSafe` (`TokensGiven`, `PreviewIsPending`, `OneWorkerOneReader`), `RunsAsAsked` (`CancelledNeverRuns`, `RunningIsKept`, `EventsAreRead`); `NeverLosesAgent` (`PriorSurvives`, `NothingLost`); liveness `WhatIsStartedEnds` (`OpEndsUndisturbed`, `AutoStaysArmed`, `UpgradeReturns`, `UpgradeCountsDown`) |
| `manager_tasks` (2.5 million, up to symmetry) | two goroutines, all six operations, 2 onboardings, one failing call | `FlagScoped` (`FlagIsOwn`, `FlagComesBack`), `ClientsCurrent`, `SomebodyMoves` |
| `host_passes` (1.2 million) | `MCHostPasses`: two orgs with a runner each or a foreign unit, ten conditions of the host, a lane, two commands of two generations, one event, one failing call | `StopsOnlyLateJobs`, `KeysSurvive`, `PassesDeliver` (`FixRepairs`, `PurgeIsComplete`), `PassesKeepOff` (`OrphansAreUnregistered`, `NewerIsLeftAlone`, `StaysInScope`) |
| `host_files` (2.2 million) | `MCHostFiles`: base, sub-ids, downloads, slot, lanes and dependency layer, each with two processes and its kills or mishaps | `LayoutServes` (`JobKeepsTree`, `MigratesInPlace`); `RangesDisjoint`, `GrantedIsKept`; `CachesAreWhole` (`FailsForAReason`, `MarkerMeansWhole`, `ImageIsWhole`); `EachJobAnew` (`CleanSlate`, `StaleMountsYield`), `LogsAgree` (`LogOfItsJob`, `RunIsRecorded`, `StoreAgrees`); `LanesAreKept` (`CreateAdds`, `RecreateKeepsParams`); `ProvisionAgrees` (`ProvisionedIsQuiet`, `QuietIsUsable`, `ScriptsSeePackages`, `RemediationClears`) |
| `config_dir` (787 000, up to symmetry) | `MCConfigDir`: a command and the terminal UI over three documents, 2 saves, one kill, failing save or newer srm; and two orgs of one App with one `.pem`, two passphrases, 2 moves of keys | `DocumentIsKept` (`AskedIsKept`, `NewerSurvives`); `StoreMatchesFile`, `KeysStayReachable` (`KeyResolves`, `RemovedKeyHasACopy`) |
| `tui_views` (755 000) | `MCTuiViews`: two orgs' rows, one text filter, one change of the fleet or failing audit, two commands beside the loop, one tick; two subjects, two groups, one failing call; in four parts (below) | `ViewsSound` (`LogIsOfSubject`, `PickerIsTrue`, `LoadIsUnderWay`, `TickIsUnderWay`, `FollowIsPolled`), `ActsOnWhatWasSeen` (`StrikesWhatWasSeen`, `CleanSaveKeepsAccess`); liveness `ViewsFollow` (`Converges`, `FollowPolls`) |
| `windows_services` (3.5 million, up to symmetry) | `MCWindowsLane`: a lane or a persistent runner, every elevated command, two registrations, 2 faults of nine kinds | `TreeSound` (`OneAgentInTree`), `CommandsDeliver` (`EnvReachesAgent`, `UpgradeKeepsPayload`, `RemovedIsGone`), the refinement `OneCleanJob` of `JobLane` |

A property with parts in parentheses is the conjunction of these named definitions,
each stated and explained beside it in its module. `ViewsSound` also has the type
invariants of its modules; those of the other modules are proved for every instance
(section 5) and not run again. `PROJECT.json` names a mutant for every property of a passing
run: the module's definition with a plausible bug, which breaks the property under the
same configuration.

**Parts and scenes.** Components that do not meet share a run: an MC module has a
variable (`part`, `side`) that is chosen at the start and never changes, and the
other components stay in one of their initial states. That costs no interleaving,
because there is none between them, and the state spaces add up instead of
multiplying. `MCLaneScenes` does the same with one module: a scene is an
`INSTANCE` of `EphemeralLane` with other `Kinds`, `Faults` and `MaxFaults`, and
properties that need a gentler environment name their scenes. The two scenes of `endings`
leave out that a filter and a form are open at the same time, which the proofs about
sessions do not. The four parts of `tui_views` are: the operator marks, filters and destroys
while one load or command is outstanding ("lists"); tabs, org filter, ticks, forms, and
questions without rows while two are ("refresh"); panels over lists that
have been loaded, with two calls outstanding ("panels"); and forms over a Logs panel or a
picker, with one ("forms"). The proofs have no parts.

**Why the bounds are enough.** A lane holds at most one id in its process and one
in `jit-id`; the ids beyond those are the orphans, of which each costs a fault, so
four ids cover every combination with three faults. A reap holds its listing for
as long as it likes, and an id it refers to is not handed out again, so a third id
lets the lane go through cycles beneath it. An upgrade loops over two directories
and needs one version before, one after, and one that does not stay up; three
faults let a recovery be killed itself, and the next one too. For the manifest two
names are what a swapped or lost row needs, one foreign id takes over either of
them, and two releases make an upgrade, a withdrawal and a rollback. Two commands
meet in every race of files, since each race is between two accesses; a third
process repeats one of the two roles. Three cycles let one be killed, the next
clean up and the third find what it left. In the terminal UI two messages in
flight are what an overtaking needs, and a third tab is needed for one that has no
list. One tick is what auto-refresh keeps; two arise by toggling it, and act alike.
Three documents have an isolated org, a shared one and an older schema;
two moves let an import overlap an edit, and two saves let a second one write what the
first was refused. One `.pem` for both orgs is the usual setup
(`docs/GITHUB_APP_SETUP.md:8-10`) and the harder one: with a file of its own an org only
loses the exception. On Windows two registrations let an agent
survive into the next cycle; two faults pair every kind with every other. Slots
go up to four because two callers can ask for two lanes each.

**Fairness.**
* `lane`: weak fairness of `StartCycle`, because srm writes units with
  Restart=always and StartLimitIntervalSec=0, and of the running cycle's step. That
  an agent waits for a job forever is allowed, and `LaneServes` asks only for the
  agent. Nothing is assumed of jobs, operators or reaps.
* `endings`: a running upgrade goes on (`UpgradeStep`); the event loop delivers
  the operation's messages and ticks (`OnOp`, `SwallowOp`, `OnTick`). Bubble Tea's
  runtime runs every command and delivers every message; the operator owes nothing.
* `tui_views`: the same of the commands that load, audit, act and poll and of their
  messages (`FleetFast`, `AuditHost`, `RunAct`, `logsCmd`, `endSave`; `onFleetMsg`,
  `onHostTierMsg`, `onTabMsg`, `onDoneMsg`, `onAutoTickMsg`, `onLogsMsg`,
  `onLogTickMsg`), none of which a form lets through; nothing makes an operator close
  one.
The other runs state no liveness; that operations of a process never wait for each
other in a circle is the invariant `SomebodyMoves`.

**Deadlock** is checked where a system goes on forever (`lane`, `upgrades`,
`manager_tasks`, `host_passes`). The other configurations set CHECK_DEADLOCK FALSE:
there the operator may quit, or the last command a bound allows has ended, and
nothing has to happen any more. `config_dir` also has a CONSTRAINT: what happens
after somebody wrote over the unseen is not explored, since no property of `OrgKeys`
says anything about it.

Three runs in which TLC finds a violation; each states what a comment says:

| Run | The code says | What happens |
|---|---|---|
| `reap_other_host` | `service/reconcile.go:304-308`: the reap's check excludes "another host's registrations - a false positive here would kill an in-flight CI job" | lanes are identified by slot number alone, and every host allocates the lowest free one: a reap on one host deletes what another host's lane has just minted. No fault is needed |
| `recover_torn_tree` | `runner/orchestrator.go:1270`: the recovery "makes the tree whole after an upgrade that crashed mid-swap" | after a kill during the extraction the directory exists but is torn; the recovery restores a snapshot only for a missing directory, and deletes the good one |
| `tui_gate` | `tui/root.go:1694-1696`: `runConfirmed` "runs the yes/no-confirmed action" | the list of archives arrives while another gate is open; picking one leaves `pendingOp` set, which has precedence, so the yes to "Restore config?" runs the operation asked about before |

## 4. Where code and words part

Further disagreements met while modelling, which have no run of their own. The
properties above state what the code does achieve; where one has an exception, it
is for a case in this list, and TLC finds the property violated without it.

Lanes
* *A destroy leaves a ghost.* `service/ephemeral.go:242-243`: deregister before the
  teardown "so it doesn't linger on GitHub as an offline ghost". The pending id is
  read while the unit still runs; a cycle that mints after that leaves a
  registration whose record the teardown wipes (hence `OrphansBounded` is asked, and
  proved as `OrphansCostTheirFaults`, where no command but a reap runs).
* *Two creates at once* take the same slot numbers, and the later one tears down
  the earlier one's lane ("ADDS lanes instead of clobbering",
  `service/ephemeral.go:182-186`).
* *A recreate that is cut short* after the wipe has lost the labels and the group,
  and its retry uses the defaults ("the SAME slot id, labels, and group", `:259-260`).
  A create that is cut short after it wrote `jit-params` leaves them to the next recreate
  from an old list.
* *An ignored error of `ClearJIT`* (`:367`). If clearing fails twice, or once after a
  crash, `jit-id` keeps the old id while a new one is minted, and a reap takes the new
  one for a ghost. The scenes with a reap leave the fault "clear" out, and the theorem
  `ReapIsSafe` names it as an assumption.
* *A failed DELETE at the start of a cycle* (`:366`). The id is cleared all the same,
  although the end of a cycle argues that this "would orphan the ghost" (`:416-421`).
* *A job cut off by a stop.* KillMode=mixed is meant to let a job finish
  (`runner/orchestrator.go:924-926`, `docs/EPHEMERAL.md`), but SIGTERM goes to srm,
  which has no handler and dies, and systemd then kills the group.

Upgrades and the manifest
* *The manifest race* (`service/state.go:186-188`: one seam for read-modify-write of
  `state.json`, commands "never concurrent with each other"). The pass bypasses the seam
  and holds its copy throughout (`service/upgrade.go:147`); a create meanwhile loses
  its record.
* *A rollback reported without a rollback.* A second rename of the snapshot that fails,
  or a start that fails on the way back, returns a plain error, not `ErrRunnerDown`
  (`runner/orchestrator.go:31-32`), and the caller reports "rolled back".
* *The busy re-check* (`service/upgrade.go:204`) leaves a window up to the stop.
* *`RecreateRunner`* resolves the download after it has destroyed the runner
  (`service/deploy.go:298`).

Manager
* *A preview turned into an uninstall.* `withDryRun` sets the flag in the config that is
  current; a `Reload` during the listing swaps in another, against
  `service/uninstall.go:245-246` ("without mutating anything").
* *Saves without a lock.* Of two `SaveConfig` at once the later write may carry the
  older config. A save during a preview writes `dryRun: true`, and the next reload turns
  it on for good, where `manager.go:54-58` promises that it is never left stuck on; a
  reload loses a `--dry-run` given on the command line.
* *A single destroy during a preview* reads the preview's flag and does nothing.
* *A failed onboarding* leaves new credentials in memory and a client of the old ones.

Reconcile, uninstall, host
* An orphan is removed without asking whether it is busy, since it has no row
  (`service/reconcile.go:419-421`); a create that overlaps a fix loses its job.
* A fix cannot mend a unit whose tree holds the id of a registration that is gone
  (another host or a create has taken the name): it restarts it, and it stays stuck.
* `RefreshUnit` writes the drop-in before a restart that may fail; later passes compare
  the file and call the unit healthy. `reconcile --fix` refreshes without `EnsureBase`.
* `deploy.go:464-469` says "deregister via srm reconcile", which never deletes a
  persistent registration. `printUninstallResult` counts the plan as removed.
* The drain gate takes an idle lane's recorded id for a job. After a failed DELETE a
  full purge leaves a lane without a tree that restarts for ever. A custom
  `installRoot` is removed wholly.
* After a switch of isolation, `EnsureBase` changes owners beneath running jobs
  (`deploy.go:380`), and units installed for an org's own user cannot reach their tree
  after switching back (`docs/CONFIGURATION.md:94`).
* `HostDrift` looks for inline script bodies as files (`core/types.go:89-90`), so doctor
  always misses them; `dpkg -s` shows removed packages that were not purged; a chown that
  failed after a seed's marker is never redone; a malformed seed fails `Seed` while
  `Drift` is silent.
* *Id ranges.* `/etc/subuid` and `/etc/subgid` are rewritten in place and without a lock
  (`runner/orchestrator.go:488`). Of two rewrites that overlap the later drops the other's
  block, and a kill between truncation and write drops them all (`GrantedIsKept` excepts
  both, by `raced`). When one process opens a file that another has truncated and is still
  to write, the lines of both may end up in it, with overlapping blocks, although the
  blocks are meant to separate the orgs (`RangesDisjoint` excepts that, by `torn`).

Configuration and keys
* `UpsertOrg` saves an org before its pasted key is stored, with no way back
  (`tui/root.go:2165`); `EncryptAppKey` persists a passphrase before it knows that it
  opens the store.
* Two imports at once lose one key, with `--remove-source` for ever. A shared `.pem`
  (`docs/GITHUB_APP_SETUP.md:9-10`) is deleted under the other org
  (`cli/config.go:117`). A terminal UI opened before an import writes the deleted path back.
  With one App for all orgs, the setup that document calls usual, this is what
  `--remove-source` does at the first import: the units of the other orgs find no key. The
  form takes a path without looking for the file (`setup/org.go:146`). `KeyResolves` excepts
  both.
* *A refused change is saved after all.* The wizards and `ApplyHostPolicy` and its like
  (`tui/root.go:2165`, `service/settings.go:40-43`, `:75-83`) change the config in memory
  before `StoreOrgKey` or `SaveConfig` may fail (`tui/lifecycle_wizards.go:56-61`). The
  terminal UI shows the error and keeps the change, and its next save, of whatever,
  writes it. `AskedIsKept` excepts those settings and orgs.
* On Windows the rename of `secrets.age` drops the read grant.
* `srm --dry-run config set` persists `dryRun: true`. Editing an org drops its user,
  limits and profile (`setup/org.go:178`). Colliding slugs make every command refuse to load
  what was saved unvalidated (`docs/CONFIGURATION.md:92-93`). The file is truncated in
  place; killed there, it loads as a config without orgs. A terminal UI already running
  overwrites a document of a newer schema.

Terminal UI
* A form that opens by itself swallows the events of a running operation, which then
  never ends on the screen (`tui/root.go:556`, `:262`, against `tui/op.go:14-19`).
* *Auto-refresh stops after a failure.* `onConfirm` sets `m.loading` (`tui/root.go:1707`),
  and so do the saves of a group, a runner, the retention and a picker (`:767`); when the
  command fails, `actionMsg` and `groupSavedMsg` show the error and leave the flag set
  (`:428-432`, `:485-489`). `idleForAuto` is then false at every tick, although nothing loads,
  until the operator reloads or changes to a tab that loads. A group saved with "selected"
  visibility opens its picker with the flag set too (`:491-494`). `LoadIsUnderWay` and
  `Converges` except these cases, and a form that took the answer or the tick (`:262-302`).
* Enter after a failed load of the repository picker saves the empty selection
  (`tui/repo_picker.go:18-20`).
* No marked row means all in scope (`tui/root.go:1570`).
* `tui/root.go:546` calls the polls of a followed log "serialized: no overlap". Pressing `f`
  off and on within the two seconds of a tick (`tui/root.go:686-692`), or following again in
  a panel opened while a tick is still to come, leaves two loops of polls. What holds is
  that there is at least one (`FollowIsPolled`).

Windows
* A stop cancels the reap at the start of a cycle, whose record is cleared all the
  same; a snapshot that fails at the second directory leaves a mixed payload; an agent
  runs outside its job object until it is assigned (`runner/jobobject.go:65`).

## 5. The proofs

| Module | Theorem | Holds for |
|---|---|---|
| `EphemeralLaneProofs` | `TypeCorrect`, `OnlineRegistrationsHaveAgents` | any lanes, hosts, ids, operators, faults |
| | `ReapIsSafe` | any fleet in which slot numbers identify lanes (`NamesIdentifyLanes`) and `ClearJIT` does not fail |
| | `TeardownIsQuiet` (`DownWhileTornDown`) | any fleet with one command at a time on a host (`OneCommandPerHost`) |
| | `LanesServeJobs`: every lane implements `JobLane` (`OneCleanJob`) | any lanes, hosts, ids, operators, faults |
| | `OrphansCostTheirFaults` (`OrphansBounded`) | any fleet with no command but a reap (`OnlyReaps`), any faults |
| | `RecordsOutliveGhosts` (`ClearsOnlyWhenGone`) | the same, when GitHub's answers come (`"api" \notin Faults`) |
| `UpgradesProofs` | `TypeCorrect`, `AgentIsNeverLost` | any versions, any faults, kills included |
| | `UpgradesReturn`: each step counts down (`UpgradeCountsDown`), from thirteen at most | the same |
| | `UpgradeLeavesHealthyAgent`, `UnitRunsWholeAgent`, `UpgradeIsAtomic` | any versions, when only download, extraction and self-test fail (`SwapFaultsOnly`) |
| | `ManifestTypeCorrect`, `RecordedIdsAreThisHosts`, `OthersKeepTheirNames` | any names, ids, releases, faults, any number of commands at once |
| | `ManifestTellsTheTruth` (`ManifestSound`), `GatesHoldAtTheSwap` (`GatesHold`) | the same, when commands follow one another (`OneAtATime`) |
| `HostPassesProofs` | `UnitsKeepTheirKind`, `StopsAreLate` (`StopsOnlyLateJobs`), `KeysSurvivePurges` (`KeysSurvive`), `PassesKeepOffOthers` (`PassesKeepOff`), `PassesDoTheirWork` (`PassesDeliver`) | any orgs, runners, lanes, commands at once, template generations, hosts in the ten conditions, events, faults |
| `HostFilesProofs` | `SubIdsDisjoint`, `GrantsAreKept` (`GrantedIsKept`) | any users, processes, width, well-formed files, kills |
| | `JobsStartAnew` (`EachJobAnew`), `StoreTellsTheTruth` (`LogsAgree`) | any number of cycles, failing steps, kills, prunes, changes of the DinD setting |
| | `LanesStayAsCreated` (`LanesAreKept`) | any processes, slots, parameters, commands, failures, kills; one or two lanes per create |
| | `ProvisionAgreesWithDoctor` (`ProvisionAgrees`) | any orgs, packages, manifests, passes, failing steps, kills, edits in between |
| | `CachesStayWhole` (`CachesAreWhole`) | any kind of artefact, any fetches at once, broken connections, full disks, kills |
| | `LayoutKeepsServing` (`LayoutServes`) | any orgs, runners, commands at once, failing steps, reboots, changes of the isolation mode |
| `ConfigDirProofs` | `KeysTypeCorrect`, `StoreAlwaysOpens` | any orgs, processes, passphrases, moves, kills |
| | `KeysAreKept` (`KeysStayReachable`) | the same, whether orgs share a `.pem` or not |
| | `DocumentAlwaysKept` (`DocumentIsKept`) | any documents, orgs, packages, processes, commands, failing saves, kills |
| `SessionProofs` | `TypeCorrect`, `FlagIsScoped`, `OperationsNeverDeadlock` (`SomebodyMoves`), `ClientsFollowTheConfig` (`ClientsCurrent`) | any goroutines, operations, edits, faults |
|  | `SessionStaysSafe` (`SessionSafe`), `SessionRunsAsAsked` (`RunsAsAsked`), `RefreshStaysArmed` (`AutoStaysArmed`) | any tabs, operations, forms, panels, answers in flight, events |
| `TuiViewsProofs` | `ViewsStaySound` (`ViewsSound`), `ViewsActOnWhatWasSeen` (`ActsOnWhatWasSeen`), `CursorsPointAtOneRow` | any rows, orgs, text filters, tabs, subjects, groups, repositories, any number of commands, answers and ticks outstanding, any events, forms open or not |
| `WindowsLaneProofs` | `TreeStaysSound` (`TreeSound`), `WindowsServesJobs`: a Windows lane implements `JobLane` (`OneCleanJob`) | any registrations, faults; with and without limits |
| | `CommandsAlwaysDeliver` (`CommandsDeliver`) | the same; what each part excepts is in the property |

The assumptions on constants (`LaneConstants`, `UpgradeConstants`, `ConfigConstants`,
`KeyConstants`, `DocumentsAssumption`, `HostConstants`, `ProvisionConstants`, ...) only say
that special values are not ordinary ones, that bounds are natural numbers, that the documents
a host may start with are documents, and that a host is found in one of the
conditions `Situations` lists, and that a row has one place in the order of the
snapshot (`FleetAssumption`). The stronger ones are assumptions of the
theorems that need them, and section 4 shows that they cannot be dropped.

The arguments:

* *Reap.* `ReapSafe` is not inductive: a reap reaches its deletion through three
  reads at different times. `LaneInv` says that a process holds ids of its own
  lane (`HoldsOwnIds`) and that past the record `jit-id` is the id the process
  runs with (`RecordIsCurrent`); `ReapInv` says that a reap looks at the lane that
  minted its row, and that once it has decided no cycle is, or will be, running
  that registration: only a mint makes one live, and it takes a new id.
  `RecordIsCurrent` is what a failing `ClearJIT` destroys.
* *Teardown.* `TornInv`: the command works on a lane of its own host, and from the disable
  on that lane has no process and no enabled unit. With two commands at once on a host one
  may enable what the other is wiping (section 4).
* *Clean jobs.* What `JobLane` calls ready and working is read off `pc`, the registration and
  `slate` (`Stage`). A step maps to one of `JobLane`'s or a stutter because an agent waits on
  a wiped slate (`WaitsClean`), and a command that stops a unit works on a lane
  (`CommandsHaveLanes`).
* *Orphans.* `Lost` are the registrations that are neither in their lane's record nor in its
  process, so that nobody is going to settle them. `LeftInv` relates record and process at
  every step of a cycle (`CycleKnows`); with it a step that loses a registration is a fault
  and loses no other (`LosesForFault`), so there are no more of them than faults. What a
  process is about to clear or overwrite is gone from GitHub (`Settled`).
* *Upgrade.* `KeptInv`: each directory's prior payload is live, in its snapshot, or
  still in place. `PlacedInv` says what the steps need to keep that: a snapshot has
  emptied each directory the loop has been through, and from the extraction on what is
  live is what the upgrade put there, so no removal takes the last copy. `SwapInv` gives for every step where both directories are
  relative to the loop index; the abstract runner of `AtomicUpgrade` is then read
  off the concrete state, and only the discard changes it. The countdown of `UpgradesReturn`
  needs that only the four loops over the directories are ever at the second one
  (`LoopsOnly`); each leaf is then about two numbers.
* *Manifest.* `ManifestInv`: every copy of the manifest, and every id a command carries to
  a record, is of this host (`OwnIdsOnly`), since both come from `.runner` or from a record;
  so a destroy, which deletes by such an id, takes no other host's registration.
  With one command at a time (`MovesAlone`: the others are idle) `ManifestTruth` adds what
  the command at work knows: the manifest fits the host but for the names in `missed` and
  the one it is at (`DiskFits`), so does the copy a pass works on (`PassFits`), a tree has
  the registration of its name unless another host took that over (`TreesOwnNames`), and
  what the gates of a row have established holds up to the swap (`GatesKnow`).
* *Clients and locks.* `StaleIsExplained`: a cached client is stale only while the wizard is
  between its swap and the reload that drops it, or after an editor that never got there;
  it needs that any other editor's copy has the current credentials (`SwapKeepsCreds`).
  `MutexInv` says at which steps `dryMu` and `mu` are held: the holder of `mu` waits for
  nothing, and the holder of `dryMu` for `mu` at most.
* *Flag.* `FlagInv`: tasks are at steps of their own kind (`KindsFit`), `mixed`
  tells the truth (`ApartUnlessMixed`), `dryMu` is held exactly inside a scope
  (`LockHeld`), and unless something has mixed, no copy of the config anywhere,
  file and saved flags included, has the flag set except the current one inside a
  preview (`FlagAtRest`). Without the last part a save or reload after a preview
  could bring the flag back.
* *Ranges.* `RangesDisjoint` says nothing about the stale copies processes hold.
  `SubInv` adds `Plans`: who is about to write holds disjoint blocks and a place past
  all of them, and a truncated file stays empty until its one writer has written. A new
  block past every other overlaps none (`AppendDisjoint`). For
  `GrantsAreKept`, `BlocksInv` says that a granted block is in its file, or in the copy of the
  process that has truncated it (`HasBlock`).
* *Passes.* The commands of a host are proved about one by one. `FrameFor` says of every
  action that a command other than the acting one keeps its own variables, and that what
  changes about a runner or lane enters its `moved`; so an invariant of one command that
  excepts `moved` needs its own steps only. `PassInv` is that invariant: rows and classes are
  true of what has not moved (`RowsAreCurrent`, `ClassesAreCurrent`), what is restarted was
  listed idle (`RestartsIdle`), the plan stays in scope (`PlanInScope`), past the gate no
  job is old (`GateHolds`). `Delivers` follows each runner through a pass: to be judged,
  judged, half repaired, repaired; and each planned thing of an uninstall until it is gone.
* *Slot.* `SlotInv`: what a cycle has still to wipe is on its list (`SlotClean`); the log in
  `_diag` and the one that was found are the job's (`SlotLogs`); a prune lists only runs of
  cycles that are over, so it never meets the run being written (`SlotRuns`).
* *Lanes.* `LaneInv`: a command that has met no other runs alone (`RunsAlone`), a create
  holds exactly as many numbers as asked for, with none free below them (`CreateHolds`; that
  the lowest exist is `LowestExist`), and parameters differ from those of the last create
  only while a command rebuilds the slot (`ParamsHold`).
* *Dependency layer.* `ProvInv`: while nobody has edited config or host since it began, a
  pass has brought in the packages, scripts and seeds of its manifest but those it still has
  to do (`PackagesIn`, `ScriptsIn`, `SeedsIn`); and a marked seed is its cache's user's,
  unless a pass was cut short between the marker and the chown (`SeedsOwned`); without a package
  manager a pass gets past its packages only with none to install (`Unmanaged`).
* *Downloads.* `DlInv`: who has met no trouble is alone (`HurtTells`), and so knows what is in
  the file it has open and under the name it is about to rename or unpack (`Assured`); no
  inode has two names (`NamesApart`), and there is a new one for whoever is to create one,
  since every fetch takes one at most (`InodesLast`, by counting). Images and seeds need no
  such condition: each lane writes a file of its own (`ImagesApart`), a seed's directory
  only grows (`SeedsGrow`).
* *Layout.* `BaseInv`: until the mode changes the tree is in one layout (`OneMode`). A command
  finds what it has ensured as long as nobody has worked in the other mode
  (`EnsuredHolds`), because what other commands of its own mode do keeps every tree and cache of
  that mode (`KeepsMode`); with what it reports, that is what `fresh` needs (`FreshIsServed`).
* *Store.* `KeysInv` speaks of each process: one that moves a key works on an org
  (`MovesAnOrg`), has a passphrase, and once past persisting there is one in the file
  (`HasPhrase`); one that is about to persist has seen that there is none
  (`PersistsFirst`). So `secrets.pass` changes only while there is no store and nobody
  encrypts, or by a process that writes over what it has not seen; and who is about to
  rename a store uses what the file holds (`EncryptsWithFile`). `KeptInv` adds, for
  `KeysAreKept`, that config.yaml names each key where it is, but for the orgs in `astray`
  and `unstored` (`FileIsTrue`), that so does
  every config a process holds that is as recent as the file (`ConfigIsTrue`), and that an
  import has stored its key and cleared its path before it removes the file
  (`ImportIsStored`, `PathIsCleared`).
* *Document.* `DocInv`: a process that has seen the file's latest content holds what was
  asked for but for the fields of refused changes (`held`), or is about to write what its
  command adds to it, which is in the command's own fields (`HoldsTheAsked`); so a save that
  fails adds just these to `held`, and one that succeeds adds `held` to `spilled`. `Agree`
  compares two documents and leaves out what the edit form of an org forgets, and such
  fields. The file agrees
  because it is written from such a process or leaves a trace in `unseen`. Each command has
  one lemma: it takes documents that agree to documents that agree (`PolicyAgrees`,
  `LimitsAgree`, `ProfilesAgree`, ...). No process holds a newer srm's document or has seen the
  one in the file (`KnowsNoNewer`). Whoever reads while another writes has not seen the file:
  `AskedIsKept` would be false without that.
* *Session.* `SessionInv` relates the record of the gates to the overlays on the screen. The
  tokens typed and those still due make up what the pending operation demands, and the
  typed gate, where no plan covers it, asks for just that operation (`TokensAddUp`): a plan
  that arrives over a typed gate replaces what is pending, and cancelling it leaves nothing
  to run. Operations of plans, of yes/no modals and of single commands are different ones
  (`GatesFit`), so what was cancelled last is in no gate (`DroppedRests`); a running
  operation is above every gate (`FocusTells`), so no key reaches one, nor a list. The
  command that reads its next event is taken by its own handler, which sends the next, or
  by a runner form (`ReaderStays`).
* *Views.* Commands and answers are a bag, of which the proofs need only how often a message
  is in it (`PostedBag`, `AnsweredBag`). A filter, a load and a change of the org filter
  replace the rows under a cursor that stays where it is: it was at a row, or before a list
  that was empty, and clamping fits it to whatever comes (`ClampedFits`). So just one row is
  under it, unless the list is empty: the places of n rows are the numbers below n
  (`PlacesAreTaken`, by counting). Targets are rows that were listed when the operation was
  asked about, and stay as they are however often the lists change beneath them until it ends.
  `LogIsOfSubject` needs that a captured log is closed with its panel, and that an answer is
  taken only for the subject it carries (`Wanted`). `PickerIsTrue` speaks of a session in
  which no call has failed and no picker was opened over an earlier one's load or save
  (`calm`): one call of a picker is outstanding at most (`OneOutstanding`); while it waits,
  that is the load of its own group (`LoadOfPicker`, `PickerWaits`); it then lacks only what
  the operator took out (`PickerShows`), because nothing but a save changes the access; and
  so does the save (`SaveKeeps`). Each step begins a command that is waited for, answers one,
  or leaves bag and flag alone (`ReadsMove`). An answer that was waited for resets
  `m.loading`, begins another such command, or leaves the flag set and says so in `lost`; so
  while `lost` is empty what shows itself loading is loading (`LoadsKept`, `LoadingKept`;
  the picker's save is in the panels' bag until it becomes an `actionMsg`, `SavesStay`). A
  tick and a poll are handled by what sends the next, unless a form takes them
  (`TicksKept`, `PollsKept`). That a form swallows the events of an operation is in
  `TuiSession`.
* *Windows.* `TreeInv`: an agent is spawned in a tree that has none (`SpawnsAlone`), because
  the wipe fails on a survivor's files; until then its registration is offline and the slate
  clean (`SpawnsAnew`), so it comes online on a clean one. A step that spawns no agent,
  connects none and gives none a job is `Quiet`: it can only end a job or a registration,
  which is `JobLane`'s leave or a stutter (`QuietServes`), and all other steps are the four
  that `AgentKept` and `SpawnKept` are about.
* *Windows commands.* A command is a sequence, so `DeliverInv` says of each command that
  `todo` is the rest of its plan from some step on (`From`), and what holds at that step:
  `CreateAt`, `RefreshAt`, `RemoveAt`, `UpgradeAt`, `SwapAt`, `RollbackAt`, `DestroyAt`. The
  lemmas about sequences (`PlanStep`, `Plans`, `Requested`) turn a step of the rest into the
  next position, and one lemma per plan (`CreateMoves`, ...) proves that what holds at a step
  leads to what holds at the next one. A service that is there has a payload, in its tree or
  moved aside by an upgrade that will put it back (`HasPayload`). What the SCM and the
  processes do meanwhile is `Beside` for a runner and `Apart` for a lane: neither revives a
  service that is gone or starts one that was stopped.

Only model-checked: liveness, which is out of the prover's reach: that a recorded
registration is reaped (`RecordedIsReaped`, the third part of `LeftoversAreSettled`, whose two
others are proved), `LaneServes`, `WhatIsStartedEnds` and `ViewsFollow`. What the last two rest on is safety, and
proved: an upgrade counts down (`UpgradesReturn`), auto-refresh stays armed
(`RefreshStaysArmed`), a running operation has its reader (`EventsAreRead`), a load, a tick
and a poll stay under way (`LoadIsUnderWay`, `TickIsUnderWay`, `FollowIsPolled`). Every other property
of a passing run is the statement of a theorem; those that a hypothesis of the theorem
restricts to gentler environments are checked in the same ones. That no more than `MaxFlight`
messages are in flight is a bound of the model, no part of the session's type invariant. Two
lanes of one host under reaps, and three or more commands at once on a host, are covered by
the proofs only.

## 6. Not modelled

Rendering, layout, mouse and scrolling of the terminal UI; flags, prompts and printed
tables of the command line; logging; the formats of archives, `.env` and unit files;
cryptography, and ACLs, accounts and rights on Windows; GitHub's REST details
(pagination, tokens, permissions) and the single calls behind groups and runs. They
keep no state whose order matters, or are plain I/O. `BulkDelete` sends one call per id
and stores each answer in a place of its own, so its interleavings cannot be told apart.
Within modelled components the following is left out: `--to-version`, version pins and
`--force --rollback` (they refuse or combine what is there); drift classes of ephemeral
units (read and refreshed like persistent ones); the join of the two snapshot tiers by
org and name; the settings, groups and health tabs' own keys; in the views the create
wizard, plans and the restore picker (they are in `TuiSession`), and a picker that a saved
group opens behind another panel; cache pruning; the
environment and mirror options of the DinD daemon; the limits the kernel enforces for a
job object.

## 7. The plan

Done: the modules of section 2, in this order: lanes, agent upgrade, manifest, manager,
host passes, host files, terminal UI, Windows, config directory.

Every safety property of section 3 is proved. What is left with TLC is the liveness listed at
the end of section 5.

What is left to model: the join of the two snapshot tiers by org and name without the
kind, the drift classes of ephemeral units, `BulkDelete` with the two panels that show
its answers, and the DinD daemon's mirror options.
