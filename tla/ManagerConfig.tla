---------------------------- MODULE ManagerConfig ----------------------------
(***************************************************************************)
(* The configuration that all operations of one srm process share.         *)
(*                                                                         *)
(* The terminal UI runs every operation as a goroutine over one Manager:   *)
(* previews and applies of an uninstall, destroys of single runners,       *)
(* saving the settings, the onboard wizard, restoring a backup.  They      *)
(* share the config m.cfg points to, its file, the cached GitHub clients   *)
(* and the dry-run flag, which is a field of that config.  Two mutexes     *)
(* guard them: dryMu serialises the scopes of withDryRun, mu the swaps of  *)
(* the config and the client cache; neither guards the flag against a      *)
(* swap, nor the file.                                                     *)
(***************************************************************************)
EXTENDS Integers

CONSTANTS
  Tasks,     \* goroutines; each may run one operation after another
  NoTask,    \* a free mutex
  NoClient,  \* no cached client
  Kinds,     \* the operations tasks run
  MaxEdits,  \* how many edits of the config one behaviour contains
  MaxFaults  \* how many failing saves, key stores and reloads

Scopes  == {"preview", "apply"}                  \* they run under withDryRun
Editors == {"settings", "onboard", "restore"}    \* they change the config

ASSUME ConfigConstants ==
  /\ NoTask \notin Tasks
  /\ Kinds \subseteq Scopes \cup Editors \cup {"destroy"}
  /\ MaxEdits \in Nat /\ MaxFaults \in Nat

\* A config, as far as it matters: an org's credentials, named by the edit that
\* wrote them, and the dry-run flag.
Configs == [creds : 0..MaxEdits, dry : BOOLEAN]
First   == [creds |-> 0, dry |-> FALSE]

VARIABLES
  mem,      \* what m.cfg points to
  file,     \* the config file
  sec,      \* the edit that wrote the App key in the secrets store
  client,   \* the credentials and key the org's cached client was built from
  dryMu, mu,
  prev,     \* the flag a task's withDryRun has saved
  copy,     \* the config a task has copied, marshalled or loaded
  kind, pc,
  edit,     \* the number of the edit a task makes
  host,     \* the artifacts srm has on this host
  edits, faults,
  mixed,    \* history: have a withDryRun scope and an editor overlapped?
  unsaved   \* history: has an editor failed half way since the last reload?

vars == <<mem, file, sec, client, dryMu, mu, prev, copy, kind, pc, edit, host,
          edits, faults, mixed, unsaved>>

Artifacts == {"runner", "base"}
ScopePcs  == {"gate", "drain", "teardown", "deregister", "purge", "unlock"}
Pcs == ScopePcs \cup
  {"idle", "lock", "command", "commandDelete", "saveCaps", "writeCaps", "copy",
   "swap", "storeKey", "save", "write", "extract", "load", "reload"}

\* The shared config, its file, the clients and every goroutine (Manager) have
\* values of their kind.
TypeOK ==
  /\ mem \in Configs /\ file \in Configs
  /\ sec \in 0..MaxEdits
  /\ client \in ((0..MaxEdits) \X (0..MaxEdits)) \cup {NoClient}
  /\ dryMu \in Tasks \cup {NoTask} /\ mu \in Tasks \cup {NoTask}
  /\ prev \in [Tasks -> BOOLEAN]
  /\ copy \in [Tasks -> Configs]
  /\ kind \in [Tasks -> Kinds \cup {"none"}]
  /\ pc   \in [Tasks -> Pcs]
  /\ edit \in [Tasks -> 0..MaxEdits]
  /\ host \in SUBSET Artifacts
  /\ edits \in 0..MaxEdits /\ faults \in 0..MaxFaults
  /\ mixed \in BOOLEAN /\ unsaved \in BOOLEAN

-----------------------------------------------------------------------------
At(t, step)   == pc[t] = step
Goto(t, step) == pc' = [pc EXCEPT ![t] = step] /\ UNCHANGED <<kind, edit>>

\* The goroutine ends.
Done(t) ==
  /\ pc'   = [pc EXCEPT ![t] = "idle"]
  /\ kind' = [kind EXCEPT ![t] = "none"]
  /\ edit' = [edit EXCEPT ![t] = 0]

\* The task has no use for its copy of a config any more.
Forget(t) == copy' = [copy EXCEPT ![t] = First]

taskVars    == <<edits, mixed>>
editorVars  == <<file, sec, copy, faults, unsaved>>
scopeVars   == <<dryMu, prev, host>>

\* The task fails here.  What an editor has changed in memory stays.
Fails(t) ==
  /\ faults < MaxFaults /\ faults' = faults + 1
  /\ unsaved' = TRUE
  /\ Done(t)

\* client: the org's cached client, or one built from the config and the key.
UsesClient ==
  /\ mu = NoTask
  /\ client' = IF client = NoClient THEN <<mem.creds, sec>> ELSE client

FirstStep(k) ==
  CASE k \in Scopes   -> "lock"
    [] k = "destroy"  -> "command"
    [] k = "settings" -> "saveCaps"
    [] k = "onboard"  -> "copy"
    [] k = "restore"  -> "extract"

\* The user starts an operation from a screen.  While an apply runs its panel
\* takes all keys; a preview, a save, a restore or a single destroy only sets the
\* loading flag, which keeps nobody from starting the next operation.
Begin(t) ==
  /\ At(t, "idle")
  /\ \A u \in Tasks : kind[u] # "apply"
  /\ \E k \in Kinds :
       /\ kind' = [kind EXCEPT ![t] = k]
       /\ pc'   = [pc EXCEPT ![t] = FirstStep(k)]
       /\ IF k = "onboard"
          THEN edits < MaxEdits /\ edits' = edits + 1 /\ edit' = [edit EXCEPT ![t] = edits']
          ELSE UNCHANGED <<edits, edit>>
       /\ mixed' = (mixed \/ \E u \in Tasks \ {t} :
                      \/ k \in Scopes  /\ kind[u] \in Editors
                      \/ k \in Editors /\ kind[u] \in Scopes)
  /\ UNCHANGED <<mem, client, mu, editorVars, scopeVars>>

-----------------------------------------------------------------------------
(* Previews and applies: Uninstall under withDryRun *)

\* Mutant: the mutex is not taken.
LockNothing(t) ==
  /\ At(t, "lock")
  /\ dryMu' = t
  /\ prev'  = [prev EXCEPT ![t] = mem.dry]
  /\ mem'   = [mem EXCEPT !.dry = (kind[t] = "preview")]
  /\ Goto(t, "gate")
  /\ UNCHANGED <<client, mu, host, editorVars, taskVars>>

\* Mutant: mu is taken as well.
LockMu(t) ==
  /\ At(t, "lock") /\ mu = NoTask /\ dryMu = NoTask
  /\ dryMu' = t /\ mu' = t
  /\ prev'  = [prev EXCEPT ![t] = mem.dry]
  /\ mem'   = [mem EXCEPT !.dry = (kind[t] = "preview")]
  /\ Goto(t, "gate")
  /\ UNCHANGED <<client, host, editorVars, taskVars>>

\* withDryRun: lock, save the flag, set it.
Lock(t) ==
  /\ At(t, "lock") /\ dryMu = NoTask
  /\ dryMu' = t
  /\ prev'  = [prev EXCEPT ![t] = mem.dry]
  /\ mem'   = [mem EXCEPT !.dry = (kind[t] = "preview")]
  /\ Goto(t, "gate")
  /\ UNCHANGED <<client, mu, host, editorVars, taskVars>>

\* The units have been listed and the report made (or the listing failed): the
\* flag decides whether that was all.
Gate(t) ==
  /\ At(t, "gate")
  /\ \/ Goto(t, "unlock")
     \/ ~mem.dry /\ Goto(t, "drain")
  /\ UNCHANGED <<mem, client, mu, editorVars, scopeVars, taskVars>>

\* The drain gate asks GitHub, unless forced, and may refuse.
DrainGate(t) ==
  /\ At(t, "drain")
  /\ UsesClient \/ UNCHANGED client
  /\ Goto(t, "teardown") \/ Goto(t, "unlock")
  /\ UNCHANGED <<mem, mu, editorVars, scopeVars, taskVars>>

\* DestroyRunner of every runner in scope; it reads the flag anew.
Teardown(t) ==
  /\ At(t, "teardown")
  /\ IF mem.dry
     THEN Goto(t, "purge") /\ UNCHANGED host
     ELSE Goto(t, "deregister") /\ host' = host \ {"runner"}
  /\ UNCHANGED <<mem, client, mu, dryMu, prev, editorVars, taskVars>>

Deregister(t) ==
  /\ At(t, "deregister")
  /\ UsesClient
  /\ Goto(t, "purge")
  /\ UNCHANGED <<mem, mu, editorVars, scopeVars, taskVars>>

\* PurgeBase: users, caches, install roots.
PurgeBase(t) ==
  /\ At(t, "purge")
  /\ host' = host \ {"base"}
  /\ Goto(t, "unlock")
  /\ UNCHANGED <<mem, client, mu, dryMu, prev, editorVars, taskVars>>

\* The deferred restore writes the saved flag into whatever config is current.
Unlock(t) ==
  /\ At(t, "unlock")
  /\ mem'   = [mem EXCEPT !.dry = prev[t]]
  /\ dryMu' = NoTask
  /\ prev'  = [prev EXCEPT ![t] = FALSE]
  /\ Done(t)
  /\ UNCHANGED <<client, mu, host, editorVars, taskVars>>

ScopeStep(t) ==
  Lock(t) \/ Gate(t) \/ DrainGate(t) \/ Teardown(t) \/ Deregister(t) \/ PurgeBase(t) \/ Unlock(t)

-----------------------------------------------------------------------------
(* A destroy from the runners screen: it runs under no scope *)

DestroyRunner(t) ==
  /\ At(t, "command")
  /\ IF mem.dry
     THEN Done(t) /\ UNCHANGED host
     ELSE Goto(t, "commandDelete") /\ host' = host \ {"runner"}
  /\ UNCHANGED <<mem, client, mu, dryMu, prev, editorVars, taskVars>>

DeleteRunner(t) ==
  /\ At(t, "commandDelete")
  /\ UsesClient
  /\ Done(t)
  /\ UNCHANGED <<mem, mu, editorVars, scopeVars, taskVars>>

-----------------------------------------------------------------------------
(* Saving the settings.  ApplyResourceSettings sets the capacity fields of *)
(* the current config, which this module does not hold, and saves; then    *)
(* ApplyHostPolicy swaps in a copy, and saves.                             *)

\* SaveConfig marshals the current config, the flag with it, and then writes.
Marshal(t) ==
  /\ mu = NoTask
  /\ \/ At(t, "saveCaps") /\ Goto(t, "writeCaps")
     \/ At(t, "save") /\ Goto(t, "write")
  /\ copy' = [copy EXCEPT ![t] = mem]
  /\ UNCHANGED <<mem, file, sec, client, mu, faults, unsaved, scopeVars, taskVars>>

\* The config directory cannot be made: SaveConfig fails without a write.
SaveFails(t) ==
  /\ At(t, "saveCaps") \/ At(t, "save")
  /\ Fails(t)
  /\ UNCHANGED <<mem, file, sec, client, mu, copy, scopeVars, taskVars>>

WriteFile(t) ==
  /\ \/ At(t, "writeCaps") /\ Goto(t, "copy")
     \/ At(t, "write") /\ kind[t] = "settings" /\ Done(t)
     \/ At(t, "write") /\ kind[t] = "onboard" /\ Goto(t, "load")
  /\ file' = copy[t] /\ Forget(t)
  /\ UNCHANGED <<mem, sec, client, mu, faults, unsaved, scopeVars, taskVars>>

-----------------------------------------------------------------------------
(* Copy and swap, the onboard wizard, restoring a backup *)

\* ApplyHostPolicy and UpsertOrg copy the config under mu ...
CopyConfig(t) ==
  /\ At(t, "copy") /\ mu = NoTask
  /\ mu' = t
  /\ copy' = [copy EXCEPT ![t] =
       IF kind[t] = "onboard" THEN [mem EXCEPT !.creds = edit[t]] ELSE mem]
  /\ Goto(t, "swap")
  /\ UNCHANGED <<mem, file, sec, client, faults, unsaved, scopeVars, taskVars>>

\* ... and swap the copy in.  A flag set or restored in between is lost.
SwapConfig(t) ==
  /\ At(t, "swap")
  /\ mem' = copy[t] /\ Forget(t)
  /\ mu'  = NoTask
  /\ \/ Goto(t, "save")
     \/ kind[t] = "onboard" /\ Goto(t, "storeKey")   \* a pasted key
  /\ UNCHANGED <<file, sec, client, faults, unsaved, scopeVars, taskVars>>

\* StoreOrgKey: the key goes to the secrets store, cached clients are dropped.
StoreOrgKey(t) ==
  /\ At(t, "storeKey")
  /\ \/ /\ mu = NoTask
        /\ sec' = edit[t] /\ client' = NoClient
        /\ Goto(t, "save")
        /\ UNCHANGED <<faults, unsaved>>
     \/ Fails(t) /\ UNCHANGED <<sec, client>>
  /\ UNCHANGED <<mem, file, mu, copy, scopeVars, taskVars>>

\* RestoreConfigDir unpacks an old backup, file by file; a damaged archive or a
\* full disk ends it before or after the config.
ExtractBackup(t) ==
  /\ At(t, "extract")
  /\ \/ Goto(t, "load") /\ file' = First /\ UNCHANGED <<faults, unsaved>>
     \/ Fails(t) /\ file' \in {file, First}
  /\ UNCHANGED <<mem, sec, client, mu, copy, scopeVars, taskVars>>

\* Reload reads the file ...
Load(t) ==
  /\ At(t, "load")
  /\ \/ Goto(t, "reload") /\ copy' = [copy EXCEPT ![t] = file] /\ UNCHANGED <<faults, unsaved>>
     \/ Fails(t) /\ UNCHANGED copy
  /\ UNCHANGED <<mem, file, sec, client, mu, scopeVars, taskVars>>

\* Mutant: the cached clients are kept.
ReloadKeepsClients(t) ==
  /\ At(t, "reload") /\ mu = NoTask
  /\ mem' = copy[t] /\ Forget(t) /\ UNCHANGED client
  /\ unsaved' = FALSE
  /\ Done(t)
  /\ UNCHANGED <<file, sec, mu, faults, scopeVars, taskVars>>

\* ... swaps it in and drops the cached clients.
Reload(t) ==
  /\ At(t, "reload") /\ mu = NoTask
  /\ mem' = copy[t] /\ Forget(t) /\ client' = NoClient
  /\ unsaved' = FALSE
  /\ Done(t)
  /\ UNCHANGED <<file, sec, mu, faults, scopeVars, taskVars>>

EditorStep(t) ==
  \/ Marshal(t) \/ SaveFails(t) \/ WriteFile(t) \/ CopyConfig(t)
  \/ SwapConfig(t) \/ StoreOrgKey(t) \/ ExtractBackup(t) \/ Load(t) \/ Reload(t)

-----------------------------------------------------------------------------
\* A screen lists an org's runners: on a timer, when the user switches to it, and
\* when the wizard has reloaded and tries the new credentials.
ListRunners ==
  /\ UsesClient
  /\ UNCHANGED <<mem, mu, kind, pc, edit, editorVars, scopeVars, taskVars>>

\* Runners are created again on a host that has been cleaned.
Reinstall ==
  /\ \A t \in Tasks : At(t, "idle")
  /\ host # Artifacts /\ host' = Artifacts
  /\ UNCHANGED <<mem, client, mu, dryMu, prev, kind, pc, edit, editorVars, taskVars>>

\* An srm process that was not started with --dry-run.
Init ==
  /\ mem = First /\ file = First
  /\ sec = 0 /\ client = NoClient
  /\ dryMu = NoTask /\ mu = NoTask
  /\ prev = [t \in Tasks |-> FALSE]
  /\ copy = [t \in Tasks |-> First]
  /\ kind = [t \in Tasks |-> "none"] /\ pc = [t \in Tasks |-> "idle"]
  /\ edit = [t \in Tasks |-> 0]
  /\ host = Artifacts
  /\ edits = 0 /\ faults = 0
  /\ mixed = FALSE /\ unsaved = FALSE

TaskStep(t) == ScopeStep(t) \/ DestroyRunner(t) \/ DeleteRunner(t) \/ EditorStep(t)

Next == ListRunners \/ Reinstall \/ \E t \in Tasks : Begin(t) \/ TaskStep(t)

Spec == Init /\ [][Next]_vars

-----------------------------------------------------------------------------
(* Properties *)

\* withDryRun: "two overlapping preview/apply goroutines can't interleave".
\* While no editor has overlapped a scope, a preview reads the flag set and an
\* apply reads it cleared, at each of the places where Uninstall reads it.
FlagIsOwn ==
  \A t \in Tasks :
    pc[t] \in ScopePcs /\ ~mixed => mem.dry = (kind[t] = "preview")

\* withDryRun: "the flag can never be left stuck on by an interleaving".
\* Outside all scopes it is off, as long as no editor has overlapped one.
FlagComesBack == dryMu = NoTask /\ ~mixed => ~mem.dry

\* The dry-run flag belongs to the one scope that set it (withDryRun).
FlagScoped == FlagIsOwn /\ FlagComesBack

\* Reload: "dropping every cached GitHub client (credentials may have
\* changed)".  When no editor runs and none has failed half way, a cached
\* client was built from the credentials and the key that are current.
ClientsCurrent ==
  (\A t \in Tasks : kind[t] \notin Editors) /\ ~unsaved =>
     client \in {NoClient, <<mem.creds, sec>>}

\* The operations that wait for a mutex another one holds.
Waits(t) ==
  \/ At(t, "lock") /\ dryMu # NoTask
  \/ pc[t] \in {"deregister", "commandDelete", "saveCaps", "save", "copy", "reload"}
     /\ mu # NoTask

\* "Kept separate from mu to avoid a deadlock when the wrapped op acquires mu
\* via client()": operations never wait for each other all together.
SomebodyMoves ==
  (\E t \in Tasks : kind[t] # "none") =>
     \E t \in Tasks : kind[t] # "none" /\ ~Waits(t)
=============================================================================
