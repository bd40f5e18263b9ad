------------------------------ MODULE SlotJob -------------------------------
(***************************************************************************)
(* What one cycle of a Linux ephemeral lane leaves on disk for the next.   *)
(* RunJob wipes the slot's mutable directories as root, brings up a        *)
(* rootless Docker daemon when docker.rootlessDinD is on, seeds its        *)
(* builder, runs the one job and stops the daemon; RunCycle then copies    *)
(* the job's log into the store, from which a prune removes old runs.  The *)
(* unit may be killed anywhere (KillMode=mixed takes the daemon along) and *)
(* comes back; the config may change between two cycles.                   *)
(*                                                                         *)
(* A directory holds what job it was, 0 if it is empty or absent.          *)
(***************************************************************************)
EXTENDS Integers, Sequences, FiniteSets

CONSTANTS MaxCycles, MaxToggles, MaxHarms, MaxPrunes

ASSUME SlotConstants ==
  /\ MaxCycles \in Nat /\ MaxToggles \in Nat /\ MaxHarms \in Nat /\ MaxPrunes \in Nat

Cycles == 1..MaxCycles
Jobs   == 0..MaxCycles
Dirs   == {"work", "diag", "home", "creds", "data"}

VARIABLES
  rootlessDinD,  \* docker.rootlessDinD in the config file
  cyc,           \* the cycle, or the last one
  pc,            \* where it is
  dind,          \* the setting this cycle's process has read
  left,          \* the directories it still has to wipe, in order
  disk,          \* whose a directory's content is
  mounted,       \* the daemon's mounts lie under the data root
  daemon,        \* the cycle of the daemon that lives, else 0
  sock,          \* the cycle that made the runtime directory with the socket
  builder,       \* the cycle whose builder the client config names, else 0
  env,           \* what the job is given: DOCKER_HOST, BUILDX_BUILDER
  src,           \* whose log the capture has found, 0 if none
  folder,        \* the slot's directory in the store
  log, meta,     \* per run: whose log was copied; the sidecar
  sweep,         \* the prune: the runs it has listed, and where it is
  hurt,          \* history: cycles some step of which failed, or that were killed
  soiled,        \* history: cycles that failed before they had wiped _diag
  recorded,      \* history: runs joblog.Write has returned for
  pruned,        \* history: runs a prune has taken
  swept,         \* history: the folder went while a run was being written
  cut,           \* history: a prune was killed
  toggles, harms, prunes

diskVars  == <<disk, mounted>>
dindVars  == <<daemon, sock, builder, env>>
storeVars == <<src, folder, log, meta>>
histVars  == <<hurt, soiled, recorded, pruned, swept, cut>>
slotVars  == <<rootlessDinD, cyc, pc, dind, left, diskVars, dindVars, storeVars, sweep,
               histVars, toggles, harms, prunes>>

NoEnv   == [host |-> FALSE, builder |-> FALSE]
NoSweep == [at |-> "idle", runs |-> {}]

-----------------------------------------------------------------------------
\* The directories RunJob resets, in order.
ResetDirsNoHome(d) == IF d THEN <<"work", "diag", "creds", "data">> ELSE <<"work", "diag", "creds">>
ResetDirs(d) == IF d THEN <<"work", "diag", "home", "creds", "data">>
                     ELSE <<"work", "diag", "home", "creds">>

SlotInit ==
  /\ rootlessDinD \in BOOLEAN /\ cyc = 0 /\ pc = "rest" /\ dind = FALSE /\ left = <<>>
  /\ disk = [x \in Dirs |-> 0] /\ mounted = FALSE
  /\ daemon = 0 /\ sock = 0 /\ builder = 0 /\ env = NoEnv
  /\ src = 0 /\ folder = FALSE
  /\ log = [c \in Cycles |-> 0] /\ meta = [c \in Cycles |-> "none"]
  /\ sweep = NoSweep
  /\ hurt = {} /\ soiled = {} /\ recorded = {} /\ pruned = {} /\ swept = FALSE /\ cut = FALSE
  /\ toggles = 0 /\ harms = 0 /\ prunes = 0

Harmed == harms < MaxHarms /\ harms' = harms + 1

\* Restart=always: a new process reads the config.  With DinD on, mounts a killed
\* cycle has left are detached first.
StartCycle ==
  /\ pc = "rest" /\ cyc < MaxCycles
  /\ cyc' = cyc + 1 /\ dind' = rootlessDinD /\ pc' = "reset"
  /\ left' = ResetDirs(rootlessDinD)
  /\ mounted' = (mounted /\ ~rootlessDinD)
  /\ env' = NoEnv
  /\ UNCHANGED <<rootlessDinD, disk, daemon, sock, builder, storeVars, sweep, histVars,
                 toggles, harms, prunes>>

\* A failed step of RunJob: the error is captured like any other outcome.
Fail ==
  /\ pc' = IF daemon # 0 THEN "stop" ELSE "capture"
  /\ hurt' = hurt \cup {cyc}

\* reclaimPath removes a directory whoever owns it; a live mount it cannot.
ResetDir ==
  /\ pc = "reset" /\ left # <<>>
  /\ LET x == Head(left) IN
     \/ /\ ~(x = "data" /\ mounted)
        /\ disk' = [disk EXCEPT ![x] = 0]
        /\ builder' = IF x = "home" THEN 0 ELSE builder
        /\ left' = Tail(left)
        /\ UNCHANGED <<pc, hurt, soiled, harms>>
     \/ /\ x = "data" /\ mounted
        /\ pc' = "capture" /\ UNCHANGED <<disk, builder, left, hurt, soiled, harms>>
     \/ /\ disk[x] # 0 /\ Harmed /\ Fail
        /\ soiled' = IF \E i \in 1..Len(left) : left[i] = "diag" THEN soiled \cup {cyc}
                     ELSE soiled
        /\ UNCHANGED <<disk, builder, left>>
  /\ UNCHANGED <<rootlessDinD, cyc, dind, mounted, daemon, sock, env, storeVars, sweep,
                 recorded, pruned, swept, cut, toggles, prunes>>

\* mkdirOwned, the user lookup, or docker's runtime directory may fail.
Prepared ==
  /\ pc = "reset" /\ left = <<>>
  /\ \/ /\ pc' = IF dind THEN "dockerd" ELSE "run"
        /\ UNCHANGED <<hurt, harms>>
     \/ Harmed /\ Fail
  /\ UNCHANGED <<rootlessDinD, cyc, dind, left, diskVars, dindVars, storeVars, sweep,
                 soiled, recorded, pruned, swept, cut, toggles, prunes>>

\* startRootlessDocker: a fresh runtime directory, the daemon, and the wait for
\* its socket, which is a hard failure.
StartDaemon ==
  /\ pc = "dockerd" /\ daemon = 0
  /\ sock' = cyc /\ daemon' = cyc
  /\ UNCHANGED <<rootlessDinD, cyc, pc, dind, left, diskVars, builder, env, storeVars,
                 sweep, histVars, toggles, harms, prunes>>

WaitSocket ==
  /\ pc = "dockerd" /\ daemon # 0
  /\ \/ /\ sock = daemon /\ pc' = "builder" /\ env' = [NoEnv EXCEPT !.host = TRUE]
        /\ UNCHANGED <<hurt, harms>>
     \/ Harmed /\ Fail /\ UNCHANGED env
  /\ UNCHANGED <<rootlessDinD, cyc, dind, left, diskVars, daemon, sock, builder,
                 storeVars, sweep, soiled, recorded, pruned, swept, cut, toggles, prunes>>

\* seedRootlessBuilder: on a failure the job has plain docker.
SeedBuilder ==
  /\ pc = "builder" /\ pc' = "run"
  /\ \/ builder' = cyc /\ env' = [env EXCEPT !.builder = TRUE] /\ UNCHANGED harms
     \/ Harmed /\ UNCHANGED <<builder, env>>
  /\ UNCHANGED <<rootlessDinD, cyc, dind, left, diskVars, daemon, sock, storeVars, sweep,
                 histVars, toggles, prunes>>

-----------------------------------------------------------------------------
\* The job may write everywhere; one that never got work leaves no worker log.
JobRuns ==
  /\ pc = "run" /\ pc' = "job"
  /\ \E logs \in BOOLEAN :
       disk' = [x \in Dirs |->
         IF (x = "data" /\ ~env.host) \/ (x = "diag" /\ ~logs) THEN disk[x] ELSE cyc]
  /\ UNCHANGED <<rootlessDinD, cyc, dind, left, mounted, dindVars, storeVars, sweep,
                 histVars, toggles, harms, prunes>>

JobEnds ==
  /\ pc = "job" /\ pc' = IF daemon # 0 THEN "stop" ELSE "capture"
  /\ UNCHANGED <<rootlessDinD, cyc, dind, left, diskVars, dindVars, storeVars, sweep,
                 histVars, toggles, harms, prunes>>

\* SIGTERM, ten seconds, SIGKILL: the second leaves the mounts behind.
StopDaemon ==
  /\ pc = "stop" /\ daemon' = 0 /\ pc' = "capture"
  /\ mounted' \in {mounted, TRUE}
  /\ UNCHANGED <<rootlessDinD, cyc, dind, left, disk, sock, builder, env, storeVars, sweep,
                 histVars, toggles, harms, prunes>>

\* The newest worker log in _diag, whosever it is; 0 if there is none.
NewestJobLog == disk["diag"]

\* captureJobLog: it takes what NewestJobLog finds; joblog.Write makes the slot's
\* folder, copies the log, and writes the sidecar.
FindLog ==
  /\ pc = "capture" /\ pc' = "copy"
  /\ src' = NewestJobLog /\ folder' = TRUE
  /\ UNCHANGED <<rootlessDinD, cyc, dind, left, diskVars, dindVars, log, meta, sweep,
                 histVars, toggles, harms, prunes>>

\* The source is gone for good once the copy has failed; the run is dropped.
CopyLog ==
  /\ pc = "copy" /\ pc' = "sidecar"
  /\ \/ src # 0 /\ folder /\ log' = [log EXCEPT ![cyc] = src] /\ UNCHANGED <<src, harms>>
     \/ (src = 0 \/ ~folder) /\ src' = 0 /\ UNCHANGED <<log, harms>>
     \/ src # 0 /\ folder /\ Harmed /\ src' = 0 /\ UNCHANGED log
  /\ UNCHANGED <<rootlessDinD, cyc, dind, left, diskVars, dindVars, folder, meta, sweep,
                 histVars, toggles, prunes>>

WriteSidecar ==
  /\ pc = "sidecar" /\ pc' = "rest"
  /\ meta' = [meta EXCEPT ![cyc] =
       CASE ~folder -> "none" [] folder /\ src = 0 -> "bare" [] OTHER -> "log"]
  /\ recorded' = recorded \cup {cyc}
  /\ UNCHANGED <<rootlessDinD, cyc, dind, left, diskVars, dindVars, src, folder, log, sweep,
                 hurt, soiled, pruned, swept, cut, toggles, harms, prunes>>

-----------------------------------------------------------------------------
\* srm cache prune: the store is listed once; each run that is old enough loses
\* its log, then its sidecar; empty folders go last.
BeginPrune ==
  /\ sweep.at = "idle" /\ prunes < MaxPrunes /\ prunes' = prunes + 1
  /\ \E age \in Jobs :
       sweep' = [at |-> "log", runs |-> {c \in Cycles : c <= age /\ meta[c] # "none"}]
  /\ UNCHANGED <<rootlessDinD, cyc, pc, dind, left, diskVars, dindVars, storeVars, histVars,
                 toggles, harms>>

PruneRunLogOnly ==
  /\ sweep.runs # {}
  /\ LET c == CHOOSE r \in sweep.runs : \A k \in sweep.runs : r <= k IN
     /\ log' = [log EXCEPT ![c] = 0] /\ sweep' = [sweep EXCEPT !.runs = @ \ {c}]
     /\ pruned' = pruned \cup {c} /\ UNCHANGED meta
  /\ UNCHANGED <<rootlessDinD, cyc, pc, dind, left, diskVars, dindVars, src, folder, hurt,
                 soiled, recorded, swept, cut, toggles, harms, prunes>>

PruneRun ==
  /\ sweep.runs # {}
  /\ LET c == CHOOSE r \in sweep.runs : \A k \in sweep.runs : r <= k IN
     /\ \/ /\ sweep.at = "log"
           /\ log' = [log EXCEPT ![c] = 0] /\ sweep' = [sweep EXCEPT !.at = "meta"]
           /\ UNCHANGED meta
        \/ /\ sweep.at = "meta"
           /\ meta' = [meta EXCEPT ![c] = "none"]
           /\ sweep' = [at |-> "log", runs |-> sweep.runs \ {c}] /\ UNCHANGED log
     /\ pruned' = pruned \cup {c}
  /\ UNCHANGED <<rootlessDinD, cyc, pc, dind, left, diskVars, dindVars, src, folder, hurt,
                 soiled, recorded, swept, cut, toggles, harms, prunes>>

RemoveEmptyDirs ==
  /\ sweep.at = "log" /\ sweep.runs = {} /\ sweep' = NoSweep
  /\ folder' = (folder /\ \E c \in Cycles : meta[c] # "none" \/ log[c] # 0)
  /\ swept' = (swept \/ (pc \in {"copy", "sidecar"} /\ ~folder'))
  /\ UNCHANGED <<rootlessDinD, cyc, pc, dind, left, diskVars, dindVars, src, log, meta,
                 hurt, soiled, recorded, pruned, cut, toggles, harms, prunes>>

-----------------------------------------------------------------------------
KillUnit ==
  /\ pc # "rest" /\ Harmed
  /\ pc' = "rest" /\ daemon' = 0 /\ hurt' = hurt \cup {cyc}
  /\ mounted' = (mounted \/ daemon # 0)
  /\ UNCHANGED <<rootlessDinD, cyc, dind, left, disk, sock, builder, env, storeVars, sweep,
                 soiled, recorded, pruned, swept, cut, toggles, prunes>>

KillPrune ==
  /\ sweep.at # "idle" /\ Harmed /\ sweep' = NoSweep /\ cut' = TRUE
  /\ UNCHANGED <<rootlessDinD, cyc, pc, dind, left, diskVars, dindVars, storeVars, hurt,
                 soiled, recorded, pruned, swept, toggles, prunes>>

ToggleDinD ==
  /\ toggles < MaxToggles /\ toggles' = toggles + 1 /\ rootlessDinD' = ~rootlessDinD
  /\ UNCHANGED <<cyc, pc, dind, left, diskVars, dindVars, storeVars, sweep, histVars,
                 harms, prunes>>

SlotNext ==
  \/ StartCycle \/ ResetDir \/ Prepared \/ StartDaemon \/ WaitSocket \/ SeedBuilder
  \/ JobRuns \/ JobEnds \/ StopDaemon \/ FindLog \/ CopyLog \/ WriteSidecar
  \/ BeginPrune \/ PruneRun \/ RemoveEmptyDirs
  \/ KillUnit \/ KillPrune \/ ToggleDinD

SlotSpec == SlotInit /\ [][SlotNext]_slotVars

-----------------------------------------------------------------------------
\* A job starts on nothing of an earlier job, wherever earlier cycles were killed
\* and whatever was mounted, and the daemon and the builder it is pointed at are
\* this cycle's own (RunJob: the authoritative clean slate).  With DinD turned
\* off, the last daemon's data root stays until it is turned on again.
CleanSlate ==
  pc = "run" =>
    /\ \A x \in Dirs \ {"data"} : disk[x] = 0
    /\ dind => disk["data"] = 0
    /\ env.host => daemon = cyc /\ sock = cyc
    /\ env.builder => builder = cyc

\* A cycle fails only for what happened in it: what earlier ones left, mounts
\* included, never keeps the lane from its next job (unmountStaleSlotMounts).
StaleMountsYield == pc = "capture" /\ cyc \notin hurt => left = <<>>

\* Nothing of an earlier cycle reaches a job or keeps it from running (RunJob).
EachJobAnew == CleanSlate /\ StaleMountsYield

\* The log kept for a run is its own job's, unless its cycle failed before it had
\* wiped _diag (captureJobLog).
LogOfItsJob == \A c \in Cycles : log[c] \in {0, c} \/ c \in soiled

\* A run joblog.Write has returned for is listed, with or without its log, until
\* a prune takes it; only a prune that removed the slot's folder between the two
\* writes loses it.
RunIsRecorded ==
  \A c \in recorded : meta[c] # "none" \/ c \in pruned \/ swept

\* A run that is listed with a log has one, and a log is listed; the exceptions
\* are the one being written or removed, and what a kill has cut in half.
StoreAgrees ==
  \A c \in Cycles :
    /\ meta[c] = "log" /\ log[c] = 0 => c \in sweep.runs \/ cut
    /\ log[c] # 0 /\ meta[c] = "none" =>
         (c = cyc /\ pc = "sidecar") \/ c \in hurt \/ swept

\* The job log store tells the truth about the lane's jobs (captureJobLog,
\* joblog.Write, joblog.Prune).
LogsAgree == LogOfItsJob /\ RunIsRecorded /\ StoreAgrees
=============================================================================
