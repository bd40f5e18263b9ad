----------------------------- MODULE ConfigFile -----------------------------
(***************************************************************************)
(* config.yaml: one document that every srm process loads whole, changes   *)
(* in memory and writes back whole, without a lock and in place.           *)
(*                                                                         *)
(* A command line process loads it, runs one command and ends; the         *)
(* terminal UI holds what it loaded when it came up for as long as it      *)
(* runs.  Loading migrates an older document, refuses one of a newer srm   *)
(* and, under per-org isolation, one whose orgs share a service user.  An  *)
(* empty file, which a write cut short leaves, loads as the defaults: no   *)
(* orgs.  A save may fail after the process has changed what it holds; the *)
(* command line then ends, the terminal UI goes on with the change.        *)
(***************************************************************************)
EXTENDS Integers, FiniteSets

CONSTANTS
  DocOrgs,    \* organizations; their names all have the same slug
  Editors,    \* srm processes
  TuiEditor,  \* the one of them that is the terminal UI
  Pkgs,       \* entries of the host manifest
  Documents,  \* the documents a host may start with
  MaxSaves,   \* how many commands one behaviour contains
  MaxStrokes  \* how many kills, failing saves and writes by a newer srm

CurrentSchemaVersion == 1

ASSUME DocConstants ==
  TuiEditor \in Editors /\ "none" \notin DocOrgs /\ MaxSaves \in Nat /\ MaxStrokes \in Nat

\* What a save is for: one of the host's settings, or an org.
Fields == {"limits", "policy", "host"} \cup DocOrgs

\* A profile: what the forms edit, and the manifest they leave alone.
Profile == [labels : {1, 2}, manifest : BOOLEAN]
NoProfile == [labels |-> 0, manifest |-> FALSE]

\* An org: what the org form edits; its own service user, its own limits, its profile.
NoOrg == [app |-> 0, user |-> "", cap |-> "", profile |-> NoProfile]
Orgs  == [app : {1, 2}, user : {"", "own"}, cap : {"", "org"},
          profile : Profile \cup {NoProfile}] \cup {NoOrg}

Docs == [schema : 0..CurrentSchemaVersion + 1, dryRun : BOOLEAN, mode : {"", "auto"},
         cap : {"", "host"}, perOrgUsers : BOOLEAN, host : SUBSET Pkgs,
         orgs : [DocOrgs -> Orgs]]

ASSUME DocumentsAssumption == Documents \subseteq Docs

Defaults == [schema |-> 0, dryRun |-> FALSE, mode |-> "", cap |-> "", perOrgUsers |-> FALSE,
             host |-> {}, orgs |-> [o \in DocOrgs |-> NoOrg]]

VARIABLES
  disk,       \* the document in the file
  whole,      \* "whole", "empty" between truncation and write, "garbage" after mixed writes
  ed,         \* what a process does and has in memory
  asked,      \* history: the first document, with all that the commands carried out asked for
  edited,     \* history: orgs that went through the edit form
  spilled,    \* history: fields whose refused change a later save may have written
  unseen,     \* history: has a process written over what it had not seen?
  cut,        \* history: has a write been cut short?
  saves, strokes

docVars == <<disk, whole, ed, asked, edited, spilled, unseen, cut, saves, strokes>>

\* A process: its step, the document it holds, what it is saving and for which fields,
\* the settings panel's second save, the org of the form; the fields of which it holds a
\* change whose save failed; and, as history, whether it has seen the file's latest
\* content and whether it is the only one writing.
EditorStates ==
  [at : {"off", "ready", "truncate", "fill", "reload"}, mem : Docs, goal : Docs,
   what : SUBSET Fields, second : {"none", "on", "off"}, org : DocOrgs \cup {"none"},
   held : SUBSET Fields, fresh : BOOLEAN, alone : BOOLEAN]
Gone == [at |-> "off", mem |-> Defaults, goal |-> Defaults, what |-> {}, second |-> "none",
         org |-> "none", held |-> {}, fresh |-> FALSE, alone |-> TRUE]

\* The document on disk and those the processes hold are documents (Config).
DocTypeOK ==
  /\ disk \in Docs /\ whole \in {"whole", "empty", "garbage"}
  /\ ed \in [Editors -> EditorStates]
  /\ asked \in Docs /\ edited \subseteq DocOrgs /\ spilled \subseteq Fields
  /\ unseen \in BOOLEAN /\ cut \in BOOLEAN
  /\ saves \in 0..MaxSaves /\ strokes \in 0..MaxStrokes

-----------------------------------------------------------------------------
Known(d) == {o \in DocOrgs : d.orgs[o] # NoOrg}

\* RunnerUserFor: the org's own user, or the one its slug names.
RunnerUserFor(d, o) ==
  IF ~d.perOrgUsers THEN <<"srm">>
  ELSE IF d.orgs[o].user # "" THEN <<"own", o>> ELSE <<"slug">>

\* validateIsolation: under isolation no two orgs may share a user.
ValidIsolation(d) ==
  d.perOrgUsers => \A o, q \in Known(d) : RunnerUserFor(d, o) = RunnerUserFor(d, q) => o = q

\* migrate: an older document is brought forward, a newer one refused.
Migrates(d) == d.schema <= CurrentSchemaVersion

\* What Load accepts, and the document it makes of it.  No document here has a mode
\* that it refuses.
Loads(d) == Migrates(d) /\ ValidIsolation(d)
Load(d)  == [d EXCEPT !.schema = CurrentSchemaVersion]

\* What a process that reads the file now is given, and whether it is given anything.
InFile   == IF whole = "empty" THEN Defaults ELSE disk
Readable == whole # "garbage" /\ Loads(InFile)

\* ResourcesFor: the org's limit, the host's, or what "auto" starts from.
ResourcesFor(d, o) ==
  IF d.orgs[o].cap # "" THEN d.orgs[o].cap
  ELSE IF d.cap # "" THEN d.cap ELSE IF d.mode = "auto" THEN "25%" ELSE ""

DocInit ==
  /\ disk \in Documents /\ whole = "whole" /\ asked = disk
  /\ ed = [e \in Editors |-> Gone]
  /\ edited = {} /\ spilled = {} /\ unseen = FALSE /\ cut = FALSE /\ saves = 0 /\ strokes = 0

-----------------------------------------------------------------------------
Doing(e, step) == ed[e].at = step

\* buildManager: srm loads the file; --dry-run sets the flag in the loaded config.  Who
\* reads while another writes has not seen what is being written.
BuildManager(e, dry) ==
  /\ Doing(e, "off") /\ Readable /\ (e # TuiEditor => saves < MaxSaves)
  /\ ed' = [ed EXCEPT ![e] = [Gone EXCEPT !.at = "ready", !.fresh = whole = "whole",
              !.mem = [Load(InFile) EXCEPT !.dryRun = @ \/ dry]]]
  /\ UNCHANGED <<disk, whole, asked, edited, spilled, unseen, cut, saves, strokes>>

\* A command changes what process e holds before it saves it: what is of the command's
\* own, and all that was ever asked for is then goal.
Saves(e, doc, goal, what, second, org) ==
  /\ Doing(e, "ready") /\ saves < MaxSaves /\ saves' = saves + 1
  /\ ed' = [ed EXCEPT ![e].at = "truncate", ![e].mem = doc, ![e].goal = goal,
                      ![e].what = what, ![e].second = second, ![e].org = org]
  /\ UNCHANGED <<disk, whole, asked, edited, spilled, unseen, cut, strokes>>

\* It changes what the process holds, and is meant to change as much of what was asked
\* for before.
Command(e, doc, goal, what) == Saves(e, doc, goal, what, "none", "none")

WithPolicy(d, on)     == [d EXCEPT !.perOrgUsers = on]
WithHost(d, pkgs)     == [d EXCEPT !.host = pkgs]
WithLimits(d, m, c)   == [d EXCEPT !.mode = m, !.cap = c]
WithProfile(d, o, pr) == IF o \in Known(d) THEN [d EXCEPT !.orgs[o].profile = pr] ELSE d

\* srm config set.
ApplyHostPolicy(e, on) ==
  Command(e, WithPolicy(ed[e].mem, on), WithPolicy(asked, on), {"policy"})

\* The settings panel saves the limits, then the policy.
SavePanel(e, mode, cap, on) ==
  /\ e = TuiEditor /\ mode \in {"", "auto"}
  /\ Saves(e, WithLimits(ed[e].mem, mode, cap), WithLimits(asked, mode, cap), {"limits"},
           IF on THEN "on" ELSE "off", "none")

\* srm config manifest add and remove; the manifest form.
AddManifest(e, S) ==
  LET mem == ed[e].mem IN
  Command(e, WithHost(mem, mem.host \cup S), WithHost(asked, asked.host \cup S), {"host"})
RemoveManifest(e, S) ==
  LET mem == ed[e].mem IN
  Command(e, WithHost(mem, mem.host \ S), WithHost(asked, asked.host \ S), {"host"})

\* The slip of saving only what the form shows.
OverlayForgets(old, labels) == [labels |-> labels, manifest |-> FALSE]

\* The edited fields are laid over the existing profile.
Overlay(old, labels) == [labels |-> labels, manifest |-> old.manifest]

\* The form is meant to change the labels and nothing else.
UpsertProfile(e, o, labels) ==
  LET mem   == ed[e].mem
      meant == [labels |-> labels, manifest |-> asked.orgs[o].profile.manifest] IN
  /\ o \in Known(mem)
  /\ Command(e, WithProfile(mem, o, Overlay(mem.orgs[o].profile, labels)),
             WithProfile(asked, o, meant), {o})

RemoveProfile(e, o) ==
  LET mem == ed[e].mem IN
  /\ o \in Known(mem) /\ mem.orgs[o].profile # NoProfile
  /\ Command(e, WithProfile(mem, o, NoProfile), WithProfile(asked, o, NoProfile), {o})

\* The form's ToOrgConfig makes a new org of the form's fields.
OrgOfForm(app) == [NoOrg EXCEPT !.app = app]

\* upsertOrg replaces the org of that name, or adds it.
UpsertOrg(d, o, org) == [d EXCEPT !.orgs[o] = org]

\* srm init, srm config edit-org and the wizards: an edit is meant to change what the
\* form shows.
SaveOrg(e, o, app) ==
  Saves(e, UpsertOrg(ed[e].mem, o, OrgOfForm(app)), [asked EXCEPT !.orgs[o].app = app], {o},
        "none", o)

-----------------------------------------------------------------------------
\* os.WriteFile truncates the file ...
Truncate(e) ==
  /\ Doing(e, "truncate") /\ whole' = "empty"
  /\ ed' = [q \in Editors |->
              IF q = e THEN [ed[q] EXCEPT !.at = "fill", !.alone = TRUE] ELSE [ed[q] EXCEPT !.fresh = FALSE]]
  /\ unseen' = (unseen \/ ~ed[e].fresh)
  /\ UNCHANGED <<disk, asked, edited, spilled, cut, saves, strokes>>

\* ... and writes; a longer document another process wrote in between sticks out.
Fill(e) ==
  LET p    == ed[e]
      next == IF p.org # "none" /\ e = TuiEditor THEN "reload"
              ELSE IF p.second # "none" THEN "truncate"
              ELSE IF e = TuiEditor THEN "ready" ELSE "off"
      then(d) == IF p.second = "none" THEN d ELSE WithPolicy(d, p.second = "on")
      done == [p EXCEPT !.at = next, !.mem = then(p.mem), !.goal = then(p.goal),
                        !.what = IF p.second = "none" THEN {} ELSE {"policy"},
                        !.second = "none", !.org = "none"]
  IN
  /\ Doing(e, "fill") /\ disk' = p.mem
  /\ whole' \in IF p.alone THEN {"whole"} ELSE {"whole", "garbage"}
  /\ ed' = [q \in Editors |->
              IF q # e THEN [ed[q] EXCEPT !.fresh = FALSE, !.alone = FALSE]
              ELSE IF next = "off" THEN Gone ELSE done]
  /\ unseen' = (unseen \/ ~p.alone)
  /\ asked' = p.goal
  /\ edited' = IF p.org # "none" THEN edited \cup {p.org} ELSE edited
  /\ spilled' = spilled \cup p.held
  /\ UNCHANGED <<cut, saves, strokes>>

\* StoreOrgKey, the open or the write fails: the command line ends, the terminal UI keeps
\* what it has changed and makes no second save.
SaveFails(e) ==
  LET p == ed[e] IN
  /\ p.at \in {"truncate", "fill"} /\ strokes < MaxStrokes /\ strokes' = strokes + 1
  /\ ed' = [ed EXCEPT ![e] = IF e # TuiEditor THEN Gone
                             ELSE [p EXCEPT !.at = "ready", !.held = @ \cup p.what, !.what = {},
                                            !.second = "none", !.org = "none"]]
  /\ cut' = (cut \/ Doing(e, "fill"))
  /\ UNCHANGED <<disk, whole, asked, edited, spilled, unseen, saves>>

\* After the wizard the terminal UI loads what it wrote; what Load refuses it does not take.
ReloadDoc(e) ==
  /\ Doing(e, "reload")
  /\ ed' = IF Readable THEN [ed EXCEPT ![e].at = "ready", ![e].mem = Load(InFile),
                                              ![e].held = {}, ![e].fresh = whole = "whole"]
                       ELSE [ed EXCEPT ![e].at = "ready"]
  /\ UNCHANGED <<disk, whole, asked, edited, spilled, unseen, cut, saves, strokes>>

Quit(e) ==
  /\ Doing(e, "ready") /\ ed' = [ed EXCEPT ![e] = Gone]
  /\ UNCHANGED <<disk, whole, asked, edited, spilled, unseen, cut, saves, strokes>>

\* A process is killed.
KillEditor(e) ==
  /\ ed[e].at \in {"truncate", "fill", "reload"} /\ strokes < MaxStrokes /\ strokes' = strokes + 1
  /\ ed' = [ed EXCEPT ![e] = Gone] /\ cut' = (cut \/ Doing(e, "fill"))
  /\ UNCHANGED <<disk, whole, asked, edited, spilled, unseen, saves>>

\* A newer srm takes the file over.
NewerSrm ==
  /\ strokes < MaxStrokes /\ strokes' = strokes + 1
  /\ whole = "whole" /\ \A e \in Editors : ~Doing(e, "fill")
  /\ disk' = [disk EXCEPT !.schema = CurrentSchemaVersion + 1]
  /\ ed' = [q \in Editors |-> [ed[q] EXCEPT !.fresh = FALSE]]
  /\ UNCHANGED <<whole, asked, edited, spilled, unseen, cut, saves>>

DocNext ==
  \/ \E e \in Editors :
       \/ \E b \in BOOLEAN : BuildManager(e, b) \/ ApplyHostPolicy(e, b)
       \/ \E m \in {"", "auto", "typo"}, c \in {"", "host"}, b \in BOOLEAN : SavePanel(e, m, c, b)
       \/ \E S \in (SUBSET Pkgs) \ {{}} : AddManifest(e, S) \/ RemoveManifest(e, S)
       \/ \E o \in DocOrgs, v \in {1, 2} : UpsertProfile(e, o, v) \/ SaveOrg(e, o, v)
       \/ \E o \in DocOrgs : RemoveProfile(e, o)
       \/ Truncate(e) \/ Fill(e) \/ SaveFails(e) \/ ReloadDoc(e) \/ Quit(e) \/ KillEditor(e)
  \/ NewerSrm

DocSpec == DocInit /\ [][DocNext]_docVars

-----------------------------------------------------------------------------
\* The file holds everything the commands asked for, as long as no process wrote over
\* what it had not seen and no write was cut short: a command changes its own keys and
\* leaves the rest, through any number of loads and saves.  Excepted are an org's
\* service user, limits and profile once it went through the edit form, the dry-run
\* flag, and a setting or an org that one terminal UI session changed with a save that
\* failed and wrote with a later one.  Load, SaveConfig, UpsertProfile, the manifest
\* and org commands.
AskedIsKept ==
  ~unseen /\ ~cut /\ whole = "whole" =>
    /\ "limits" \in spilled \/ disk.mode = asked.mode
    /\ "policy" \in spilled \/ disk.perOrgUsers = asked.perOrgUsers
    /\ "host" \in spilled \/ disk.host = asked.host
    /\ \A o \in DocOrgs \ spilled :
         /\ disk.orgs[o].app = asked.orgs[o].app
         /\ o \notin edited =>
              /\ disk.orgs[o].profile = asked.orgs[o].profile
              /\ "policy" \in spilled \/ RunnerUserFor(disk, o) = RunnerUserFor(asked, o)
              /\ "limits" \in spilled \/ ResourcesFor(disk, o) = ResourcesFor(asked, o)

\* A document of a newer srm is written over only by a process that loaded an older one
\* before it was there.  migrate's refusal.
NewerSurvives ==
  [][disk.schema > CurrentSchemaVersion /\ whole = "whole" /\ whole' = "empty" => unseen']_docVars

\* config.yaml keeps what was asked of it and what a newer srm made of it (Load,
\* SaveConfig, migrate).
DocumentIsKept == [](DocTypeOK /\ AskedIsKept) /\ NewerSurvives
=============================================================================
