----------------------------- MODULE TuiPanels -----------------------------
(***************************************************************************)
(* The panels that are filled by commands beside the event loop: the       *)
(* Information panel and its lookup, the Logs panel and its follow loop,   *)
(* and the picker of the repositories a runner group may be used from. An  *)
(* answer may come late: after its panel was closed, or opened again on    *)
(* another subject.                                                        *)
(***************************************************************************)
EXTENDS Integers, FiniteSets, Bags

CONSTANTS
  Subjects,     \* runners of this host whose panels the operator opens
  Groups,       \* runner groups with "selected" visibility
  Repos,        \* the org's repositories
  MaxLines,     \* bound: times a log grows
  MaxCalls,     \* bound: commands outstanding
  MaxBad        \* bound: API calls that fail

ASSUME PanelsAssumption ==
  /\ MaxLines \in Nat /\ MaxCalls \in Nat /\ MaxBad \in Nat
  /\ {"none", "captured", "error"} \cap Subjects = {}

VARIABLES
  lines,        \* how far the logs have grown
  access,       \* GitHub: the repositories of each group
  bad,          \* failures left
  panel,        \* the panel that is open, with what it holds. A closed panel's
                \* leftovers are never read, so NoPanel has none
  logStatic,    \* the Logs panel shows a captured log
  calls,        \* the bag of commands, ticks and answers
  calm,         \* no call has failed, and no picker was opened while a load or a
                \* save of an earlier one was still outstanding
  missed        \* history: a form has taken an answer or a tick while this Logs
                \* panel was open, and it was not set to follow since

panelVars == <<lines, access, bad, panel, logStatic, calls, calm, missed>>

NoPanel    == [kind |-> "none"]
Open(k)    == panel.kind = k
Call(m)    == calls' = calls (+) SetToBag({m})
Return(m, R) == calls' = (calls (-) SetToBag({m})) (+) SetToBag(R)
CallRoom   == BagCardinality(calls) < MaxCalls
Fail       == bad > 0 /\ bad' = bad - 1 /\ calm' = FALSE
World      == <<lines, access, bad, calm, missed>>

PanelsInit ==
  /\ lines = 0 /\ access \in [Groups -> SUBSET Repos] /\ bad = MaxBad
  /\ panel = NoPanel /\ logStatic = FALSE /\ calls = EmptyBag
  /\ calm = TRUE /\ missed = FALSE

---------------------------------------------------------------------------
(* The Information panel                                                   *)

\* A busy runner's current job is looked up, an idle one's is not.
openRunnerInfo == \E s \in Subjects :
  /\ Open("none")
  /\ \/ /\ panel' = [kind |-> "info", of |-> s, state |-> "looking", job |-> "none"]
        /\ CallRoom /\ Call([t |-> "job", of |-> s])
     \/ /\ panel' = [kind |-> "info", of |-> s, state |-> "", job |-> "none"]
        /\ UNCHANGED calls
  /\ UNCHANGED <<World, logStatic>>

JobLookup == \E m \in DOMAIN calls :
  /\ m.t = "job"
  /\ \/ /\ \E found \in {m.of, "none"} : Return(m, {[t |-> "jobLookupMsg", found |-> found]})
        /\ UNCHANGED <<bad, calm>>
     \/ Fail /\ Return(m, {[t |-> "jobLookupMsg", found |-> "error"]})
  /\ UNCHANGED <<lines, access, panel, logStatic, missed>>

\* The answer carries no subject: it lands on whatever runner the panel shows.
onJobLookupMsg == \E m \in DOMAIN calls :
  /\ m.t = "jobLookupMsg" /\ Return(m, {})
  /\ panel' = IF ~Open("info") THEN panel
              ELSE IF m.found \in {"error", "none"} THEN [panel EXCEPT !.state = m.found]
              ELSE [panel EXCEPT !.state = "found", !.job = m.found]
  /\ UNCHANGED <<World, logStatic>>

closeInfo == Open("info") /\ panel' = NoPanel /\ UNCHANGED <<World, logStatic, calls>>

---------------------------------------------------------------------------
(* The Logs panel                                                          *)

LogGrows ==
  /\ lines < MaxLines /\ lines' = lines + 1
  /\ UNCHANGED <<access, bad, panel, logStatic, calls, calm, missed>>

LogPanel(s, shows) == [kind |-> "log", of |-> s, follow |-> FALSE, shows |-> shows, line |-> 0]

\* openLogs from the lists and the drift tab ends here.
beginLogs == \E s \in Subjects :
  /\ Open("none") /\ CallRoom
  /\ panel' = LogPanel(s, "none")
  /\ Call([t |-> "logs", of |-> s])
  /\ UNCHANGED <<World, logStatic>>

\* openLogs on a past run: its captured log is read at once, and not followed.
openCapturedLog ==
  /\ Open("none")
  /\ panel' = LogPanel("captured", "captured") /\ logStatic' = TRUE
  /\ UNCHANGED <<World, calls>>

logsCmd == \E m \in DOMAIN calls :
  /\ m.t = "logs"
  /\ Return(m, {[t |-> "logsMsg", of |-> m.of, line |-> lines]})
  /\ UNCHANGED <<World, panel, logStatic>>

\* Only the subject of the panel that is open; while following, the next poll.
WantedIfOpen(m) == Open("log")
Wanted(m) == Open("log") /\ m.of = panel.of

onLogsMsg == \E m \in DOMAIN calls :
  /\ m.t = "logsMsg"
  /\ IF ~Wanted(m) THEN Return(m, {}) /\ UNCHANGED panel
     ELSE /\ panel' = [panel EXCEPT !.shows = m.of, !.line = m.line]
          /\ Return(m, IF panel.follow THEN {[t |-> "logTick"]} ELSE {})
  /\ UNCHANGED <<World, logStatic>>

Polls == Open("log") /\ panel.follow
onLogTickMsg == \E m \in DOMAIN calls :
  /\ m.t = "logTick"
  /\ Return(m, IF Polls THEN {[t |-> "logs", of |-> panel.of]} ELSE {})
  /\ UNCHANGED <<World, panel, logStatic>>

toggleFollow ==
  /\ Open("log") /\ ~logStatic
  /\ panel' = [panel EXCEPT !.follow = ~@]
  /\ IF panel.follow THEN UNCHANGED <<calls, missed>>
     ELSE CallRoom /\ Call([t |-> "logTick"]) /\ missed' = FALSE
  /\ UNCHANGED <<lines, access, bad, calm, logStatic>>

closeLogs ==
  /\ Open("log") /\ panel' = NoPanel /\ logStatic' = FALSE /\ missed' = FALSE
  /\ UNCHANGED <<lines, access, bad, calm, calls>>

---------------------------------------------------------------------------
(* The repository picker                                                   *)

Outstanding == \E m \in DOMAIN calls : m.t \in {"repos", "reposLoadedMsg", "setRepos"}

\* out: what the operator has taken out of the selection.
manageRepos == \E g \in Groups :
  /\ Open("none") /\ CallRoom
  /\ panel' = [kind |-> "picker", of |-> g, loading |-> TRUE, sel |-> {}, out |-> {}]
  /\ Call([t |-> "repos", of |-> g])
  /\ calm' = (calm /\ ~Outstanding)
  /\ UNCHANGED <<lines, access, bad, logStatic, missed>>

\* The org's repositories failing is an error of the picker; the group's failing
\* is an empty selection.
loadReposCmd == \E m \in DOMAIN calls :
  /\ m.t = "repos"
  /\ \/ /\ Return(m, {[t |-> "reposLoadedMsg", cur |-> access[m.of]]})
        /\ UNCHANGED <<bad, calm>>
     \/ Fail /\ Return(m, {[t |-> "reposLoadedMsg", cur |-> {}]})
  /\ UNCHANGED <<lines, access, panel, logStatic, missed>>

\* setData adds to the selection of the picker that is open, whichever group was
\* asked about.
onReposLoadedMsg == \E m \in DOMAIN calls :
  /\ m.t = "reposLoadedMsg" /\ Return(m, {})
  /\ panel' = IF Open("picker") THEN [panel EXCEPT !.loading = FALSE, !.sel = @ \cup m.cur]
              ELSE panel
  /\ UNCHANGED <<World, logStatic>>

\* toggleCursor on a candidate; there are none until the load is in.
toggleCursor == \E r \in Repos :
  /\ Open("picker") /\ ~panel.loading
  /\ panel' = IF r \in panel.sel
              THEN [panel EXCEPT !.sel = @ \ {r}, !.out = @ \cup {r}]
              ELSE [panel EXCEPT !.sel = @ \cup {r}, !.out = @ \ {r}]
  /\ UNCHANGED <<World, logStatic, calls>>

\* enter on the picker.
MaySave == Open("picker") /\ ~panel.loading

SaveRepos ==
  /\ MaySave /\ CallRoom
  /\ panel' = NoPanel
  /\ Call([t |-> "setRepos", of |-> panel.of, ids |-> panel.sel, out |-> panel.out])
  /\ UNCHANGED <<World, logStatic>>

closePicker == Open("picker") /\ panel' = NoPanel /\ UNCHANGED <<World, logStatic, calls>>

\* Its actionMsg is for the lists.
setGroupReposCmd(ok) == \E m \in DOMAIN calls :
  /\ m.t = "setRepos" /\ Return(m, {})
  /\ \/ ok /\ access' = [access EXCEPT ![m.of] = m.ids] /\ UNCHANGED <<bad, calm>>
     \/ ~ok /\ Fail /\ UNCHANGED access
  /\ UNCHANGED <<lines, panel, logStatic, missed>>

---------------------------------------------------------------------------
\* A form opened over a panel takes its answers and its ticks.
SwallowCall == \E m \in DOMAIN calls :
  /\ m.t \in {"jobLookupMsg", "logsMsg", "logTick", "reposLoadedMsg"}
  /\ Return(m, {}) /\ missed' = (missed \/ Open("log"))
  /\ UNCHANGED <<lines, access, bad, calm, panel, logStatic>>

---------------------------------------------------------------------------
\* What goes on beside the loop, and what the loop hears of it.
PanelsBeside == JobLookup \/ LogGrows \/ logsCmd \/ loadReposCmd
PanelsTold   == onJobLookupMsg \/ onLogsMsg \/ onLogTickMsg \/ onReposLoadedMsg
\* Keys on a tab, which open a panel, and keys in one.
PanelsOpen == openRunnerInfo \/ beginLogs \/ openCapturedLog \/ manageRepos
PanelsKeys == closeInfo \/ toggleFollow \/ closeLogs \/ toggleCursor \/ closePicker

PanelsNext ==
  \/ PanelsBeside \/ PanelsTold \/ PanelsOpen \/ PanelsKeys \/ SwallowCall
  \/ SaveRepos \/ \E ok \in BOOLEAN : setGroupReposCmd(ok)

---------------------------------------------------------------------------
(* Properties                                                              *)

Calls ==
  [t : {"job"}, of : Subjects] \cup [t : {"jobLookupMsg"}, found : Subjects \cup {"none", "error"}]
    \cup [t : {"logs"}, of : Subjects] \cup [t : {"logsMsg"}, of : Subjects, line : 0 .. MaxLines]
    \cup [t : {"logTick"}]
    \cup [t : {"repos"}, of : Groups] \cup [t : {"reposLoadedMsg"}, cur : SUBSET Repos]
    \cup [t : {"setRepos"}, of : Groups, ids : SUBSET Repos, out : SUBSET Repos]

\* Panel, picker and what is outstanding have values of their kind (the fields of
\* Model in root.go).
PanelsTypeOK ==
  /\ lines \in 0 .. MaxLines /\ bad \in 0 .. MaxBad
  /\ access \in [Groups -> SUBSET Repos] /\ logStatic \in BOOLEAN
  /\ calm \in BOOLEAN /\ missed \in BOOLEAN
  /\ \/ panel = NoPanel
     \/ panel \in [kind : {"info"}, of : Subjects, state : {"", "looking", "none", "found", "error"},
                  job : Subjects \cup {"none"}]
     \/ panel \in [kind : {"log"}, of : Subjects \cup {"captured"}, follow : BOOLEAN,
                  shows : Subjects \cup {"none", "captured"}, line : 0 .. MaxLines]
     \/ panel \in [kind : {"picker"}, of : Groups, loading : BOOLEAN, sel : SUBSET Repos, out : SUBSET Repos]
  /\ IsABag(calls) /\ BagToSet(calls) \subseteq Calls

\* The text on the Logs panel is the log of the subject its title names, also
\* when an answer comes after the panel was opened again on another runner, or on
\* a captured log, which is never followed (root.go:532).
LogIsOfSubject ==
  /\ Open("log") => /\ panel.shows \in {"none", panel.of}
                    /\ logStatic <=> panel.of = "captured"
                    /\ panel.follow => ~logStatic
  /\ logStatic => Open("log")

\* A panel left following has its next poll under way, whatever was toggled, closed and
\* opened again on other subjects, and whatever of theirs is still to be answered:
\* an answer ends a poll, and only the handlers begin the next, which a form that
\* took one of them never does (root.go:532-555).
Polling(m) == m.t = "logTick" \/ (m.t \in {"logs", "logsMsg"} /\ m.of = panel.of)
FollowIsPolled == Open("log") /\ panel.follow /\ ~missed => \E m \in BagToSet(calls) : Polling(m)

\* At most one load or save of a picker is outstanding. A picker that waits has
\* chosen nothing, and what is outstanding is the load it waits for.
OfPicker(m) == m.t \in {"repos", "reposLoadedMsg", "setRepos"}
OneOutstanding ==
  \A m, n \in BagToSet(calls) : OfPicker(m) /\ OfPicker(n) => m = n /\ calls[m] = 1
LoadOfPicker(m) ==
  \/ m.t = "repos" /\ m.of = panel.of
  \/ m.t = "reposLoadedMsg" /\ m.cur = access[panel.of]
PickerWaits ==
  Open("picker") /\ panel.loading =>
    /\ panel.sel = {} /\ panel.out = {}
    /\ \A m \in BagToSet(calls) : OfPicker(m) => LoadOfPicker(m)

\* A loaded picker lacks only what was taken out of it, and so does a save.
PickerShows ==
  Open("picker") /\ ~panel.loading => ~Outstanding /\ access[panel.of] \ panel.sel \subseteq panel.out
SaveKeeps ==
  \A m \in BagToSet(calls) : m.t = "setRepos" => access[m.of] \ m.ids \subseteq m.out

\* While no call has failed and no picker was opened over an earlier one's load or
\* save, a picker waits for its own load and then shows the access there is, but
\* for what the operator took out (root.go:737, repo_picker.go).
PickerIsTrue == calm => OneOutstanding /\ PickerWaits /\ PickerShows /\ SaveKeeps

SavedBy(m, g) == m.t = "setRepos" /\ m.of = g /\ access[g] \ access'[g] \subseteq m.out

\* A save of a group's repository access takes away only what the operator took
\* out of the selection she was shown, as long as no call has failed and nothing
\* of an earlier picker was outstanding when one opened: enter waits for the load
\* (root.go:752).
CleanSaveKeepsAccess ==
  [][\A g \in Groups : calm /\ access'[g] # access[g] => \E m \in DOMAIN calls : SavedBy(m, g)]_panelVars
=============================================================================
