------------------------------ MODULE TuiViews ------------------------------
(***************************************************************************)
(* The lists and the panels of one terminal session.  They share the event *)
(* loop: an open panel, operation or form takes the keys, an open form the *)
(* messages too, an open panel holds the auto-refresh back, and a save of  *)
(* a group's repositories sets the m.loading that the lists wait for.      *)
(***************************************************************************)
EXTENDS FleetView, TuiPanels

viewVars == <<fleetVars, panelVars>>

ViewsInit == FleetInit /\ PanelsInit

NoPanelOpen == Open("none")

ListsStep == FleetStep(NoPanelOpen) /\ UNCHANGED panelVars

---------------------------------------------------------------------------
\* The confirm modal is behind a picker that opened over it, and the result of an
\* operation before everything.
PanelsStep ==
  /\ \/ PanelsBeside
     \/ ~form /\ PanelsTold
     \/ OnTab /\ PanelsOpen
     \/ ~form /\ asking.stage # "done" /\ PanelsKeys
     \/ form /\ SwallowCall
  /\ UNCHANGED fleetVars

\* enter on the picker.
savePicker ==
  /\ ~form /\ asking.stage # "done" /\ SaveRepos /\ Loads
  /\ UNCHANGED <<fleet, budget, snap, fed, fleetLoaded, orgVisible, listVars, vtab, autoOn, reads, asking, ticks, form>>

\* The save ends in an actionMsg.
endSave == \E ok \in BOOLEAN :
  /\ ReadRoom /\ setGroupReposCmd(ok) /\ Post(Cmd(IF ok THEN "acted" ELSE "actFailed"))
  /\ UNCHANGED <<fleet, budget, snap, fed, fleetLoaded, orgVisible, listVars, vtab, busyLoading, autoOn, asking, loopVars>>

\* groupSavedMsg with openPicker: the picker loads, and m.loading is left set.
onGroupSavedMsgPicker ==
  /\ ~form /\ Cmd("save") \in DOMAIN reads /\ Answer(Cmd("save"), {}) /\ LeftLoading
  /\ manageRepos
  /\ UNCHANGED <<fleet, budget, snap, fed, fleetLoaded, orgVisible, listVars, vtab, autoOn, asking, ticks, form>>

JointStep == savePicker \/ endSave \/ onGroupSavedMsgPicker

\* The runtime runs every command and fires every tick, and the loop hears of it
\* unless a form is open; auto-refresh ticks while it is armed.
PanelsFairness ==
  /\ WF_panelVars(logsCmd) /\ WF_viewVars(endSave)
  /\ WF_panelVars(~form /\ onLogsMsg) /\ WF_panelVars(~form /\ onLogTickMsg)
ViewsFairness == FleetFairness /\ WF_fleetVars(onAutoTickMsg(NoPanelOpen)) /\ PanelsFairness

ViewsSpec == ViewsInit /\ [][ListsStep \/ PanelsStep \/ JointStep]_viewVars /\ ViewsFairness

---------------------------------------------------------------------------
(* Properties                                                              *)

SaveOutstanding == \E m \in BagToSet(calls) : m.t = "setRepos"

\* Lists and panels are well-formed under any order of answers; what shows itself
\* loading, refreshing or following is, but for the answers a form took and the
\* failures that leave m.loading set; a log panel shows its own subject's log, and a
\* picker in a calm session lacks only what was taken out of it (fleetMsg, actionMsg,
\* logsMsg, reposLoadedMsg in root.go).
ViewsSound ==
  /\ FleetTypeOK /\ PanelsTypeOK
  /\ LoadIsUnderWay(SaveOutstanding) /\ TickIsUnderWay /\ FollowIsPolled
  /\ LogIsOfSubject /\ PickerIsTrue

\* What the operator confirms or saves takes away only what she was shown and
\* chose, whatever was loaded in between (runConfirmed, the picker's enter).
ActsOnWhatWasSeen == StrikesWhatWasSeen /\ CleanSaveKeepsAccess

\* On a fleet tab with auto-refresh left armed, and no operation, panel or form left
\* open, the lists show the fleet as it is, under the filter as it is, again and
\* again, whatever was loaded late or out of order: every refresh, which blanks the
\* drift classes, is followed by an audit that tells them right. Not so once an
\* answer is lost that m.loading waits for, or the tick: then only a reload by the
\* operator, or arming it again, brings the refresh back (root.go:324-356, 428-432).
Converges == <>[](LeftAlone(NoPanelOpen) /\ lost = {}) => []<>(RowsMirror /\ AuditMirrors)

\* A panel left following, with no form over it that took what it polls, shows the
\* log as it is again and again: no answer and no tick that falls between the keys
\* breaks the loop (root.go:547).
FollowPolls ==
  <>[](Open("log") /\ panel.follow /\ ~missed /\ ~form) =>
    []<>(Open("log") /\ panel.shows = panel.of /\ panel.line = lines)

\* A view left to itself keeps up with the fleet or with its log, unless what it
\* waits for was lost (autoTickMsg, logTickMsg).
ViewsFollow == Converges /\ FollowPolls
=============================================================================
