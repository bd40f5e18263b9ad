------------------------------ MODULE Reconcile ------------------------------
(***************************************************************************)
(* Two passes over the host's persistent runners: Reconcile, which lists   *)
(* GitHub once, inspects every unit, gives each runner a drift class and,  *)
(* asked to, repairs them in a second round; and RefreshLocalUnits, which  *)
(* rewrites and restarts every idle local runner of one listing.           *)
(***************************************************************************)
EXTENDS HostUnits

Classes == {"none", "healthy", "orphan-unit", "stale-dropin", "dropin-newer",
            "stuck", "legacy-flat", "orphan-github", "unknown"}

\* What ListAllRunners returns for a runner whose org could be listed.
Row(r) == IF reg[r] = NoId THEN "absent"
          ELSE IF r \in job THEN "busy"
          ELSE IF h[r].svc = "online" /\ Registered(r) THEN "online" ELSE "offline"

\* One GitHub listing at the start of a pass; an org may fail.
ListAllRunners(c) ==
  /\ pc[c] = "list"
  /\ \E E \in SUBSET Configured :
       /\ Cardinality(E) + faults <= MaxFaults
       /\ faults' = faults + Cardinality(E)
       /\ errs' = [errs EXCEPT ![c] = E]
       /\ list' = [list EXCEPT ![c] = [r \in Runners |->
            IF OrgOf[r] \in Configured \ E THEN Row(r) ELSE "absent"]]
  /\ moved' = [moved EXCEPT ![c] = {}]
  /\ IF kind[c] = "refresh"
       THEN /\ todo' = [todo EXCEPT ![c] =
                 {r \in Runners : InScope(c, r) /\ list'[c][r] # "absent" /\ h[r].tree = "tree"}]
            /\ Goto(c, IF todo'[c] = {} THEN "done" ELSE "refresh")
       ELSE todo' = todo /\ Goto(c, "units")
  /\ UNCHANGED <<hostVars, ctlVars, at, class, idr, cut, failed, events>>

\* The unit files under a configured org and within the filter; a foreign
\* actions.runner unit matches no org and is left out.
ListUnits(c) ==
  /\ pc[c] = "units" /\ kind[c] \in {"report", "fix"}
  /\ todo' = [todo EXCEPT ![c] = {r \in Runners : h[r].unit /\ InScope(c, r)}]
  /\ Goto(c, "inspect") /\ Fine
  /\ UNCHANGED <<hostVars, ctlVars, at, list, errs, class, idr, cut, moved, events>>

\* Mutant: an org that was not listed has no runners.
ClassifyTrustsAbsence(c, r, row, listed) ==
  IF row = "absent" THEN "orphan-unit"
  ELSE IF ~Conforms(c, h[r].drop) THEN "stale-dropin" ELSE "healthy"

\* classifyPersistent; the order of the cases is the code's.
Classify(c, r, row, listed) ==
  CASE row = "absent" /\ ~listed        -> "unknown"
    [] row = "absent" /\ listed         -> "orphan-unit"
    [] OTHER ->
       CASE h[r].tree = "flat"          -> "legacy-flat"
         [] h[r].tree # "flat" /\ Newer(c, h[r].drop) -> "dropin-newer"
         [] OTHER ->
            IF ~Conforms(c, h[r].drop) THEN "stale-dropin"
            ELSE IF h[r].svc = "down" \/ row = "offline" THEN "stuck"
            ELSE "healthy"

Inspect(c, r) ==
  /\ pc[c] = "inspect" /\ r \in todo[c]
  /\ class' = [class EXCEPT ![c][r] = Classify(c, r, list[c][r], OrgOf[r] \notin errs[c])]
  /\ todo' = [todo EXCEPT ![c] = @ \ {r}]
  /\ Fine
  /\ UNCHANGED <<hostVars, pc, ctlVars, at, list, errs, idr, cut, moved, events>>

\* GitHub rows no unit accounts for, but for those that are online and have no
\* tree here; then the repairs, if this pass makes any.
Unmatched(c) ==
  /\ pc[c] = "inspect" /\ todo[c] = {}
  /\ class' = [class EXCEPT ![c] = [r \in Runners |->
       IF class[c][r] = "none" /\ InScope(c, r) /\ list[c][r] # "absent"
          /\ (list[c][r] = "offline" \/ h[r].tree = "tree")
       THEN "orphan-github" ELSE class[c][r]]]
  /\ todo' = [todo EXCEPT ![c] = {r \in Runners : class'[c][r] # "none"}]
  /\ Goto(c, IF kind[c] = "fix" /\ todo'[c] # {} THEN "repair" ELSE "done") /\ Fine
  /\ UNCHANGED <<hostVars, ctlVars, at, list, errs, idr, cut, moved, events>>

\* Mutant: the busy flag is not looked at.
BusyIgnored(c, r) == FALSE

Busy(c, r) == list[c][r] = "busy"

\* repairRunner, case by case: an orphan is removed ...
RepairOrphan(c, r) ==
  /\ pc[c] = "repair" /\ r \in todo[c] /\ class[c][r] = "orphan-unit" /\ ~Busy(c, r)
  /\ Teardown(c, r)
  /\ at' = [at EXCEPT ![c] = r]
  /\ Goto(c, "wipe") /\ Fine
  /\ UNCHANGED <<reg, lane, base, cfg, ctlVars, planVars, events>>

\* The next runner of the pass, or its end.
Done(c, r, next) ==
  /\ todo' = [todo EXCEPT ![c] = @ \ {r}]
  /\ Goto(c, IF todo[c] \subseteq {r} THEN "done" ELSE next)

WipeOrphan(c) ==
  LET r == at[c] IN
  /\ pc[c] = "wipe" /\ kind[c] = "fix"
  /\ \/ WipeTree(c, r) /\ Fine
     \/ Fail(c, r) /\ UNCHANGED <<h, moved>>
  /\ Done(c, r, "repair")
  /\ UNCHANGED <<reg, job, lane, base, cfg, ctlVars, at, list, errs, class, idr, cut, events>>

\* ... a stale or stuck one is refreshed ...
RepairUnit(c, r) ==
  /\ pc[c] = "repair" /\ r \in todo[c] /\ class[c][r] \in {"stale-dropin", "stuck"} /\ ~Busy(c, r)
  /\ \/ /\ WriteDropIn(c, r) /\ Fine /\ Goto(c, "restart")
        /\ at' = [at EXCEPT ![c] = r] /\ UNCHANGED todo
     \/ /\ \/ h[r].unit /\ Fail(c, r)
           \/ ~h[r].unit /\ Fine
        /\ Done(c, r, "repair") /\ UNCHANGED <<h, at, moved>>
  /\ UNCHANGED <<reg, job, lane, base, cfg, ctlVars, list, errs, class, idr, cut, events>>

\* ... and RefreshUnit ends with the restart, or fails before it.
RestartUnit(c) ==
  LET r == at[c] IN
  /\ pc[c] = "restart"
  /\ \/ h[r].unit /\ Restart(c, r) /\ Fine
     \/ ~h[r].unit /\ Fine /\ UNCHANGED <<h, job, cut, moved>>
     \/ Fail(c, r) /\ UNCHANGED <<h, job, cut, moved>>
  /\ Done(c, r, IF kind[c] = "fix" THEN "repair" ELSE "refresh")
  /\ UNCHANGED <<reg, lane, base, cfg, ctlVars, at, list, errs, class, idr, events>>

\* Everything else only gets a line in the report.
SkipRepair(c, r) ==
  /\ pc[c] = "repair" /\ r \in todo[c]
  /\ Busy(c, r) \/ class[c][r] \notin {"orphan-unit", "stale-dropin", "stuck"}
  /\ Done(c, r, "repair") /\ Fine
  /\ UNCHANGED <<hostVars, ctlVars, at, list, errs, class, idr, cut, moved, events>>

\* RefreshLocalUnits: EnsureBase, drop-in, restart; busy rows are skipped.
RefreshRow(c, r) ==
  /\ pc[c] = "refresh" /\ r \in todo[c]
  /\ \/ /\ ~Busy(c, r)
        /\ base' = base \cup BaseOf(OrgOf[r])
        /\ WriteDropIn(c, r) /\ Fine /\ Goto(c, "restart")
        /\ at' = [at EXCEPT ![c] = r] /\ UNCHANGED todo
     \/ /\ \/ Busy(c, r) /\ Fine
           \/ ~Busy(c, r) /\ (IF h[r].unit THEN Fail(c, r) ELSE Fine)
        /\ Done(c, r, "refresh") /\ UNCHANGED <<h, at, base, moved>>
  /\ UNCHANGED <<reg, job, lane, cfg, ctlVars, list, errs, class, idr, cut, events>>

ReconcileStep(c) ==
  \/ ListAllRunners(c) \/ ListUnits(c) \/ Unmatched(c)
  \/ WipeOrphan(c) \/ RestartUnit(c)
  \/ \E r \in Runners : \/ Inspect(c, r) \/ RepairOrphan(c, r) \/ RepairUnit(c, r)
                        \/ SkipRepair(c, r) \/ RefreshRow(c, r)
=============================================================================
