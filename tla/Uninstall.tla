------------------------------ MODULE Uninstall ------------------------------
(***************************************************************************)
(* srm uninstall on the state of HostUnits: the plan, the gate that        *)
(* refuses while work is in flight, the teardown of lanes and runners, the *)
(* purge of users and paths and, under --purge, of the config directory,   *)
(* with the org's keys, after a backup.  One org, or the whole host.       *)
(***************************************************************************)
EXTENDS HostUnits

Has(c, f) == f \in flags[c]

\* srm uninstall --org keeps the config directory and the binary.
EffectiveFlags(s, F) == IF s = Host THEN F ELSE F \cup {"keepConfig", "keepBinary"}

RemovesConfig(c) == Has(c, "purge") /\ ~Has(c, "keepConfig") /\ scope[c] = Host

\* uninstallBaseTargets.  A user with a name of the operator's own choice
\* stays; so does the tool cache every runner of the host shares.
Targets(c) ==
  IF scope[c] = Host
  THEN (IF cfg.isolated THEN UNION {OwnBase(o) : o \in Configured}
                    ELSE OwnBase(Host) \ {<<"toolcache", Host>>})
         \cup {<<"root", Host>>, <<"control", Host>>, <<"slice", Host>>}
         \cup {<<"tree", o>> : o \in Configured}
  ELSE (IF cfg.isolated THEN OwnBase(scope[c]) ELSE {}) \cup {<<"tree", scope[c]>>}

\* ListUnits and ListEphemeralUnits, matched with the configured orgs.
Enumerate(c) ==
  /\ pc[c] = "enumerate"
  /\ todo' = [todo EXCEPT ![c] = {r \in Runners : h[r].unit /\ InScope(c, r)}
                                   \cup {l \in Lanes : lane[l] # "gone" /\ InScope(c, l)}]
  /\ moved' = [moved EXCEPT ![c] = {}]
  /\ Goto(c, IF Has(c, "force") THEN "lanes" ELSE "gate") /\ Fine
  /\ UNCHANGED <<hostVars, ctlVars, at, list, errs, class, idr, cut, events>>

\* The drain gate on GitHub's side: every org of a runner in the plan must have
\* been listed, and none of the runners may be busy.
GateRunners(c) ==
  /\ pc[c] = "gate"
  /\ LET mine == todo[c] \cap Runners IN
     IF Has(c, "keepGitHub") \/ mine = {}
     THEN Goto(c, "gateLanes") /\ Fine /\ UNCHANGED moved
     ELSE \/ /\ Goto(c, IF mine \cap job = {} THEN "gateLanes" ELSE "refused")
             /\ moved' = [moved EXCEPT ![c] = @ \ mine] /\ Fine
          \/ /\ Fault /\ Goto(c, "refused") /\ UNCHANGED <<moved, failed>>
  /\ UNCHANGED <<hostVars, ctlVars, at, planVars, cut, events>>

Recorded(l) == lane[l] \in {"waiting", "job"}

\* The drain gate on the host's side: a lane with a recorded id refuses.
GateLanes(c) ==
  /\ pc[c] = "gateLanes"
  /\ LET mine == todo[c] \cap Lanes IN
     /\ Goto(c, IF \E l \in mine : Recorded(l) THEN "refusedLane" ELSE "lanes")
     /\ moved' = [moved EXCEPT ![c] = @ \ mine]
  /\ Fine
  /\ UNCHANGED <<hostVars, ctlVars, at, planVars, cut, events>>

\* RemoveEphemeralSlot: the unit goes first, files may stay.  Before it,
\* DestroyEphemeralSlot deregisters a recorded id and gives up if it cannot.
RemoveLane(c, l) ==
  /\ pc[c] = "lanes" /\ l \in todo[c] \cap Lanes
  /\ \/ /\ lane' = [lane EXCEPT ![l] = "gone"]
        /\ Stops(c, l, lane[l] = "job") /\ Touch(c, {l})
        /\ Fine \/ Fail(c, l)
     \/ /\ Recorded(l) /\ ~Has(c, "keepGitHub") /\ Fail(c, l)
        /\ UNCHANGED <<lane, cut, moved>>
  /\ todo' = [todo EXCEPT ![c] = @ \ {l}]
  /\ UNCHANGED <<h, reg, job, base, cfg, pc, ctlVars, at, list, errs, class, idr, events>>

\* RemoveRunner, with the id of its tree read before the teardown when the
\* registration is to go as well (DestroyRunner).
TeardownRunner(c, r) ==
  /\ pc[c] = "lanes" /\ todo[c] \cap Lanes = {} /\ r \in todo[c]
  /\ Teardown(c, r)
  /\ idr' = [idr EXCEPT ![c] = IF h[r].tree = "tree" THEN h[r].id ELSE NoId]
  /\ todo' = [todo EXCEPT ![c] = @ \ {r}]
  /\ at' = [at EXCEPT ![c] = r]
  /\ Goto(c, "wipe") /\ Fine
  /\ UNCHANGED <<reg, lane, base, cfg, ctlVars, list, errs, class, events>>

WipeRunner(c) ==
  LET r == at[c] IN
  /\ pc[c] = "wipe" /\ kind[c] = "uninstall"
  /\ \/ WipeTree(c, r) /\ Fine
     \/ Fail(c, r) /\ UNCHANGED <<h, moved>>
  /\ Goto(c, IF Has(c, "keepGitHub") THEN "lanes" ELSE "deregister")
  /\ UNCHANGED <<reg, job, lane, base, cfg, ctlVars, at, planVars, cut, events>>

\* Without an id of its own the registration is left to be seen by others.
DeregisterRunner(c) ==
  LET r == at[c] IN
  /\ pc[c] = "deregister"
  /\ \/ /\ reg[r] # NoId /\ reg[r] = idr[c] /\ Fine
        /\ Forget(r) /\ job' = job \ {r} /\ Stops(c, r, r \in job)
     \/ /\ reg[r] = NoId \/ reg[r] # idr[c]
        /\ Fine /\ UNCHANGED <<h, reg, job, cut>>
     \/ Fail(c, r) /\ UNCHANGED <<h, reg, job, cut>>
  /\ Touch(c, {r})
  /\ Goto(c, "lanes")
  /\ UNCHANGED <<lane, base, cfg, ctlVars, at, planVars, events>>

\* PurgeBase: what cannot be removed is reported and the rest goes all the
\* same.  With the roots go the trees in them.
PurgeBase(c) ==
  /\ pc[c] = "lanes" /\ todo[c] = {}
  /\ \E stuck \in SUBSET (Targets(c) \cap base) :
       /\ Cardinality(stuck) <= 1
       /\ IF stuck = {} THEN Fine ELSE Fault /\ failed' = [failed EXCEPT ![c] = @ \cup {Host}]
       /\ base' = base \ (Targets(c) \ stuck)
       /\ LET gone == {o \in Configured : <<"tree", o>> \in Targets(c) \ stuck} IN
          /\ h' = [r \in Runners |->
               IF OrgOf[r] \in gone /\ h[r].tree # "none" /\ (scope[c] = Host \/ h[r].tree = "tree")
               THEN [h[r] EXCEPT !.tree = "none", !.id = NoId] ELSE h[r]]
          /\ Touch(c, {r \in Runners : h'[r] # h[r]})
  /\ Goto(c, IF RemovesConfig(c) THEN "backup" ELSE "binary")
  /\ UNCHANGED <<reg, job, lane, cfg, ctlVars, at, planVars, cut, events>>

\* Mutant: a failed backup is reported like the other failures.
BackupBestEffort(c) ==
  /\ pc[c] = "backup" /\ Goto(c, "config")
  /\ \/ cfg' = [cfg EXCEPT !.backup = "full"] /\ Fine
     \/ cfg' = [cfg EXCEPT !.backup = "torn"] /\ Fail(c, Host)
  /\ UNCHANGED <<h, reg, job, lane, base, ctlVars, at, planVars, cut, moved, events>>

\* BackupConfigDir: every file of the directory in one archive; a failure may
\* leave half of it, and the purge stops there.  An archive is named after its
\* time, so that none replaces another: cfg.backup is the best there is.
BackupConfigDir(c) ==
  /\ pc[c] = "backup"
  /\ \/ cfg.dir /\ cfg' = [cfg EXCEPT !.backup = "full"] /\ Goto(c, "config") /\ Fine
     \/ /\ \E b \in {"none", "torn"} : cfg' = [cfg EXCEPT !.backup = IF @ = "none" THEN b ELSE @]
        /\ Goto(c, "done") /\ failed' = [failed EXCEPT ![c] = @ \cup {Host}]
        /\ IF cfg.dir THEN Fault ELSE UNCHANGED faults
  /\ UNCHANGED <<h, reg, job, lane, base, ctlVars, at, planVars, cut, moved, events>>

RemoveConfigDir(c) ==
  /\ pc[c] = "config"
  /\ \/ cfg' = [cfg EXCEPT !.dir = FALSE] /\ Fine
     \/ cfg' = cfg /\ Fail(c, Host)
  /\ Goto(c, "binary")
  /\ UNCHANGED <<h, reg, job, lane, base, ctlVars, at, planVars, cut, moved, events>>

RemoveBinary(c) ==
  /\ pc[c] = "binary"
  /\ cfg' = [cfg EXCEPT !.binary = @ /\ (Has(c, "keepBinary") \/ scope[c] # Host)]
  /\ Goto(c, "done") /\ Fine
  /\ UNCHANGED <<h, reg, job, lane, base, ctlVars, at, planVars, cut, moved, events>>

UninstallStep(c) ==
  \/ Enumerate(c) \/ GateRunners(c) \/ GateLanes(c) \/ WipeRunner(c)
  \/ DeregisterRunner(c) \/ PurgeBase(c)
  \/ BackupConfigDir(c) \/ RemoveConfigDir(c) \/ RemoveBinary(c)
  \/ \E l \in Lanes : RemoveLane(c, l)
  \/ \E r \in Runners : TeardownRunner(c, r)
=============================================================================
