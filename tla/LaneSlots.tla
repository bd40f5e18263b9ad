----------------------------- MODULE LaneSlots ------------------------------
(***************************************************************************)
(* Which slots of an org have a lane on this host, and what is minted into *)
(* its registrations.  A create takes the lowest free numbers of one       *)
(* listing of the unit files and stands its lanes up one after another; a  *)
(* recreate, from a list of the terminal UI that may be old, reads the     *)
(* lane's mint parameters, destroys it and stands it up again.  Several    *)
(* srm processes, no lock; a command may fail or be killed at any step.    *)
(***************************************************************************)
EXTENDS Integers, FiniteSets, FiniteSetsExt

CONSTANTS
  Callers,      \* srm processes
  MaxSlot,      \* bound on slot numbers
  Params,       \* groups and labels a create may ask for
  Unset,        \* no jit-params file
  DefaultParam, \* the org's default group and no labels
  MaxOrders,    \* bound on commands
  MaxBreaks     \* bound on failures and kills

ASSUME LaneSlotsConstants ==
  /\ MaxSlot \in Nat /\ MaxOrders \in Nat /\ MaxBreaks \in Nat /\ DefaultParam \in Params /\ Unset \notin Params

Slots == 1..MaxSlot

VARIABLES
  lanes,    \* slots with a unit file
  params,   \* jit-params of each slot
  order,    \* what each process is doing; what its last create has made
  wanted,   \* history: the parameters each slot was last created with
  lost,     \* history: slots whose parameters a command that ended left other than
            \* those of the last lane created there, or that commands raced for
  orders, breaks

lanesVars == <<lanes, params, order, wanted, lost, orders, breaks>>

NoOrder == [at |-> "idle", kind |-> "none", count |-> 0, left |-> {}, slot |-> 0,
            with |-> Unset, made |-> {}, before |-> {}, met |-> FALSE]

Running == {c \in Callers : order[c].at # "idle"}

\* A command that starts meets those that run, and every other one meets it.
Start(c, r) ==
  /\ order[c].at = "idle" /\ orders < MaxOrders /\ orders' = orders + 1
  /\ order' = [x \in Callers |->
       IF x = c THEN [r EXCEPT !.met = Running # {}, !.before = lanes]
       ELSE [order[x] EXCEPT !.met = TRUE]]

Proceed(c, r) == order' = [order EXCEPT ![c] = r] /\ UNCHANGED <<orders, breaks>>
Reach(c, s) == [order[c] EXCEPT !.at = s]

\* CreateEphemeralRunners, once the group is resolved and the agent looked up.
BeginCreateLanes(c) ==
  /\ \E n \in 1..2, p \in Params :
       Start(c, [NoOrder EXCEPT !.at = "list", !.kind = "create", !.count = n, !.with = p])
  /\ UNCHANGED <<lanes, params, wanted, lost, breaks>>

\* DestroyEphemeralSlot, or RecreateEphemeralSlot, which reads the parameters
\* first: of a slot that has a lane, or had one when the list was read.
BeginOnLane(c) ==
  /\ \E s \in Slots, k \in {"destroy", "recreate"} :
       /\ wanted[s] # Unset
       /\ Start(c, [NoOrder EXCEPT !.at = "remove", !.kind = k, !.slot = s,
                      !.with = IF params[s] = Unset THEN DefaultParam ELSE params[s]])
  /\ UNCHANGED <<lanes, params, wanted, lost, breaks>>

\* Mutant: the first numbers, whatever is there.
AllocFromOne(occupied, n) == 1..n

\* allocateEphemeralSlots: the lowest free numbers.
Alloc(occupied, n) ==
  CHOOSE S \in SUBSET (Slots \ occupied) :
    Cardinality(S) = n /\ \A s \in S, f \in Slots \ occupied : f < s => f \in S

\* One listing of the unit files, whose other names are skipped.
ListLanes(c) ==
  /\ order[c].at = "list" /\ Cardinality(Slots \ lanes) >= order[c].count
  /\ LET S == Alloc(lanes, order[c].count) IN
       Proceed(c, [Reach(c, "remove") EXCEPT !.left = S, !.slot = Min(S)])
  /\ UNCHANGED <<lanes, params, wanted, lost>>

\* teardownEphemeral and the tree: at the start of an Ensure, of a destroy.
RemoveLane(c) ==
  /\ order[c].at = "remove"
  /\ lanes' = lanes \ {order[c].slot}
  /\ Proceed(c, Reach(c, IF order[c].kind = "create" \/ order[c].slot \in order[c].left
                      THEN "params" ELSE "wipe"))
  /\ UNCHANGED <<params, wanted, lost>>

\* RemoveEphemeralSlot wipes the control directory; a recreate goes on as a
\* create of the one slot.
WipeParams(c) ==
  /\ order[c].at = "wipe"
  /\ params' = [params EXCEPT ![order[c].slot] = Unset]
  /\ IF order[c].kind = "destroy"
       THEN Proceed(c, NoOrder) /\ lost' = lost \cup {order[c].slot}
       ELSE Proceed(c, [Reach(c, "remove") EXCEPT !.left = {order[c].slot}]) /\ UNCHANGED lost
  /\ UNCHANGED <<lanes, wanted>>

\* EnsureEphemeralSlot: the tree is built and jit-params written ...
WriteParams(c) ==
  /\ order[c].at = "params"
  /\ params' = [params EXCEPT ![order[c].slot] = order[c].with]
  /\ Proceed(c, Reach(c, "enable"))
  /\ UNCHANGED <<lanes, wanted, lost>>

\* ... then the unit is written and enabled.
EnableLane(c) ==
  /\ order[c].at = "enable"
  /\ LET o == order[c]
         rest == o.left \ {o.slot}
         done == [o EXCEPT !.made = @ \cup {o.slot}, !.left = rest]
     IN /\ lanes' = lanes \cup {o.slot}
        /\ wanted' = IF o.kind = "create" THEN [wanted EXCEPT ![o.slot] = o.with] ELSE wanted
        /\ lost' = IF o.met THEN lost \cup {o.slot}
                   ELSE IF o.kind = "create" THEN lost \ {o.slot} ELSE lost
        /\ Proceed(c, IF rest = {} THEN (IF o.kind = "create" THEN [done EXCEPT !.at = "idle"] ELSE NoOrder)
                      ELSE [done EXCEPT !.at = "remove", !.slot = Min(rest)])
  /\ UNCHANGED params

\* A call of GitHub, the extraction or systemctl fails, or srm is killed.
BreakOff(c) ==
  /\ order[c].at # "idle" /\ breaks < MaxBreaks /\ breaks' = breaks + 1
  /\ order' = [order EXCEPT ![c] = NoOrder] /\ UNCHANGED orders
  /\ lost' = lost \cup {s \in {order[c].slot} \cap Slots : params[s] # wanted[s]}
  /\ UNCHANGED <<lanes, params, wanted>>

LanesInit ==
  /\ lanes = {} /\ lost = {} /\ orders = 0 /\ breaks = 0
  /\ params = [s \in Slots |-> Unset] /\ wanted = [s \in Slots |-> Unset]
  /\ order = [c \in Callers |-> NoOrder]

LanesNext ==
  \E c \in Callers :
    \/ BeginCreateLanes(c) \/ BeginOnLane(c) \/ ListLanes(c) \/ RemoveLane(c)
    \/ WipeParams(c) \/ WriteParams(c) \/ EnableLane(c) \/ BreakOff(c)

LanesSpec == LanesInit /\ [][LanesNext]_lanesVars

-----------------------------------------------------------------------------
\* CreateEphemeralRunners: "a repeat create ADDS lanes instead of clobbering".  A
\* create beside which no other command runs takes no lane away at any step, and
\* when it has returned the lanes it made are as many as asked for, and no number
\* below one of them is free.
CreateAdds ==
  \A c \in Callers : LET o == order[c] IN
    (o.kind = "create" /\ ~o.met) =>
      /\ o.before \subseteq lanes
      /\ o.at = "idle" => /\ Cardinality(o.made) = o.count /\ o.made \cap o.before = {}
                          /\ \A s \in o.made : 1..s \subseteq lanes

\* RecreateEphemeralSlot: "the SAME slot id, labels, and group".  A lane mints with
\* the parameters it was created with, unless it was destroyed, or a create or a
\* recreate of it was cut short after its parameters were written or wiped, before
\* the recreate that stood it up, or commands overlapped.
RecreateKeepsParams == \A s \in lanes \ lost : params[s] = wanted[s]

\* Commands that build lanes keep the lanes there are (CreateEphemeralRunners,
\* RecreateEphemeralSlot).
LanesAreKept == CreateAdds /\ RecreateKeepsParams
=============================================================================
