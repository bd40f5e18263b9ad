--------------------------- MODULE MCEphemeralLane ---------------------------
(***************************************************************************)
(* Small fleets for model-checking EphemeralLane.                          *)
(***************************************************************************)
EXTENDS EphemeralLane, TLC

CONSTANTS a, b, h1, h2, i1, i2, i3, i4, op1, op2

\* One lane, slot 1 of host h1, and ids enough for a live registration, an
\* orphan for every fault and one still recorded.
OneLaneOwner == [id \in Ids |-> a]
OneHost      == [l \in Lanes |-> h1]
OneSlot      == [l \in Lanes |-> 1]
OneOpHost    == [o \in Operators |-> h1]

\* Two hosts of the same org that both allocated the lowest free slot, 1, with
\* two ids each.
TwoLaneOwner == (i1 :> a @@ i2 :> a @@ i3 :> b @@ i4 :> b)
TwoHosts     == (a :> h1 @@ b :> h2)
TwoOpHosts   == (op1 :> h1 @@ op2 :> h2)

=============================================================================
