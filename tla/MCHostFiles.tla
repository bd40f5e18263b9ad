---------------------------- MODULE MCHostFiles -----------------------------
(***************************************************************************)
(* What srm keeps on a Linux host, for model-checking, in six parts that   *)
(* do not meet: the layout under the install root, the subordinate id      *)
(* ranges, the downloads and seeds, the slot of an ephemeral lane with the *)
(* job logs it leaves, the slots an org's lanes take, and the dependency   *)
(* layer.                                                                  *)
(***************************************************************************)
EXTENDS HostBase, SubIds, Downloads, SlotJob, LaneSlots, Provision, TLC

CONSTANTS b1, b2, p1, p2
VARIABLE part

MCHomeOf == (b1 :> "A") @@ (b2 :> "B")

\* Nothing; a stranger's block; a block that is too narrow; wide ones out of order.
MCBooks ==
  {<<>>, <<[user |-> "host", start |-> 100000, count |-> 3]>>,
   <<[user |-> "A", start |-> 100000, count |-> 1]>>,
   <<[user |-> "A", start |-> 100001, count |-> 2], [user |-> "host", start |-> 99990, count |-> 11]>>,
   <<[user |-> "host", start |-> 7, count |-> 9], [user |-> "host", start |-> 100000, count |-> 2]>>}

MCManifests ==
  {Empty,
   [pkgs |-> {"git"}, paths |-> {"cache"}, scripts |-> {"file"}, seeds |-> {"node"}],
   [pkgs |-> {"git", "uidmap"}, paths |-> {}, scripts |-> {"inline"}, seeds |-> {"node", "python"}],
   [pkgs |-> {}, paths |-> {}, scripts |-> {}, seeds |-> {"malformed", "node"}]}

fileVars == <<part, baseVars, subVars, dlVars, slotVars, provVars, lanesVars>>

\* The parts that are not looked at stay as they begin, in one of their beginnings.
\* The host of the dependency layer begins without user namespaces, which only the
\* remediation brings, and with the orgs up to their names.
Init ==
  /\ part \in {"base", "subids", "downloads", "slot", "lanes", "provision"}
  /\ BaseInit /\ SubInit /\ DlInit /\ SlotInit /\ ProvInit /\ LanesInit
  /\ part # "base"      => ~isolated
  /\ part # "subids"    => \A f \in Files : book[f] = <<>>
  /\ part # "downloads" => what = "tarball"
  /\ part # "slot"      => ~rootlessDinD
  /\ part # "provision" => ~perOrg /\ orgs = {} /\ want = Empty /\ pm = "apt"
                           /\ placed = {}
  /\ ~userns /\ orgs # {"B"}

Next ==
  /\ UNCHANGED part
  /\ \/ part = "base"      /\ BaseNext  /\ UNCHANGED <<subVars, dlVars, slotVars, provVars, lanesVars>>
     \/ part = "subids"    /\ SubNext   /\ UNCHANGED <<baseVars, dlVars, slotVars, provVars, lanesVars>>
     \/ part = "downloads" /\ DlNext    /\ UNCHANGED <<baseVars, subVars, slotVars, provVars, lanesVars>>
     \/ part = "slot"      /\ SlotNext  /\ UNCHANGED <<baseVars, subVars, dlVars, provVars, lanesVars>>
     \/ part = "lanes"     /\ LanesNext /\ UNCHANGED <<baseVars, subVars, dlVars, slotVars, provVars>>
     \/ part = "provision" /\ ProvNext  /\ UNCHANGED <<baseVars, subVars, dlVars, slotVars, lanesVars>>

Spec == Init /\ [][Next]_fileVars
=============================================================================
