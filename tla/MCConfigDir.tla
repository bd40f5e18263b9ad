---------------------------- MODULE MCConfigDir ----------------------------
(***************************************************************************)
(* The config directory, for model-checking, in two parts that do not      *)
(* meet: config.yaml as a document, and the keys its orgs refer to.        *)
(***************************************************************************)
EXTENDS ConfigFile, OrgKeys, TLC

CONSTANTS a, b, x, y
VARIABLE side

dirVars == <<side, docVars, keyVars>>

Alike == Permutations(Phrases) \cup Permutations(KeyOrgs)

\* One App, whose key file every org names.
MCPemOf == [o \in KeyOrgs |-> "pem"]

Plain  == [NoOrg EXCEPT !.app = 1]
OwnOrg == [app |-> 1, user |-> "own", cap |-> "org", profile |-> [labels |-> 1, manifest |-> TRUE]]

\* Nothing yet; isolated orgs in an older document; orgs whose slugs collide.
MCDocuments ==
  {Defaults,
   [Defaults EXCEPT !.orgs["A"] = OwnOrg, !.orgs["B"] = Plain,
                    !.perOrgUsers = TRUE, !.mode = "auto"],
   [Defaults EXCEPT !.schema = 1, !.orgs["A"] = Plain, !.orgs["B"] = Plain,
                    !.cap = "host", !.host = {"git"}]}

\* The part that is not looked at stays as it begins, in one of its beginnings.
Init ==
  /\ side \in {"document", "keys"}
  /\ DocInit /\ KeysInit
  /\ side = "keys"     => disk = Defaults
  /\ side = "document" => keyAt = [o \in KeyOrgs |-> "absent"] /\ pems = {} /\ passFile = NoPhrase

Next ==
  /\ UNCHANGED side
  /\ \/ side = "document" /\ DocNext  /\ UNCHANGED keyVars
     \/ side = "keys"     /\ KeysNext /\ UNCHANGED docVars

Spec == Init /\ [][Next]_dirVars

\* Looking no further than the first write over unseen content, which excuses all.
NothingOverwritten == overwrote = {} /\ ~unseen
=============================================================================
