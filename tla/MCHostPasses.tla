---------------------------- MODULE MCHostPasses ----------------------------
(***************************************************************************)
(* Two orgs with a runner each and a foreign unit for model-checking       *)
(* HostPasses; srm invocations of two template generations.                *)
(***************************************************************************)
EXTENDS HostPasses, TLC

CONSTANTS a, b, other, ra, rb, rx, la, c1, c2

OwnerOf      == [x \in Things |-> IF x = rb THEN b ELSE IF x = rx THEN other ELSE a]
Generations  == (c1 :> 1 @@ c2 :> 2)
Jobs         == (c1 :> {"fix", "refresh", "uninstall"} @@ c2 :> {"fix", "create"})
Hosts        == {[sit |-> [r \in Runners |-> IF r = ra THEN s ELSE "healthy"], isolated |-> i] :
                   s \in Situations, i \in {TRUE}}
                \cup {[sit |-> [r \in Runners |-> "healthy"], isolated |-> FALSE]}
FlagSets     == {{}, {"force"}, {"keepGitHub", "purge"}}
=============================================================================
