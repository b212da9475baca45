---------------------------- MODULE MCDependencies ----------------------------
(***************************************************************************)
(* Four small catalogues for Dependencies, of four packages.               *)
(*   upgrades: package 1 is satisfied by 2 or 3, its version 2 by a new 2  *)
(*     only, and 4 holds back the version of 2 that it works with;         *)
(*   cycle: 2, 3 and 4 need one another, and 1 needs 2;                    *)
(*   environments: the versions of 2 and 3 are for different environments, *)
(*     and only one is for an environment the machine does not satisfy;    *)
(*   moves: 3 needs a version of 1 that is for another environment, and    *)
(*     the version of 1 that needs 2 may be selected.                      *)
(***************************************************************************)
EXTENDS Dependencies, TLC

Every(p)     == [pkg |-> p, relation |-> "al", version |-> 1]
Rel(p, r, v) == [pkg |-> p, relation |-> r, version |-> v]
K(p, v, e)  == [pkg |-> p, version |-> v, env |-> e]

Upgrades ==
  K(1, 1, 1) :> <<<<Every(2), Every(3)>>>>
  @@ K(1, 2, 1) :> <<<<Rel(2, "ge", 2)>>, <<Every(3)>>>>
  @@ K(2, 1, 1) :> <<>> @@ K(2, 2, 1) :> <<<<Rel(3, "gt", 1), Every(4)>>>>
  @@ K(3, 1, 1) :> <<>> @@ K(3, 2, 1) :> <<>>
  @@ K(4, 1, 1) :> <<<<Rel(2, "lt", 2)>>>>

Cycle ==
  K(1, 1, 1) :> <<<<Every(2)>>>>
  @@ K(2, 1, 1) :> <<<<Every(3)>>>>
  @@ K(3, 1, 1) :> <<<<Every(4)>>>> @@ K(3, 2, 1) :> <<<<Rel(4, "le", 1)>>>>
  @@ K(4, 1, 1) :> <<<<Rel(2, "eq", 1)>>>> @@ K(4, 2, 1) :> <<>>

Environments ==
  K(1, 1, 1) :> <<<<Every(2)>>, <<Rel(3, "ge", 2)>>>>
  @@ K(2, 1, 1) :> <<<<Rel(3, "le", 1), Every(4)>>>> @@ K(2, 2, 2) :> <<<<Every(4)>>>>
  @@ K(3, 1, 1) :> <<>> @@ K(3, 1, 2) :> <<<<Every(4)>>>> @@ K(3, 2, 2) :> <<>>
  @@ K(4, 1, 3) :> <<>> @@ K(4, 1, 2) :> <<>>

Moves ==
  K(1, 1, 1) :> <<<<Every(2)>>>> @@ K(1, 2, 2) :> <<>>
  @@ K(2, 1, 1) :> <<>>
  @@ K(3, 1, 1) :> <<<<Rel(1, "ge", 2)>>>>
  @@ K(4, 1, 1) :> <<<<Every(2), Every(3)>>>>

MCCatalogues == {Upgrades, Cycle, Environments, Moves}
MCPriority == 1 :> 0 @@ 2 :> 1 @@ 3 :> 1

Sel(s, v, e, a) == [state |-> s, version |-> v, env |-> e, auto |-> a]
Choices == {Sel(not_present, 0, 0, FALSE), Sel(installed, 1, 1, FALSE),
            Sel(installed, 1, 1, TRUE)}
MCSelections ==
  {s \in [Package -> Choices \cup {Sel(unpacked, 1, 1, FALSE), Sel(installed, 2, 1, FALSE)}] :
     s[2] \in Choices /\ s[3] \in Choices \cup {Sel(unpacked, 1, 1, FALSE)}}
===============================================================================
