------------------------------- MODULE MCCommit -------------------------------
(***************************************************************************)
(* A small system for Commit: packages P and Q, whose files are scripts    *)
(* for their triggers.  Version 1 of P is removed by its own scripts, and  *)
(* version 2 can unwind what its pre-install trigger did; version 1 of Q   *)
(* can unwind its pre-remove trigger, and version 2 has a pre-install      *)
(* trigger that only version 1 can unwind.                                 *)
(* P is removed, and Q is purged.                                          *)
(***************************************************************************)
EXTENDS Commit, TLC

CONSTANTS P, Q, preP, postP, postrmP, preQ, postQ, prermQ, ctrlP, ctrlQ, absent

MCControlFile == P :> ctrlP @@ Q :> ctrlQ
MCContents ==
  P :> (1 :> {postP, postrmP} @@ 2 :> {preP, postP, postrmP})
    @@ Q :> (1 :> {postQ, prermQ} @@ 2 :> {preQ, prermQ})
\* Two faults in the first operation, or one in the first two.
TwoOrOne == <<2, 1>>

MCModuleFile == [p \in Package |-> NoFile]

MCPreInstall  == P :> preP    @@ Q :> preQ
MCPostInstall == P :> postP   @@ Q :> postQ
MCPreRemove   == P :> absent  @@ Q :> prermQ
MCPostRemove  == P :> postrmP @@ Q :> absent

Removed      == [state |-> removed, version |-> 0]
Installed(v) == [state |-> installed, version |-> v]

MCInitial    == {P :> s @@ Q :> t : s \in {DefaultStatus, Installed(1)},
                                    t \in {DefaultStatus, Installed(1)}}
MCSelections == {P :> s @@ Q :> t : s \in {Removed}, t \in {Installed(1), Installed(2)}}
             \cup {P :> s @@ Q :> t : s \in {Installed(2)}, t \in {DefaultStatus, Installed(2)}}

\* The hypotheses of the theorems about sessions and triggers.
ASSUME MCConsistent == Consistent /\ ModulesHaveNoTriggers
===============================================================================
