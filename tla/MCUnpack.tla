------------------------------- MODULE MCUnpack -------------------------------
(***************************************************************************)
(* A small system for Unpack: package P with two versions, which share     *)
(* file A, and package Q with two versions, which share file B and have    *)
(* different empty directories.  Version 1 of P has B as well, so that B   *)
(* can move from one package to the other.  Files of unknown origin may be *)
(* in the way of version 2 of P and of its control file.                   *)
(***************************************************************************)
EXTENDS Unpack, TLC

CONSTANTS P, Q, fileA, fileB, fileC, ctrlP, ctrlQ, dirE, dirG, dirH

MCControlFile == [x \in Package |-> IF x = P THEN ctrlP ELSE ctrlQ]
MCContents ==
  [x \in Package |-> IF x = P THEN 1 :> {fileA, fileB} @@ 2 :> {fileA, fileC}
                              ELSE 1 :> {fileB, dirE} @@ 2 :> {fileB, dirG, dirH}]
\* Bounds on the faults.
One == <<1>>
Two == <<2>>
OneInAll == <<1, 1>>

MCModuleFile == [x \in Package |-> NoFile]

\* B cannot be both P's and Q's.
OnePackageEach(st) ==
  ~(Q \in Package /\ st[P] = [state |-> installed, version |-> 1] /\ st[Q].state = installed)

Removed      == [state : {removed}, version : {0}]
Installed(V) == [state : {installed}, version : V]

\* P may have been removed before; Q starts in version 1, if it is there.
MCInitial ==
  {st \in [Package -> {DefaultStatus} \cup [state : {removed, installed}, version : {1, 2}]] :
     /\ OnePackageEach(st)
     /\ Q \in Package => st[Q] \in {DefaultStatus, [state |-> installed, version |-> 1]}}
MCSelections ==
  {st \in [Package -> Removed \cup Installed({1, 2})] : OnePackageEach(st)}

\* In every session B is P's or Q's.
ASSUME MCConsistent == Consistent
===============================================================================
