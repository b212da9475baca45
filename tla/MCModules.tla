------------------------------ MODULE MCModules -------------------------------
(***************************************************************************)
(* A small system for what Unpack does with packages that have just a      *)
(* module: package m, whose module may be on the machine already in either *)
(* version and from anywhere, and an ordinary package q, whose version 2   *)
(* is for a newer package manager.                                         *)
(***************************************************************************)
EXTENDS Unpack, TLC

CONSTANTS m, q, mod, man, b, cm, cq

MCControlFile == m :> cm @@ q :> cq
MCModuleFile  == m :> mod @@ q :> NoFile
MCContents    == m :> (1 :> {mod, man} @@ 2 :> {mod}) @@ q :> [v \in Version |-> {b}]
TwoInAll      == <<2, 2, 2>>
MCUnsupported == {<<q, 2>>}

Installed  == [state : {installed}, version : Version]
MCInitial  == {m :> s @@ q :> [state |-> installed, version |-> 1] : s \in Installed \cup {DefaultStatus}}
                \cup {[p \in Package |-> DefaultStatus]}
\* What cannot be processed is selected beside version 2 of m, which can be on the
\* machine as it is, older, or not at all.
MCSelections ==
  {sel \in [Package -> [state : {removed}, version : {0}] \cup Installed] :
     sel[q].version = 2 => sel[m].version = 2}

ASSUME MCConsistent == Consistent /\ Apart
===============================================================================
