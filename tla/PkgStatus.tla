------------------------------ MODULE PkgStatus -------------------------------
(***************************************************************************)
(* The status of a package (status.h, status.cc) and the four tests that   *)
(* decide what a change from a current to a selected status requires.      *)
(*                                                                         *)
(* A status is [state, version].  "version" stands for the pair of version *)
(* and environment identifier, which the tests compare together; 0 is the  *)
(* version of a package that never had one.  The flags are left out: no    *)
(* test below reads them.                                                  *)
(***************************************************************************)
EXTENDS Integers

CONSTANT Version
ASSUME VersionAssumption == Version \subseteq Nat \ {0}

\* status::state_type.  The numbers are those of the enumeration: the code
\* compares states with < and >=.
not_present     == 0
removed         == 1
half_unpacked   == 2
unpacked        == 3
half_configured == 4
installed       == 5

PkgState == 0..5
Status == [state : PkgState, version : Version \cup {0}]

DefaultStatus == [state |-> not_present, version |-> 0]

UnpackReq_StateOnly(cur, sel) == sel.state >= unpacked /\ cur.state < unpacked
UnpackReq(cur, sel) ==
  /\ sel.state >= unpacked
  /\ cur.state < unpacked \/ cur.version # sel.version

RemoveReq_Unpacked(cur, sel) ==
  /\ cur.state >= unpacked
  /\ sel.state <= removed \/ cur.version # sel.version
RemoveReq(cur, sel) ==
  /\ cur.state > removed
  /\ sel.state <= removed \/ cur.version # sel.version

ConfigReq(cur, sel) ==
  /\ sel.state >= installed
  /\ cur.state < installed \/ cur.version # sel.version

PurgeReq(cur, sel) ==
  /\ sel.state <= not_present
  /\ cur.state > not_present
===============================================================================
