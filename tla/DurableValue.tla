----------------------------- MODULE DurableValue -----------------------------
(***************************************************************************)
(* What a committed table promises its users (status_table.h:96-106): the  *)
(* table in memory may be edited freely, commit() puts it on disc as a     *)
(* whole, and rollback() (also run when the program starts) discards what  *)
(* has not been committed.  Nothing is ever read back that was not the     *)
(* argument of a commit.  TableFile implements this with three files.      *)
(***************************************************************************)

CONSTANT Value

VARIABLES
  stored,   \* the committed table
  mem       \* the table in memory

vars == <<stored, mem>>

Init ==
  /\ stored \in Value
  /\ mem = stored

Insert ==
  /\ mem' \in Value
  /\ UNCHANGED stored

Commit ==
  /\ stored' = mem
  /\ UNCHANGED mem

Rollback ==
  /\ mem' = stored
  /\ UNCHANGED stored

Next == Insert \/ Commit \/ Rollback

Spec == Init /\ [][Next]_vars
===============================================================================
