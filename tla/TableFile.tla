------------------------------ MODULE TableFile -------------------------------
(***************************************************************************)
(* The commit protocol of a table kept in a file (status_table.cc; the     *)
(* same text in path_table.cc and component_update.cc).  The new contents  *)
(* are written to <file>++, the old file is renamed to <file>--, the new   *)
(* one takes its name and the backup is deleted.  Every file operation is  *)
(* a step of its own: the machine may stop between any two of them, and    *)
(* any of them may report an error.                                        *)
(*                                                                         *)
(* A table is one member of Value; Empty is the table read from no file.   *)
(***************************************************************************)

CONSTANTS
  Value,    \* the contents a table can have
  Empty,    \* the contents of a table with no entries
  NoFile,   \* there is no such file
  Partial   \* a file that was only partly written

ASSUME ValueAssumption ==
  /\ Empty \in Value
  /\ NoFile \notin Value
  /\ Partial \notin Value
  /\ NoFile # Partial

VARIABLES
  dst,      \* <file>
  tmp,      \* <file>++
  bak,      \* <file>--
  mem,      \* _data
  pc,       \* the next file operation of commit(), or "idle"
  outcome,  \* how the last commit ended: "none" (no commit since mem changed), "ok" or "error"
  before    \* what a reader would have found when the last commit began

vars == <<dst, tmp, bak, mem, pc, outcome, before>>
files == <<dst, tmp, bak>>

Step == {"idle", "write", "unlink", "backup", "activate", "cleanup"}

\* Faulty variant: reading does not fall back on the backup.
Stored_NoBackup == IF dst # NoFile THEN dst ELSE Empty

\* What rollback() reads: the file, or the backup if there is no file.
Stored ==
  IF dst # NoFile THEN dst
  ELSE IF bak # NoFile THEN bak
  ELSE Empty

Init ==
  /\ dst \in Value \cup {NoFile}
  /\ tmp \in Value \cup {NoFile, Partial}
  /\ bak \in Value \cup {NoFile}
  /\ mem = Stored
  /\ pc = "idle"
  /\ outcome = "none"
  /\ before = Stored

-------------------------------------------------------------------------------
\* Operations of the owner, between commits.

Insert ==
  /\ pc = "idle"
  /\ mem' \in Value
  /\ outcome' = "none"
  /\ UNCHANGED <<files, pc, before>>

Rollback ==
  /\ pc = "idle"
  /\ mem' = Stored
  /\ outcome' = "none"
  /\ UNCHANGED <<files, pc, before>>

\* The machine stops, at any step; when the program starts again the
\* constructor reads the table with rollback().
Restart ==
  /\ mem' = Stored
  /\ pc' = "idle"
  /\ outcome' = "none"
  /\ UNCHANGED <<files, before>>

-------------------------------------------------------------------------------
\* commit(), one file operation at a time.

\* The stream is opened, which truncates <file>++.
Commit ==
  /\ pc = "idle"
  /\ tmp' = Partial
  /\ pc' = "write"
  /\ outcome' = "none"
  /\ before' = Stored
  /\ UNCHANGED <<dst, bak, mem>>

\* commit_error leaves the files as they are.
Throw ==
  /\ pc' = "idle"
  /\ outcome' = "error"
  /\ UNCHANGED <<files, mem, before>>

\* Faulty variant: the stream is not looked at after close().
Write_Unchecked ==
  /\ pc = "write"
  /\ tmp' \in {mem, Partial}
  /\ pc' = IF dst # NoFile THEN "unlink" ELSE "activate"
  /\ UNCHANGED <<dst, bak, mem, outcome, before>>

\* A failed write is noticed after close().
Write ==
  /\ pc = "write"
  /\ \/ /\ tmp' = mem
        /\ pc' = IF dst # NoFile THEN "unlink" ELSE "activate"
        /\ UNCHANGED <<dst, bak, mem, outcome, before>>
     \/ Throw

\* force_move(dst, bak, true) first deletes the old backup; an error of that
\* deletion is swallowed.
Unlink ==
  /\ pc = "unlink"
  /\ bak' \in {NoFile, bak}
  /\ pc' = "backup"
  /\ UNCHANGED <<dst, tmp, mem, outcome, before>>

\* Faulty variant: the old file is deleted, not renamed.
Backup_Deletes ==
  /\ pc = "backup"
  /\ \/ /\ bak = NoFile
        /\ dst' = NoFile
        /\ pc' = "activate"
        /\ UNCHANGED <<bak, tmp, mem, outcome, before>>
     \/ Throw

\* ... and then renames, which fails if the backup is still there.
Backup ==
  /\ pc = "backup"
  /\ \/ /\ bak = NoFile
        /\ bak' = dst
        /\ dst' = NoFile
        /\ pc' = "activate"
        /\ UNCHANGED <<tmp, mem, outcome, before>>
     \/ Throw

Activate ==
  /\ pc = "activate"
  /\ \/ /\ dst = NoFile
        /\ dst' = tmp
        /\ tmp' = NoFile
        /\ pc' = "cleanup"
        /\ UNCHANGED <<bak, mem, outcome, before>>
     \/ Throw

\* force_delete(bak) swallows its errors.
Cleanup ==
  /\ pc = "cleanup"
  /\ bak' \in {NoFile, bak}
  /\ pc' = "idle"
  /\ outcome' = "ok"
  /\ UNCHANGED <<dst, tmp, mem, before>>

Next ==
  \/ Insert
  \/ Rollback
  \/ Restart
  \/ Commit
  \/ Write
  \/ Unlink
  \/ Backup
  \/ Activate
  \/ Cleanup

Spec == Init /\ [][Next]_vars

-------------------------------------------------------------------------------
\* Each variable holds a value of its type; no partly written file is ever
\* at the name the table is read from, nor at its backup's.
TypeOK ==
  /\ dst \in Value \cup {NoFile}
  /\ tmp \in Value \cup {NoFile, Partial}
  /\ bak \in Value \cup {NoFile}
  /\ mem \in Value
  /\ pc \in Step
  /\ outcome \in {"none", "ok", "error"}
  /\ before \in Value

\* status_table.h:96-106: a commit that returns has put the table in memory
\* on disc, and one that throws has left on disc what was there before it.
CommitIsAllOrNothing ==
  /\ outcome = "ok" => Stored = mem
  /\ outcome = "error" => Stored = before

\* The three files and the steps between them implement one durable value
\* that changes only by a commit and in one step: at no point, and so after
\* no crash, does a reader find anything else.
Durable == INSTANCE DurableValue WITH stored <- Stored

ImplementsDurableValue == Durable!Spec

-------------------------------------------------------------------------------
\* What makes the above inductive: where each file stands at each step.
StepInv ==
  /\ pc \in {"unlink", "backup"} => tmp = mem /\ dst # NoFile
  /\ pc = "activate" => tmp = mem /\ dst = NoFile
  /\ pc = "cleanup" => dst = mem
  /\ pc \in {"write", "unlink", "backup", "activate"} => Stored = before
  /\ pc # "idle" => outcome = "none"

IInv == TypeOK /\ StepInv /\ CommitIsAllOrNothing
===============================================================================
