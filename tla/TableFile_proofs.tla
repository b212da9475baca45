--------------------------- MODULE TableFile_proofs ---------------------------
(***************************************************************************)
(* For every set of table contents: the types, the outcome of a commit,    *)
(* and that the three files implement one durable value.                   *)
(***************************************************************************)
EXTENDS TableFile, TLAPS

\* A reader always finds a whole table.
LEMMA StoredType == TypeOK => Stored \in Value
  BY ValueAssumption DEF TypeOK, Stored

LEMMA InitInv == Init => IInv
<1> SUFFICES ASSUME Init PROVE IInv
  OBVIOUS
<1>1. TypeOK
  BY ValueAssumption DEF Init, TypeOK, Stored, Step
<1>2. StepInv /\ CommitIsAllOrNothing
  BY DEF Init, StepInv, CommitIsAllOrNothing
<1> QED
  BY <1>1, <1>2 DEF IInv

LEMMA NextInv == IInv /\ [Next]_vars => IInv'
<1> SUFFICES ASSUME IInv, [Next]_vars PROVE IInv'
  OBVIOUS
<1>1. Stored \in Value
  BY StoredType DEF IInv
<1> USE ValueAssumption, <1>1 DEF IInv, TypeOK, StepInv, CommitIsAllOrNothing, Step, files
<1>2. CASE Insert
  BY <1>2 DEF Insert, Stored
<1>3. CASE Rollback
  BY <1>3 DEF Rollback, Stored
<1>4. CASE Restart
  BY <1>4 DEF Restart, Stored
<1>5. CASE Commit
  BY <1>5 DEF Commit, Stored
<1>6. CASE Write
  BY <1>6 DEF Write, Throw, Stored
<1>7. CASE Unlink
  BY <1>7 DEF Unlink, Stored
<1>8. CASE Backup
  BY <1>8 DEF Backup, Throw, Stored
<1>9. CASE Activate
  BY <1>9 DEF Activate, Throw, Stored
<1>10. CASE Cleanup
  BY <1>10 DEF Cleanup, Stored
<1>11. CASE UNCHANGED vars
  BY <1>11 DEF vars, Stored
<1> QED
  BY <1>2, <1>3, <1>4, <1>5, <1>6, <1>7, <1>8, <1>9, <1>10, <1>11 DEF Next

LEMMA SpecInv == Spec => []IInv
  BY InitInv, NextInv, PTL DEF Spec

\* Every variable keeps its type and no partly written file is ever read.
THEOREM TypeCorrect == Spec => []TypeOK
<1>1. IInv => TypeOK
  BY DEF IInv
<1> QED
  BY SpecInv, <1>1, PTL

\* A commit that returns has stored the table, one that throws has changed
\* nothing (status_table.cc:68-108).
THEOREM CommitCorrect == Spec => []CommitIsAllOrNothing
<1>1. IInv => CommitIsAllOrNothing
  BY DEF IInv
<1> QED
  BY SpecInv, <1>1, PTL

\* Only Activate changes what a reader finds: it is the abstract commit.
LEMMA StepRefines ==
  IInv /\ [Next]_vars => [Durable!Next]_(Durable!vars)
<1> SUFFICES ASSUME IInv, [Next]_vars PROVE [Durable!Next]_(Durable!vars)
  OBVIOUS
<1>1. Stored \in Value
  BY StoredType DEF IInv
<1> USE ValueAssumption, <1>1 DEF IInv, TypeOK, StepInv, files,
        Durable!Next, Durable!vars, Durable!Insert, Durable!Commit, Durable!Rollback
<1>2. CASE Insert
  BY <1>2 DEF Insert, Stored
<1>3. CASE Rollback
  BY <1>3 DEF Rollback, Stored
<1>4. CASE Restart
  BY <1>4 DEF Restart, Stored
<1>5. CASE Commit
  BY <1>5 DEF Commit, Stored
<1>6. CASE Write
  BY <1>6 DEF Write, Throw, Stored
<1>7. CASE Unlink
  BY <1>7 DEF Unlink, Stored
<1>8. CASE Backup
  BY <1>8 DEF Backup, Throw, Stored
<1>9. CASE Activate
  BY <1>9 DEF Activate, Throw, Stored
<1>10. CASE Cleanup
  BY <1>10 DEF Cleanup, Stored
<1>11. CASE UNCHANGED vars
  BY <1>11 DEF vars, Stored
<1> QED
  BY <1>2, <1>3, <1>4, <1>5, <1>6, <1>7, <1>8, <1>9, <1>10, <1>11 DEF Next

\* The three-file protocol, with a stop possible between any two file
\* operations and an error in any of them, implements a durable value.
THEOREM Refinement == Spec => ImplementsDurableValue
<1>1. Init => Durable!Init
  <2> SUFFICES ASSUME Init PROVE Durable!Init
    OBVIOUS
  <2>1. Stored \in Value
    BY InitInv, StoredType DEF IInv
  <2> QED
    BY <2>1 DEF Init, Durable!Init
<1> QED
  BY <1>1, SpecInv, StepRefines, PTL DEF Spec, ImplementsDurableValue, Durable!Spec
===============================================================================
