------------------------- MODULE UnpackOutcome_proofs -------------------------
(***************************************************************************)
(* For every set of packages, files and versions, and any number of        *)
(* sessions and failures: how a session leaves the statuses and the files, *)
(* whether it ends well or is backed out.                                  *)
(***************************************************************************)
EXTENDS Unpack_proofs

ToBeUnpacked == packagesToUnpack \cup packagesPreUnpacked \cup packagesBeingUnpacked
ToBeRemoved  == packagesToRemove \cup packagesBeingRemoved
Onward       == PreState \cup ForwardState \cup FinalState

\* Selected statuses are those of Initial or Selections.
SelectedStates ==
  \A p \in Package : selstat[p].state \in {not_present, removed, installed}

\* The sets are emptied one into the next.
SetsEmptied ==
  /\ state \in MidState \cup {"pre_remove"} => packagesToUnpack = {}
  /\ state \in MidState => packagesToRemove = {}
  /\ state = "pre_unpack" => packagesBeingRemoved = {}
  /\ state \in PreState \cup {"copy_post_remove", "run_pre_remove_triggers",
                              "remove_files_replaced_by_dirs",
                              "unwind_remove_files_replaced_by_dirs", "unwind_pre_remove_triggers",
                              "unwind_copy_post_remove", "unwind_pre_remove", "unwind_pre_unpack"}
       => packagesBeingUnpacked = {}
  /\ state \in {"run_pre_install_triggers", "replace", "remove"} \cup FinalState
       => packagesPreUnpacked = {}
  /\ state \in {"create_empty_dirs", "post_unpack", "unwind_pre_unpack"} => packagesBeingRemoved = {}
  /\ packagesToUnpack \cap (packagesPreUnpacked \cup packagesBeingUnpacked) = {}

\* No directory is removed in a session that is backed out before the point of
\* no return: nothing that can fail comes between.
DirsKept ==
  ~committed /\ state \in PreState \cup (ForwardState \ {"remove"}) \cup UnwindState => dirsRemoved = {}

\* A package is served by a module exactly if it is to be updated in the end.
ServedInv ==
  state \in Onward =>
    /\ existingModulePackages = Served
    /\ \A p \in Served :
         p \in SelectedPackages /\ ModuleFile[p] # NoFile /\ moduleVersion[p] >= selstat[p].version

\* What of the status table is on the disc.
Saved ==
  /\ state \in {"done", "fail"} => curstat = disk
  /\ state \in PreState => disk = prevstat
  /\ state \in MidState \ FinalState /\ ~UnwoundStatus => curstat = disk

\* Before the point of no return, a package that is in no set is as before.
Backed(p) ==
  /\ prevstat[p].state >= unpacked /\ p \notin ToBeRemoved => curstat[p] = prevstat[p]
  /\ /\ prevstat[p].state <= removed
     /\ p \notin packagesPreUnpacked \cup packagesBeingUnpacked
     => curstat[p].state <= removed
  /\ state \in PreState =>
       /\ p \in packagesToUnpack /\ prevstat[p].state >= unpacked => p \in packagesToRemove
       /\ p \in packagesToRemove /\ prevstat[p].state <= removed => p \in packagesPreUnpacked

BackedInv == state \in PreState \cup MidState /\ ~committed => \A p \in Package \ Served : Backed(p)

\* On the way forward, a package that is in no set any more is as selected.
AsSelected(p) ==
  /\ selstat[p].state >= unpacked =>
       /\ p \in ToBeRemoved => p \in ToBeUnpacked
       /\ p \in packagesPreUnpacked \cup packagesBeingUnpacked => curstat[p].version = selstat[p].version
       /\ p \in packagesBeingUnpacked => mfTmp[p] = Contents[p][selstat[p].version]
       /\ p \notin ToBeUnpacked =>
            /\ curstat[p].state >= unpacked /\ curstat[p].version = selstat[p].version
            /\ curstat[p] # prevstat[p] => mfDst[p] = Contents[p][selstat[p].version]
  /\ selstat[p].state <= removed /\ p \notin ToBeRemoved =>
       /\ curstat[p].state = removed \/ curstat[p] = prevstat[p]
       /\ curstat[p].state <= removed
       /\ prevstat[p].state > removed /\ "delete" \notin failed => ReadManifest(p) = {}

OnwardInv == state \in Onward => \A p \in Package \ Served : AsSelected(p)

\* At a good end the same holds on the disc, and a package that a module serves
\* as is installed in a version that will do, unless the database was not updated.
DoneInv ==
  state = "done" =>
    \A p \in Package :
      IF selstat[p].state = installed
      THEN \/ disk[p].state >= unpacked /\ disk[p].version = selstat[p].version
           \/ /\ ModuleFile[p] # NoFile
              /\ \/ "module" \in failed
                 \/ disk[p].state = installed /\ disk[p].version >= selstat[p].version
      ELSE /\ disk[p].state <= removed
           /\ disk[p].state = removed \/ disk[p] = prevstat[p]

SessionInv ==
  SelectedStates /\ SetsEmptied /\ DirsKept /\ FinalCommitted /\ ServedInv /\ Saved /\ BackedInv /\ OnwardInv
    /\ DoneInv /\ StatusBackedOut /\ DoneAsSelected /\ ModuleServes

IdleSaved == state = "idle" => curstat = disk

StatusInv == TypeInv /\ SessionInv /\ IdleSaved

-------------------------------------------------------------------------------
(* The polls that leave the statuses and the sets of packages alone.       *)

\* The moves from one state to the next, or to the unwinding of one that failed.
Advances ==
  {<<"pre_unpack", "pre_remove">>,
   <<"copy_post_remove", "run_pre_remove_triggers">>,
   <<"copy_post_remove", "unwind_copy_post_remove">>,
   <<"run_pre_remove_triggers", "remove_files_replaced_by_dirs">>,
   <<"run_pre_remove_triggers", "unwind_pre_remove_triggers">>,
   <<"remove_files_replaced_by_dirs", "unpack">>,
   <<"unpack", "run_pre_install_triggers">>,
   <<"run_pre_install_triggers", "replace">>,
   <<"run_pre_install_triggers", "unwind_pre_install_triggers">>,
   <<"replace", "remove">>,
   <<"post_remove", "create_empty_dirs">>,
   <<"create_empty_dirs", "post_unpack">>,
   <<"unwind_create_empty_dirs", "unwind_replace">>,
   <<"unwind_replace", "unwind_remove">>,
   <<"unwind_remove", "unwind_pre_install_triggers">>,
   <<"unwind_pre_install_triggers", "unwind_unpack">>,
   <<"unwind_unpack", "unwind_remove_files_replaced_by_dirs">>,
   <<"unwind_remove_files_replaced_by_dirs", "unwind_pre_remove_triggers">>,
   <<"unwind_pre_remove_triggers", "unwind_copy_post_remove">>,
   <<"unwind_copy_post_remove", "unwind_pre_remove">>,
   <<"unwind_pre_remove", "unwind_pre_unpack">>}

\* Where the handler leads to from the states of quiet polls that throw.
Thrown ==
  {<<"unpack", "unwind_unpack">>, <<"replace", "unwind_replace">>,
   <<"create_empty_dirs", "unwind_create_empty_dirs">>}

SetOfState ==
  /\ state = "pre_unpack" => packagesToUnpack = {}
  /\ state = "unpack" => packagesPreUnpacked = {}
  /\ state = "post_remove" => packagesBeingRemoved = {}
  /\ state = "unwind_unpack" => packagesBeingUnpacked = {}
  /\ state = "unwind_pre_remove" => packagesBeingRemoved = {}

Quiet ==
  /\ UNCHANGED <<disk, packageVars, mfVars, dirsRemoved, sessionVars>>
  /\ state # "idle" /\ failed \subseteq failed'
  /\ \/ UNCHANGED <<state, curstat>>
     \/ <<state, state'>> \in Advances /\ UNCHANGED curstat /\ SetOfState
     \/ <<state, state'>> \in Thrown /\ curstat' = disk
     \/ state = "unwind_replace" /\ state' = "fail" /\ curstat' = disk /\ "restore" \in failed'

QuietPoll ==
  \/ PreUnpackCheckFile \/ PreUnpackCheckEmptyDir \/ PreUnpackDone
  \/ CopyPostRemove \/ RunPreRemoveTriggers \/ RemoveFilesReplacedByDirs
  \/ UnpackFile \/ UnpackDone \/ RunPreInstallTriggers
  \/ ReplaceFile \/ ReplaceCheckEmptyDir \/ ReplaceDone \/ RemoveFile
  \/ PostRemoveFile \/ PostRemoveDone \/ CreateEmptyDir \/ CreateEmptyDirsDone
  \/ UnwindCreateEmptyDir \/ UnwindCreateEmptyDirsDone
  \/ UnwindReplaceFile \/ UnwindReplaceDone \/ UnwindRemoveDone
  \/ UnwindPreInstallTriggers \/ UnwindUnpackFile \/ UnwindUnpackDone
  \/ UnwindRemoveFilesReplacedByDirs \/ UnwindPreRemoveTriggers \/ UnwindCopyPostRemove
  \/ UnwindPreRemoveDone

LEMMA ExceptionValues ==
  /\ ExceptionState["unpack"] = "unwind_unpack"
  /\ ExceptionState["replace"] = "unwind_replace"
  /\ ExceptionState["create_empty_dirs"] = "unwind_create_empty_dirs"
  /\ \A s \in PreState \cup UnwindState \cup {"post_remove", "post_unpack"} : ExceptionState[s] = "fail"
  BY DEF ExceptionState, State, PreState, MidState, ForwardState, FinalState, UnwindState, EndState

LEMMA QuietPolls == QuietPoll => Quiet
<1> SUFFICES ASSUME QuietPoll PROVE Quiet
  OBVIOUS
<1> USE ExceptionValues
    DEF Quiet, SetOfState, statVars, fsVars, mfVars, packageVars, unpackVars, removeVars, dirVars,
        fileVars, sessionVars, NoFault, Fault, Throw, Progress, Verdict, PreState, UnwindState
<1>1. CASE PreUnpackCheckFile
  BY <1>1 DEF PreUnpackCheckFile, Advances, Thrown
<1>2. CASE PreUnpackCheckEmptyDir
  BY <1>2 DEF PreUnpackCheckEmptyDir, Advances, Thrown
<1>3. CASE PreUnpackDone
  BY <1>3 DEF PreUnpackDone, Advances, Thrown
<1>4. CASE CopyPostRemove
  BY <1>4 DEF CopyPostRemove, Advances, Thrown
<1>5. CASE RunPreRemoveTriggers
  BY <1>5 DEF RunPreRemoveTriggers, Advances, Thrown
<1>6. CASE RemoveFilesReplacedByDirs
  BY <1>6 DEF RemoveFilesReplacedByDirs, Advances, Thrown
<1>7. CASE UnpackFile
  BY <1>7 DEF UnpackFile, Advances, Thrown
<1>8. CASE UnpackDone
  BY <1>8 DEF UnpackDone, Advances, Thrown
<1>9. CASE RunPreInstallTriggers
  BY <1>9 DEF RunPreInstallTriggers, Advances, Thrown
<1>10. CASE ReplaceFile
  <2>1. ASSUME NEW f, NEW overwrite, ReplaceFileFails(f, overwrite, "replace")
        PROVE  failed \subseteq failed'
    <3>1. NoFault \/ Fault("replace")
      BY <2>1, ReplaceFailsOutcome
    <3> QED
      BY <3>1
  <2> QED
    BY <1>10, <2>1 DEF ReplaceFile, BackupStays, Advances, Thrown
<1>11. CASE ReplaceCheckEmptyDir
  BY <1>11 DEF ReplaceCheckEmptyDir, Advances, Thrown
<1>12. CASE ReplaceDone
  BY <1>12 DEF ReplaceDone, Advances, Thrown
<1>13. CASE RemoveFile
  BY <1>13 DEF RemoveFile, BackupStays, Advances, Thrown
<1>14. CASE PostRemoveFile
  BY <1>14 DEF PostRemoveFile, BackupStays, Advances, Thrown
<1>15. CASE PostRemoveDone
  BY <1>15 DEF PostRemoveDone, Advances, Thrown
<1>16. CASE CreateEmptyDir
  BY <1>16 DEF CreateEmptyDir, Advances, Thrown
<1>17. CASE CreateEmptyDirsDone
  BY <1>17 DEF CreateEmptyDirsDone, Advances, Thrown
<1>18. CASE UnwindCreateEmptyDir
  BY <1>18 DEF UnwindCreateEmptyDir, Advances, Thrown
<1>19. CASE UnwindCreateEmptyDirsDone
  BY <1>19 DEF UnwindCreateEmptyDirsDone, Advances, Thrown
<1>20. CASE UnwindReplaceFile
  BY <1>20 DEF UnwindReplaceFile, RestoreFile, RestoreFileFails, Advances, Thrown
<1>21. CASE UnwindReplaceDone
  BY <1>21 DEF UnwindReplaceDone, Advances, Thrown
<1>22. CASE UnwindRemoveDone
  BY <1>22 DEF UnwindRemoveDone, Advances, Thrown
<1>23. CASE UnwindPreInstallTriggers
  BY <1>23 DEF UnwindPreInstallTriggers, Advances, Thrown
<1>24. CASE UnwindUnpackFile
  BY <1>24 DEF UnwindUnpackFile, Advances, Thrown
<1>25. CASE UnwindUnpackDone
  BY <1>25 DEF UnwindUnpackDone, Advances, Thrown
<1>26. CASE UnwindRemoveFilesReplacedByDirs
  BY <1>26 DEF UnwindRemoveFilesReplacedByDirs, Advances, Thrown
<1>27. CASE UnwindPreRemoveTriggers
  BY <1>27 DEF UnwindPreRemoveTriggers, Advances, Thrown
<1>28. CASE UnwindCopyPostRemove
  BY <1>28 DEF UnwindCopyPostRemove, Advances, Thrown
<1>29. CASE UnwindPreRemoveDone
  BY <1>29 DEF UnwindPreRemoveDone, Advances, Thrown
<1> QED
  BY <1>1, <1>2, <1>3, <1>4, <1>5, <1>6, <1>7, <1>8, <1>9, <1>10, <1>11, <1>12, <1>13, <1>14,
     <1>15, <1>16, <1>17, <1>18, <1>19, <1>20, <1>21, <1>22, <1>23, <1>24, <1>25, <1>26, <1>27,
     <1>28, <1>29 DEF QuietPoll
-------------------------------------------------------------------------------
(* The polls that leave the files and the sets of packages alone. *)

\* What a move from one state to the next shows to be empty.
EmptiedByMove ==
  /\ state = "pre_unpack"     => filesToUnpack = {} /\ packagesToUnpack = {}
  /\ state = "unpack"         => filesToUnpack = {} /\ packagesPreUnpacked = {}
  /\ state = "replace"        => filesBeingUnpacked = {}
  /\ state = "remove"         => filesToRemove = {}
  /\ state = "post_remove"    => filesBeingRemoved = {} /\ packagesBeingRemoved = {}
  /\ state = "unwind_replace" => filesUnpacked = {}
  /\ state = "unwind_unpack"  => filesBeingUnpacked = {} /\ packagesBeingUnpacked = {}

SetsStill ==
  /\ UNCHANGED <<pkgname, disk, dst, tmp, mfVars, packageVars, unpackVars, removeVars,
                 sessions, orig, selstat, prevstat>>
  /\ state \notin EndState /\ failed \subseteq failed'
  /\ \/ UNCHANGED <<state, curstat, committed>>
     \/ <<state, state'>> \in Advances /\ EmptiedByMove /\ UNCHANGED <<curstat, committed>>
     \/ <<state, state'>> = <<"remove", "post_remove">> /\ EmptiedByMove /\ UNCHANGED curstat /\ committed'
     \/ /\ <<state, state'>> = <<"create_empty_dirs", "unwind_create_empty_dirs">>
        /\ curstat' = disk /\ "mkdir" \in failed' /\ UNCHANGED committed
     \/ <<state, state'>> = <<"unwind_remove", "fail">> /\ curstat' = disk /\ UNCHANGED committed

\* Those that do not.
SetsPolls ==
  \/ PreUnpackCheckFile \/ PreUnpackSelectPackage \/ PreRemoveSelectPackage \/ PreRemoveDone
  \/ UnpackFile \/ UnpackSelectPackage \/ ReplaceFile \/ RemoveFile
  \/ PostRemoveFile \/ PostRemovePackage \/ PostUnpackPackage \/ PostUnpackDone
  \/ UnwindReplaceFile \/ UnwindUnpackFile \/ UnwindUnpackPackage
  \/ UnwindPreRemovePackage \/ UnwindPreUnpackPackage \/ UnwindPreUnpackDone

LEMMA StillPolls == Poll => SetsStill \/ SetsPolls
<1> SUFFICES ASSUME Poll, ~SetsPolls PROVE SetsStill
  OBVIOUS
<1> USE ExceptionValues
    DEF SetsStill, EmptiedByMove, statVars, fsVars, mfVars, packageVars, unpackVars, removeVars,
        dirVars,
        fileVars, sessionVars, NoFault, Fault, Throw, Progress, Verdict, PreState, UnwindState, EndState
<1>1. CASE PreUnpackCheckEmptyDir
  BY <1>1 DEF PreUnpackCheckEmptyDir, Advances
<1>2. CASE PreUnpackDone
  BY <1>2 DEF PreUnpackDone, Advances
<1>3. CASE CopyPostRemove
  BY <1>3 DEF CopyPostRemove, Advances
<1>4. CASE RunPreRemoveTriggers
  BY <1>4 DEF RunPreRemoveTriggers, Advances
<1>5. CASE RemoveFilesReplacedByDirs
  BY <1>5 DEF RemoveFilesReplacedByDirs, Advances
<1>6. CASE UnpackDone
  BY <1>6 DEF UnpackDone, Advances
<1>7. CASE RunPreInstallTriggers
  BY <1>7 DEF RunPreInstallTriggers, Advances
<1>8. CASE ReplaceCheckEmptyDir
  BY <1>8 DEF ReplaceCheckEmptyDir, Advances
<1>9. CASE ReplaceDone
  BY <1>9 DEF ReplaceDone, Advances
<1>10. CASE RemoveDir
  BY <1>10 DEF RemoveDir, Advances
<1>11. CASE RemoveDone
  BY <1>11 DEF RemoveDone, Advances
<1>12. CASE PostRemoveDone
  BY <1>12 DEF PostRemoveDone, Advances
<1>13. CASE CreateEmptyDir
  BY <1>13 DEF CreateEmptyDir, Advances
<1>14. CASE CreateEmptyDirsDone
  BY <1>14 DEF CreateEmptyDirsDone, Advances
<1>15. CASE UnwindCreateEmptyDir
  BY <1>15 DEF UnwindCreateEmptyDir, Advances
<1>16. CASE UnwindCreateEmptyDirsDone
  BY <1>16 DEF UnwindCreateEmptyDirsDone, Advances
<1>17. CASE UnwindReplaceDone
  BY <1>17 DEF UnwindReplaceDone, Advances
<1>18. CASE UnwindRemoveDir
  BY <1>18 DEF UnwindRemoveDir, Advances
<1>19. CASE UnwindRemoveDone
  BY <1>19 DEF UnwindRemoveDone, Advances
<1>20. CASE UnwindPreInstallTriggers
  BY <1>20 DEF UnwindPreInstallTriggers, Advances
<1>21. CASE UnwindUnpackDone
  BY <1>21 DEF UnwindUnpackDone, Advances
<1>22. CASE UnwindRemoveFilesReplacedByDirs
  BY <1>22 DEF UnwindRemoveFilesReplacedByDirs, Advances
<1>23. CASE UnwindPreRemoveTriggers
  BY <1>23 DEF UnwindPreRemoveTriggers, Advances
<1>24. CASE UnwindCopyPostRemove
  BY <1>24 DEF UnwindCopyPostRemove, Advances
<1>25. CASE UnwindPreRemoveDone
  BY <1>25 DEF UnwindPreRemoveDone, Advances
<1> QED
  BY <1>1, <1>2, <1>3, <1>4, <1>5, <1>6, <1>7, <1>8, <1>9, <1>10, <1>11, <1>12, <1>13, <1>14,
     <1>15, <1>16, <1>17, <1>18, <1>19, <1>20, <1>21, <1>22, <1>23, <1>24, <1>25
     DEF Poll, PrePoll, ForwardPoll, FinalPoll, UnwindPoll, SetsPolls

LEMMA PollConstants == Poll => UNCHANGED <<sessions, orig, selstat, prevstat>> /\ failed \subseteq failed'
<1> SUFFICES ASSUME Poll
             PROVE  UNCHANGED <<sessions, orig, selstat, prevstat>> /\ failed \subseteq failed'
  OBVIOUS
<1>1. CASE SetsStill
  BY <1>1 DEF SetsStill
<1>2. CASE SetsPolls
  <2> USE DEF sessionVars, Throw, ThrowPre, NoFault, Fault
  <2>1. ASSUME NEW f, NEW overwrite, NEW k, ReplaceFileFails(f, overwrite, k)
        PROVE  failed \subseteq failed'
    <3>1. NoFault \/ Fault(k)
      BY <2>1, ReplaceFailsOutcome
    <3> QED
      BY <3>1
  <2>2. ASSUME NEW p, RemovePackageFiles(p) PROVE failed \subseteq failed'
    <3>1. NoFault \/ Fault("remove") \/ Fault("delete")
      BY <2>2, RemovalOutcome
    <3> QED
      BY <3>1
  <2>3. UNCHANGED <<sessions, orig, selstat, prevstat>>
    BY <1>2
       DEF SetsPolls, PreUnpackCheckFile, PreUnpackSelectPackage, PreRemoveSelectPackage,
           PreRemoveDone, UnpackFile, UnpackSelectPackage, ReplaceFile, RemoveFile, PostRemoveFile,
           PostRemovePackage, PostUnpackPackage, PostUnpackDone, UnwindReplaceFile,
           RestoreFileFails, UnwindUnpackFile, UnwindUnpackPackage, UnwindPreRemovePackage,
           UnwindPreUnpackPackage, UnwindPreUnpackDone
  <2>4. CASE UnpackSelectPackage
    BY <2>1, <2>4 DEF UnpackSelectPackage, BackupStays
  <2>5. CASE ReplaceFile
    BY <2>1, <2>5 DEF ReplaceFile, BackupStays
  <2>6. CASE PostRemovePackage
    BY <2>2, <2>6 DEF PostRemovePackage
  <2>7. CASE ~UnpackSelectPackage /\ ~ReplaceFile /\ ~PostRemovePackage
    BY <1>2, <2>7
       DEF SetsPolls, PreUnpackCheckFile, PreUnpackSelectPackage, PreRemoveSelectPackage,
           PreRemoveDone, UnpackFile, RemoveFile, BackupStays, PostRemoveFile, PostUnpackPackage,
           PostUnpackDone, UnwindReplaceFile, RestoreFile, RestoreFileFails, UnwindUnpackFile,
           UnwindUnpackPackage, UnwindPreRemovePackage, UnwindPreUnpackPackage,
           UnwindPreUnpackDone
  <2> QED
    BY <2>3, <2>4, <2>5, <2>6, <2>7
<1> QED
  BY <1>1, <1>2, StillPolls

-------------------------------------------------------------------------------
(* The sets of packages and what is saved. *)

SetsInv == SelectedStates /\ SetsEmptied /\ DirsKept /\ FinalCommitted /\ ServedInv /\ Saved

LEMMA SetsQuiet == SetsInv /\ Quiet => SetsInv'
<1> SUFFICES ASSUME SetsInv, Quiet PROVE SetsInv'
  OBVIOUS
<1> USE DEF SetsInv, Quiet, packageVars, sessionVars, PreState, MidState, ForwardState, FinalState,
            UnwindState, Advances, Thrown, SetOfState, UnwoundStatus, Onward
<1>1. SelectedStates'
  BY DEF SelectedStates
<1>2. SetsEmptied'
  BY DEF SetsEmptied
<1>3. DirsKept' /\ FinalCommitted'
  BY DEF DirsKept, FinalCommitted
<1>4. ServedInv'
  BY DEF ServedInv, Served, SelectedPackages
<1>5. Saved'
  BY DEF Saved
<1> QED
  BY <1>1, <1>2, <1>3, <1>4, <1>5

-------------------------------------------------------------------------------
(* What the polls that select a package do to the statuses and the sets. *)

LEMMA PreUnpackSelects ==
  ASSUME TypeInv, PreUnpackSelectPackage
  PROVE  /\ UNCHANGED <<disk, mfBak, packagesBeingUnpacked, packagesBeingRemoved, dirsRemoved, sessionVars>>
         /\ state = "pre_unpack"
         /\ \/ /\ state' = "fail" /\ curstat' = disk /\ existingModulePackages' = {}
               /\ UNCHANGED <<packagesToUnpack, packagesPreUnpacked, packagesToRemove, moduleVersion>>
            \/ \E p \in packagesToUnpack :
                 /\ p \in SelectedPackages
                 /\ UNCHANGED state
                 /\ curstat' = [curstat EXCEPT ![p] = [state |-> half_unpacked, version |-> selstat[p].version]]
                 /\ packagesToUnpack' = packagesToUnpack \ {p}
                 /\ \/ /\ ModuleFile[p] # NoFile
                       /\ existingModulePackages' = existingModulePackages \cup {p}
                       /\ \E v \in Version : /\ v >= selstat[p].version
                                             /\ moduleVersion' = [moduleVersion EXCEPT ![p] = v]
                       /\ packagesToRemove' = packagesToRemove \ {p}
                       /\ UNCHANGED <<packagesPreUnpacked, mfDst>>
                    \/ /\ packagesPreUnpacked' = packagesPreUnpacked \cup {p}
                       /\ \/ UNCHANGED <<packagesToRemove, mfDst>>
                          \/ /\ packagesToRemove' = packagesToRemove \cup {p}
                             /\ \E mf : mfDst' = [mfDst EXCEPT ![p] = mf]
                       /\ UNCHANGED <<existingModulePackages, moduleVersion>>
<1>1. /\ UNCHANGED <<disk, mfBak, packagesBeingUnpacked, packagesBeingRemoved, dirsRemoved, sessionVars>>
      /\ state = "pre_unpack"
  BY DEF PreUnpackSelectPackage, ThrowPre, Throw, fileVars, dirVars, sessionVars
<1>2. ExceptionState["pre_unpack"] = "fail"
  BY ExceptionValues DEF PreState
<1>3. PICK p \in packagesToUnpack :
        \/ /\ Fault("zip") /\ ThrowPre
           /\ UNCHANGED <<packagesToUnpack, packagesPreUnpacked, packagesToRemove, moduleVersion>>
        \/ /\ curstat' = [curstat EXCEPT ![p] = [state |-> half_unpacked, version |-> selstat[p].version]]
           /\ IF ModuleOnSystem(p, selstat[p].version)
              THEN IF ModuleIsOlder(p, selstat[p].version)
                   THEN ReplaceModule(p, selstat[p].version) ELSE UseModule(p, selstat[p].version)
              ELSE UnpackAsUsual(p, selstat[p].version)
           /\ packagesToUnpack' = packagesToUnpack \ {p}
           /\ UNCHANGED state
  BY DEF PreUnpackSelectPackage
<1>4. p \in SelectedPackages
  BY DEF TypeInv, SelectedInv
<1>5. CASE ThrowPre /\ UNCHANGED <<packagesToUnpack, packagesPreUnpacked, packagesToRemove, moduleVersion>>
  BY <1>1, <1>2, <1>5 DEF ThrowPre, Throw
<1>6. CASE UseModule(p, selstat[p].version) /\ ModuleOnSystem(p, selstat[p].version)
             /\ ~ModuleIsOlder(p, selstat[p].version)
  <2>1. p \in Package /\ selstat[p].version \in Version
    BY <1>4 DEF TypeInv, SelectedInv, SelectedPackages
  <2>2. ModuleFile[p] \in File
    BY <1>6, <2>1, UnpackAssumption DEF ModuleOnSystem
  <2>3. dst[ModuleFile[p]] \in FileData
    BY <1>6, <2>2 DEF ModuleOnSystem, TypeInv, TypeOK, SomeFile
  <2>4. FoundVersion(p) \in Version /\ FoundVersion(p) >= selstat[p].version
    BY <1>6, <2>1, <2>3, VersionAssumption DEF FoundVersion, FileData, ModuleIsOlder
  <2>5. /\ ModuleFile[p] # NoFile
        /\ existingModulePackages' = existingModulePackages \cup {p}
        /\ moduleVersion' = [moduleVersion EXCEPT ![p] = FoundVersion(p)]
        /\ packagesToRemove' = packagesToRemove \ {p}
        /\ UNCHANGED <<packagesPreUnpacked, mfDst>>
    BY <1>6 DEF UseModule, ModuleOnSystem
  <2>6. \/ ThrowPre /\ UNCHANGED <<packagesToUnpack, packagesPreUnpacked, packagesToRemove, moduleVersion>>
        \/ /\ curstat' = [curstat EXCEPT ![p] = [state |-> half_unpacked, version |-> selstat[p].version]]
           /\ packagesToUnpack' = packagesToUnpack \ {p}
           /\ UNCHANGED state
    BY <1>3
  <2> QED
    BY <1>1, <1>4, <1>5, <2>4, <2>5, <2>6
<1>7. CASE ReplaceModule(p, selstat[p].version) \/ UnpackAsUsual(p, selstat[p].version)
  <2>1. /\ packagesPreUnpacked' = packagesPreUnpacked \cup {p}
        /\ UNCHANGED <<existingModulePackages, moduleVersion>>
        /\ \/ UNCHANGED <<packagesToRemove, mfDst>>
           \/ /\ packagesToRemove' = packagesToRemove \cup {p}
              /\ mfDst' = [mfDst EXCEPT ![p] = Contents[p][selstat[p].version]]
    BY <1>7 DEF ReplaceModule, UnpackAsUsual
  <2>2. \/ ThrowPre /\ UNCHANGED <<packagesToUnpack, packagesPreUnpacked, packagesToRemove, moduleVersion>>
        \/ /\ curstat' = [curstat EXCEPT ![p] = [state |-> half_unpacked, version |-> selstat[p].version]]
           /\ packagesToUnpack' = packagesToUnpack \ {p}
           /\ UNCHANGED state
    BY <1>3
  <2> QED
    BY <1>1, <1>4, <1>5, <2>1, <2>2
<1> QED
  BY <1>3, <1>5, <1>6, <1>7

LEMMA UnpackSelects ==
  ASSUME UnpackSelectPackage
  PROVE  /\ UNCHANGED <<disk, packagesToUnpack, packagesToRemove, packagesBeingRemoved,
                        existingModulePackages, moduleVersion, dirsRemoved, sessionVars>>
         /\ state = "unpack"
         /\ \/ /\ state' = "unwind_unpack" /\ curstat' = disk
               /\ UNCHANGED <<packagesPreUnpacked, packagesBeingUnpacked>>
            \/ \E p \in packagesPreUnpacked :
                 /\ UNCHANGED <<state, curstat>>
                 /\ packagesPreUnpacked' = packagesPreUnpacked \ {p}
                 /\ packagesBeingUnpacked' = packagesBeingUnpacked \cup {p}
                 /\ mfDst' = [mfDst EXCEPT ![p] = Merged(p, selstat[p].version)]
                 /\ mfTmp' = [mfTmp EXCEPT ![p] = Contents[p][selstat[p].version]]
                 /\ \E left : mfBak' = [mfBak EXCEPT ![p] = left]
<1> USE ExceptionValues DEF UnpackSelectPackage, Throw, sessionVars, statVars, dirVars
<1>1. /\ UNCHANGED <<disk, packagesToUnpack, packagesToRemove, packagesBeingRemoved,
                     existingModulePackages, moduleVersion, dirsRemoved, sessionVars>>
      /\ state = "unpack"
  OBVIOUS
<1>2. \/ /\ state' = "unwind_unpack" /\ curstat' = disk
         /\ UNCHANGED <<packagesPreUnpacked, packagesBeingUnpacked>>
      \/ \E p \in packagesPreUnpacked :
           /\ UNCHANGED <<state, curstat>>
           /\ packagesPreUnpacked' = packagesPreUnpacked \ {p}
           /\ packagesBeingUnpacked' = packagesBeingUnpacked \cup {p}
           /\ mfDst' = [mfDst EXCEPT ![p] = Merged(p, selstat[p].version)]
           /\ mfTmp' = [mfTmp EXCEPT ![p] = Contents[p][selstat[p].version]]
           /\ \E left : mfBak' = [mfBak EXCEPT ![p] = left]
  OBVIOUS
<1> QED
  BY <1>1, <1>2

LEMMA PostUnpacks ==
  ASSUME PostUnpackPackage
  PROVE  /\ UNCHANGED <<disk, packagesToUnpack, packagesPreUnpacked, packagesToRemove,
                        packagesBeingRemoved, existingModulePackages, moduleVersion, dirsRemoved,
                        sessionVars>>
         /\ state = "post_unpack"
         /\ \/ state' = "fail" /\ curstat' = disk /\ UNCHANGED packagesBeingUnpacked
            \/ \E p \in packagesBeingUnpacked :
                 /\ UNCHANGED state
                 /\ curstat' = [curstat EXCEPT ![p].state = unpacked]
                 /\ packagesBeingUnpacked' = packagesBeingUnpacked \ {p}
                 /\ mfDst' = [mfDst EXCEPT ![p] = mfTmp[p]]
                 /\ mfTmp' = [mfTmp EXCEPT ![p] = {}]
                 /\ \E left : mfBak' = [mfBak EXCEPT ![p] = left]
<1> USE ExceptionValues DEF PostUnpackPackage, Throw, sessionVars, fileVars, dirVars
<1>1. /\ UNCHANGED <<disk, packagesToUnpack, packagesPreUnpacked, packagesToRemove,
                     packagesBeingRemoved, existingModulePackages, moduleVersion, dirsRemoved,
                     sessionVars>>
      /\ state = "post_unpack"
  OBVIOUS
<1>2. \/ state' = "fail" /\ curstat' = disk /\ UNCHANGED packagesBeingUnpacked
      \/ \E p \in packagesBeingUnpacked :
           /\ UNCHANGED state
           /\ curstat' = [curstat EXCEPT ![p].state = unpacked]
           /\ packagesBeingUnpacked' = packagesBeingUnpacked \ {p}
           /\ mfDst' = [mfDst EXCEPT ![p] = mfTmp[p]]
           /\ mfTmp' = [mfTmp EXCEPT ![p] = {}]
           /\ \E left : mfBak' = [mfBak EXCEPT ![p] = left]
  OBVIOUS
<1> QED
  BY <1>1, <1>2

LEMMA SetsPoll == TypeInv /\ SetsInv /\ Poll => SetsInv'
<1> SUFFICES ASSUME TypeInv, SetsInv, Poll PROVE SetsInv'
  OBVIOUS
<1> USE DEF SetsInv, SelectedStates, SetsEmptied, DirsKept, FinalCommitted, ServedInv, Served,
            SelectedPackages,
            Saved, UnwoundStatus, statVars, packageVars, unpackVars, removeVars, dirVars, fileVars,
            sessionVars,
            Onward, PreState, MidState, ForwardState, FinalState, UnwindState,
            Throw, ThrowPre, NoFault, Fault
<1>1. CASE PreUnpackSelectPackage
  BY <1>1, PreUnpackSelects, VersionAssumption DEF TypeInv, TypeOK
<1>2. CASE PreRemoveSelectPackage
  BY <1>2, ExceptionValues DEF PreRemoveSelectPackage, MarkedForRemoval
<1>3. CASE PreRemoveDone
  BY <1>3, ExceptionValues DEF PreRemoveDone, CommitStatus
<1>4. CASE UnpackSelectPackage
  BY <1>4, UnpackSelects
<1>5. CASE RemoveDir
  BY <1>5, ExceptionValues DEF RemoveDir
<1>6. CASE RemoveDone
  BY <1>6, ExceptionValues DEF RemoveDone
<1>7. CASE PostRemovePackage
  BY <1>7, ExceptionValues DEF PostRemovePackage
<1>8. CASE PostUnpackPackage
  BY <1>8, PostUnpacks
<1>9. CASE PostUnpackDone
  BY <1>9, ExceptionValues DEF PostUnpackDone, UpdateExistingModules, CommitStatus
<1>10. CASE UnwindRemoveDir
  BY <1>10, ExceptionValues DEF UnwindRemoveDir
<1>11. CASE UnwindUnpackPackage
  BY <1>11, ExceptionValues DEF UnwindUnpackPackage, RestoreFileFails
<1>12. CASE UnwindPreRemovePackage
  BY <1>12, ExceptionValues DEF UnwindPreRemovePackage, Restored
<1>13. CASE UnwindPreUnpackPackage
  BY <1>13, ExceptionValues DEF UnwindPreUnpackPackage
<1>14. CASE UnwindPreUnpackDone
  BY <1>14, ExceptionValues DEF UnwindPreUnpackDone, CommitStatus
<1>15. CASE QuietPoll
  BY <1>15, QuietPolls, SetsQuiet
<1> QED
  BY <1>1, <1>2, <1>3, <1>4, <1>5, <1>6, <1>7, <1>8, <1>9, <1>10, <1>11, <1>12, <1>13, <1>14, <1>15
     DEF Poll, PrePoll, ForwardPoll, FinalPoll, UnwindPoll, QuietPoll

-------------------------------------------------------------------------------
(* Backing out. *)

LEMMA BackedQuiet ==
  SetsInv /\ BackedInv /\ StatusBackedOut /\ Quiet => BackedInv' /\ StatusBackedOut'
<1> SUFFICES ASSUME SetsInv, BackedInv, StatusBackedOut, Quiet PROVE BackedInv' /\ StatusBackedOut'
  OBVIOUS
<1> USE DEF SetsInv, Quiet, packageVars, sessionVars, PreState, MidState, ForwardState, FinalState,
            UnwindState, Advances, Thrown, SetOfState, UnwoundStatus, Served
<1>1. state' \in PreState \cup MidState /\ ~committed' => UNCHANGED curstat /\ state \in PreState \cup MidState
  BY DEF Saved, FinalCommitted
<1>2. state' \in PreState => state \in PreState
  OBVIOUS
<1>3. BackedInv'
  BY <1>1, <1>2 DEF BackedInv, Backed, ToBeRemoved
<1>4. StatusBackedOut'
  BY DEF StatusBackedOut
<1> QED
  BY <1>3, <1>4

LEMMA BackedPoll ==
  TypeInv /\ SetsInv /\ BackedInv /\ StatusBackedOut /\ Poll => BackedInv' /\ StatusBackedOut'
<1> SUFFICES ASSUME TypeInv, SetsInv, BackedInv, StatusBackedOut, Poll
             PROVE  BackedInv' /\ StatusBackedOut'
  OBVIOUS
<1> USE DEF SetsInv, SetsEmptied, DirsKept, FinalCommitted, Saved, BackedInv, Backed,
            StatusBackedOut,
            ToBeRemoved, Served, UnwoundStatus, TypeInv, TypeOK, Status,
            statVars, packageVars, unpackVars, removeVars, dirVars, fileVars, sessionVars,
            PreState, MidState, ForwardState, FinalState, UnwindState,
            Throw, ThrowPre, NoFault, Fault
<1>1. CASE PreUnpackSelectPackage
  BY <1>1, PreUnpackSelects, VersionAssumption DEF TypeInv, TypeOK
<1>2. CASE PreRemoveSelectPackage
  BY <1>2, ExceptionValues DEF PreRemoveSelectPackage, MarkedForRemoval
<1>3. CASE PreRemoveDone
  BY <1>3, ExceptionValues DEF PreRemoveDone, CommitStatus
<1>4. CASE UnpackSelectPackage
  BY <1>4, UnpackSelects
<1>5. CASE RemoveDir
  BY <1>5, ExceptionValues DEF RemoveDir
<1>6. CASE RemoveDone
  BY <1>6, ExceptionValues DEF RemoveDone
<1>7. CASE PostRemovePackage
  BY <1>7, ExceptionValues DEF PostRemovePackage
<1>8. CASE PostUnpackPackage
  BY <1>8, PostUnpacks
<1>9. CASE PostUnpackDone
  BY <1>9, ExceptionValues DEF PostUnpackDone, UpdateExistingModules, CommitStatus
<1>10. CASE UnwindRemoveDir
  BY <1>10, ExceptionValues DEF UnwindRemoveDir
<1>11. CASE UnwindUnpackPackage
  <2>1. CASE Fault("restore") /\ Throw /\ UNCHANGED sessionVars
    <3>1. state' = "fail" /\ "restore" \in failed'
      BY <1>11, <2>1, ExceptionValues DEF UnwindUnpackPackage
    <3> QED
      BY <3>1
  <2>2. CASE /\ UNCHANGED <<state, statVars, sessionVars>>
             /\ \E p \in packagesBeingUnpacked :
                  /\ packagesPreUnpacked' = packagesPreUnpacked \cup {p}
                  /\ packagesBeingUnpacked' = packagesBeingUnpacked \ {p}
    BY <1>11, <2>2 DEF UnwindUnpackPackage
  <2> QED
    BY <1>11, <2>1, <2>2 DEF UnwindUnpackPackage, RestoreFileFails
<1>12. CASE UnwindPreRemovePackage
  BY <1>12, ExceptionValues DEF UnwindPreRemovePackage, Restored
<1>13. CASE UnwindPreUnpackPackage
  BY <1>13 DEF UnwindPreUnpackPackage, PkgState, removed, unpacked
<1>14. CASE UnwindPreUnpackDone
  BY <1>14, ExceptionValues DEF UnwindPreUnpackDone, CommitStatus
<1>15. CASE QuietPoll
  BY <1>15, QuietPolls, BackedQuiet
<1> QED
  BY <1>1, <1>2, <1>3, <1>4, <1>5, <1>6, <1>7, <1>8, <1>9, <1>10, <1>11, <1>12, <1>13, <1>14, <1>15
     DEF Poll, PrePoll, ForwardPoll, FinalPoll, UnwindPoll, QuietPoll

-------------------------------------------------------------------------------
(* On the way to a good end. *)

EndInv == OnwardInv /\ DoneInv /\ DoneAsSelected /\ ModuleServes

LEMMA OnwardQuiet == EndInv /\ Quiet => EndInv'
<1> SUFFICES ASSUME EndInv, Quiet PROVE EndInv'
  OBVIOUS
<1> USE DEF EndInv, Quiet, packageVars, sessionVars, mfVars, PreState, ForwardState, FinalState,
            Onward,
            Advances, Thrown, Served
<1>1. state' \in Onward => state \in Onward /\ UNCHANGED curstat
  OBVIOUS
<1>2. OnwardInv'
  BY <1>1 DEF OnwardInv, AsSelected, ToBeRemoved, ToBeUnpacked, ReadManifest
<1>3. state' = "done" => state = "done" /\ UNCHANGED <<disk, mfVars, sessionVars, packageVars>>
  OBVIOUS
<1>4. DoneInv' /\ DoneAsSelected'
  BY <1>3 DEF DoneInv, DoneAsSelected, ReadManifest
<1>5. ModuleServes'
  BY <1>3 DEF ModuleServes
<1> QED
  BY <1>2, <1>4, <1>5

\* What is not on the way forward, or at a good end, is of no concern here.
LEMMA NotOnward == state' \notin Onward \cup {"done"} => EndInv'
  BY DEF EndInv, OnwardInv, DoneInv, DoneAsSelected, ModuleServes, Onward, FinalState, ForwardState, PreState

LEMMA StatusFacts ==
  \A s \in Status : s.version \in Nat /\ (s.state >= unpacked => ~(s.state <= removed))
<1> SUFFICES ASSUME NEW s \in Status
             PROVE  s.version \in Nat /\ (s.state >= unpacked => ~(s.state <= removed))
  OBVIOUS
<1>1. s.version \in Version \cup {0} /\ s.state \in 0..5
  BY DEF Status, PkgState
<1>2. \A v \in Version \cup {0} : v \in Nat
  BY VersionAssumption
<1> QED
  BY <1>1, <1>2 DEF unpacked, removed

LEMMA OnwardSelects == TypeInv /\ SetsInv /\ EndInv /\ PreUnpackSelectPackage => EndInv'
<1> SUFFICES ASSUME TypeInv, SetsInv, EndInv, PreUnpackSelectPackage, state' # "fail" PROVE EndInv'
  BY NotOnward DEF Onward, FinalState, ForwardState, PreState
<1>1. PICK p \in packagesToUnpack :
        /\ p \in SelectedPackages
        /\ UNCHANGED state
        /\ curstat' = [curstat EXCEPT ![p] = [state |-> half_unpacked, version |-> selstat[p].version]]
        /\ packagesToUnpack' = packagesToUnpack \ {p}
        /\ \/ /\ existingModulePackages' = existingModulePackages \cup {p}
              /\ \E v \in Version : /\ v >= selstat[p].version
                                    /\ moduleVersion' = [moduleVersion EXCEPT ![p] = v]
              /\ packagesToRemove' = packagesToRemove \ {p}
              /\ UNCHANGED <<packagesPreUnpacked, mfDst>>
           \/ /\ packagesPreUnpacked' = packagesPreUnpacked \cup {p}
              /\ \/ UNCHANGED <<packagesToRemove, mfDst>>
                 \/ /\ packagesToRemove' = packagesToRemove \cup {p}
                    /\ \E mf : mfDst' = [mfDst EXCEPT ![p] = mf]
              /\ UNCHANGED <<existingModulePackages, moduleVersion>>
  BY PreUnpackSelects
<1>2. /\ UNCHANGED <<disk, mfBak, packagesBeingUnpacked, packagesBeingRemoved, dirsRemoved, sessionVars>>
      /\ state = "pre_unpack"
  BY PreUnpackSelects
<1>3. DoneInv' /\ DoneAsSelected' /\ ModuleServes'
  BY <1>1, <1>2 DEF DoneInv, DoneAsSelected, ModuleServes
<1>4. ASSUME NEW q \in Package \ Served' PROVE AsSelected(q)'
  <2>1. CASE q = p
    <3>1. q \in packagesPreUnpacked'
      BY <1>1, <2>1, VersionAssumption DEF Served, TypeInv, TypeOK
    <3>2. q \notin packagesBeingUnpacked'
      BY <1>2 DEF SetsInv, SetsEmptied, PreState
    <3>3. curstat'[q].version = selstat'[q].version
      BY <1>1, <1>2, <2>1 DEF sessionVars, TypeInv, TypeOK
    <3>4. ~(selstat'[q].state <= removed)
      BY <1>1, <1>2, <2>1, StatusFacts DEF sessionVars, TypeInv, TypeOK, SelectedPackages
    <3> QED
      BY <3>1, <3>2, <3>3, <3>4 DEF AsSelected, ToBeUnpacked
  <2>2. CASE q # p
    <3>1. q \in Package \ Served
      BY <1>1, <2>2 DEF Served, TypeInv, TypeOK
    <3>2. AsSelected(q)
      BY <1>2, <3>1 DEF EndInv, OnwardInv, Onward, PreState
    <3>6. failed \subseteq failed'
      BY PollConstants DEF Poll, PrePoll
    <3>3. /\ curstat'[q] = curstat[q] /\ mfDst'[q] = mfDst[q] /\ mfBak'[q] = mfBak[q]
          /\ (q \in packagesToUnpack)' <=> q \in packagesToUnpack
          /\ (q \in packagesPreUnpacked)' <=> q \in packagesPreUnpacked
          /\ (q \in packagesToRemove)' <=> q \in packagesToRemove
      BY <1>1, <1>2, <2>2 DEF TypeInv, TypeOK
    <3>4. UNCHANGED <<packagesBeingUnpacked, packagesBeingRemoved, selstat, prevstat>>
      BY <1>2 DEF sessionVars
    <3>5. packagesBeingUnpacked = {}
      BY <1>2 DEF SetsInv, SetsEmptied, PreState
    <3> QED
      BY <3>2, <3>3, <3>4, <3>5, <3>6 DEF AsSelected, ToBeRemoved, ToBeUnpacked, ReadManifest
  <2> QED
    BY <2>1, <2>2
<1> QED
  BY <1>3, <1>4 DEF EndInv, OnwardInv

LEMMA OnwardUnpacks == TypeInv /\ SetsInv /\ EndInv /\ UnpackSelectPackage => EndInv'
<1> SUFFICES ASSUME TypeInv, SetsInv, EndInv, UnpackSelectPackage, state' # "unwind_unpack" PROVE EndInv'
  BY NotOnward DEF Onward, FinalState, ForwardState, PreState
<1>1. PICK p \in packagesPreUnpacked :
        /\ UNCHANGED <<state, curstat>>
        /\ packagesPreUnpacked' = packagesPreUnpacked \ {p}
        /\ packagesBeingUnpacked' = packagesBeingUnpacked \cup {p}
        /\ mfDst' = [mfDst EXCEPT ![p] = Merged(p, selstat[p].version)]
        /\ mfTmp' = [mfTmp EXCEPT ![p] = Contents[p][selstat[p].version]]
        /\ \E left : mfBak' = [mfBak EXCEPT ![p] = left]
  BY UnpackSelects
<1>2. /\ UNCHANGED <<disk, packagesToUnpack, packagesToRemove, packagesBeingRemoved,
                     existingModulePackages, moduleVersion, dirsRemoved, sessionVars>>
      /\ state = "unpack"
  BY UnpackSelects
<1>3. DoneInv' /\ DoneAsSelected' /\ ModuleServes'
  BY <1>1, <1>2 DEF DoneInv, DoneAsSelected, ModuleServes
<1>4. ASSUME NEW q \in Package \ Served' PROVE AsSelected(q)'
  <2>1. AsSelected(q)
    BY <1>2, <1>4 DEF EndInv, OnwardInv, Onward, ForwardState, Served
  <2>2. selstat[p].state >= unpacked
    BY DEF TypeInv, SelectedInv, SelectedPackages
  <2>3. CASE q = p
    <3>1. mfTmp'[q] = Contents[q][selstat[q].version]
      BY <1>1, <2>3 DEF TypeInv, TypeOK
    <3>2. curstat'[q].version = selstat'[q].version
      BY <1>1, <1>2, <2>1, <2>2, <2>3 DEF AsSelected, sessionVars
    <3>3. q \in packagesBeingUnpacked' /\ UNCHANGED selstat
      BY <1>1, <1>2, <2>3 DEF sessionVars
    <3>4. ~(selstat'[q].state <= removed)
      BY <2>2, <2>3, <3>3, StatusFacts DEF TypeInv, TypeOK
    <3> QED
      BY <3>1, <3>2, <3>3, <3>4 DEF AsSelected, ToBeUnpacked
  <2>4. CASE q # p
    <3>1. failed \subseteq failed'
      BY PollConstants DEF Poll, ForwardPoll
    <3>2. /\ curstat'[q] = curstat[q]
          /\ mfDst'[q] = mfDst[q] /\ mfTmp'[q] = mfTmp[q] /\ mfBak'[q] = mfBak[q]
      BY <1>1, <2>4 DEF TypeInv, TypeOK
    <3> QED
      BY <1>1, <1>2, <2>1, <2>4, <3>1, <3>2 DEF AsSelected, ToBeRemoved, ToBeUnpacked,
                                                ReadManifest, sessionVars
  <2> QED
    BY <2>3, <2>4
<1> QED
  BY <1>3, <1>4 DEF EndInv, OnwardInv

LEMMA OnwardRemoves == TypeInv /\ SetsInv /\ EndInv /\ PostRemovePackage => EndInv'
<1> SUFFICES ASSUME TypeInv, SetsInv, EndInv, PostRemovePackage PROVE EndInv'
  OBVIOUS
<1>1. PICK p \in packagesBeingRemoved :
        /\ packagesBeingRemoved' = packagesBeingRemoved \ {p}
        /\ IF p \in packagesBeingUnpacked
           THEN UNCHANGED <<curstat, mfVars>>
           ELSE RemovePackageFiles(p) /\ curstat' = [curstat EXCEPT ![p].state = removed]
  BY DEF PostRemovePackage
<1>2. /\ UNCHANGED <<state, packagesToUnpack, packagesPreUnpacked, packagesBeingUnpacked, packagesToRemove,
                     moduleVersion, sessionVars>>
      /\ state = "post_remove"
  BY DEF PostRemovePackage
<1>3. DoneInv' /\ DoneAsSelected' /\ ModuleServes'
  BY <1>2 DEF DoneInv, DoneAsSelected, ModuleServes
<1>6. failed \subseteq failed'
  BY PollConstants DEF Poll, FinalPoll
<1>4. packagesPreUnpacked = {} /\ packagesToUnpack = {}
  BY <1>2 DEF SetsInv, SetsEmptied, MidState, FinalState
<1>5. ASSUME NEW q \in Package \ Served' PROVE AsSelected(q)'
  <2>1. AsSelected(q)
    BY <1>2, <1>5 DEF EndInv, OnwardInv, Onward, FinalState, Served
  <2>2. CASE q = p /\ p \notin packagesBeingUnpacked
    <3>1. /\ curstat'[q].state = removed
          /\ "delete" \notin failed' => mfDst'[q] = {} /\ mfBak'[q] = {}
      BY <1>1, <2>2, RemovalOutcome DEF TypeInv, TypeOK, Status
    <3>2. ~(selstat[q].state >= unpacked)
      BY <1>4, <2>1, <2>2 DEF AsSelected, ToBeRemoved, ToBeUnpacked
    <3> QED
      BY <1>2, <3>1, <3>2 DEF AsSelected, ReadManifest, sessionVars, removed
  <2>3. CASE q = p /\ p \in packagesBeingUnpacked
    <3>1. ~(selstat[q].state <= removed)
      BY <2>3, StatusFacts DEF TypeInv, TypeOK, SelectedInv, SelectedPackages
    <3>2. UNCHANGED <<curstat, mfVars>>
      BY <1>1, <2>3
    <3> QED
      BY <1>1, <1>2, <1>6, <2>1, <2>3, <3>1, <3>2 DEF AsSelected, ToBeRemoved, ToBeUnpacked, mfVars,
                                                      sessionVars
  <2>4. CASE q # p
    <3>1. /\ curstat'[q] = curstat[q]
          /\ mfDst'[q] = mfDst[q] /\ mfTmp'[q] = mfTmp[q] /\ mfBak'[q] = mfBak[q]
      BY <1>1, <2>4, RemovalOutcome DEF mfVars, TypeInv, TypeOK
    <3> QED
      BY <1>1, <1>2, <1>6, <2>1, <2>4, <3>1 DEF AsSelected, ToBeRemoved, ToBeUnpacked,
                                                ReadManifest, sessionVars
  <2> QED
    BY <2>2, <2>3, <2>4
<1> QED
  BY <1>3, <1>5 DEF EndInv, OnwardInv

LEMMA OnwardPostUnpacks == TypeInv /\ SetsInv /\ EndInv /\ PostUnpackPackage => EndInv'
<1> SUFFICES ASSUME TypeInv, SetsInv, EndInv, PostUnpackPackage, state' # "fail" PROVE EndInv'
  BY NotOnward DEF Onward, FinalState, ForwardState, PreState
<1>1. PICK p \in packagesBeingUnpacked :
        /\ UNCHANGED state
        /\ curstat' = [curstat EXCEPT ![p].state = unpacked]
        /\ packagesBeingUnpacked' = packagesBeingUnpacked \ {p}
        /\ mfDst' = [mfDst EXCEPT ![p] = mfTmp[p]]
        /\ mfTmp' = [mfTmp EXCEPT ![p] = {}]
        /\ \E left : mfBak' = [mfBak EXCEPT ![p] = left]
  BY PostUnpacks
<1>2. /\ UNCHANGED <<disk, packagesToUnpack, packagesPreUnpacked, packagesToRemove,
                     packagesBeingRemoved, existingModulePackages, moduleVersion, dirsRemoved,
                     sessionVars>>
      /\ state = "post_unpack"
  BY PostUnpacks
<1>3. DoneInv' /\ DoneAsSelected' /\ ModuleServes'
  BY <1>1, <1>2 DEF DoneInv, DoneAsSelected, ModuleServes
<1>4. packagesToRemove = {} /\ packagesBeingRemoved = {}
  BY <1>2 DEF SetsInv, SetsEmptied, MidState, FinalState
<1>5. ASSUME NEW q \in Package \ Served' PROVE AsSelected(q)'
  <2>1. AsSelected(q)
    BY <1>2, <1>5 DEF EndInv, OnwardInv, Onward, FinalState, Served
  <2>2. CASE q = p
    <3>1. selstat[q].state >= unpacked
      BY <2>2 DEF TypeInv, SelectedInv, SelectedPackages
    <3>2. curstat'[q].state = unpacked /\ curstat'[q].version = curstat[q].version /\ mfDst'[q] = mfTmp[q]
      BY <1>1, <2>2 DEF TypeInv, TypeOK, Status
    <3>3. curstat[q].version = selstat[q].version /\ mfTmp[q] = Contents[q][selstat[q].version]
      BY <2>1, <2>2, <3>1 DEF AsSelected
    <3>4. q \notin packagesBeingUnpacked'
      BY <1>1, <2>2
    <3>5. ~(selstat[q].state <= removed)
      BY <3>1, StatusFacts DEF TypeInv, TypeOK
    <3>6. selstat' = selstat /\ ToBeRemoved' = {} /\ q \notin packagesPreUnpacked'
      BY <1>2, <1>4, <3>1 DEF sessionVars, ToBeRemoved, SetsInv, SetsEmptied, FinalState
    <3> QED
      BY <3>1, <3>2, <3>3, <3>4, <3>5, <3>6 DEF AsSelected, unpacked
  <2>3. CASE q # p
    <3>1. /\ curstat'[q] = curstat[q]
          /\ mfDst'[q] = mfDst[q] /\ mfTmp'[q] = mfTmp[q] /\ mfBak'[q] = mfBak[q]
      BY <1>1, <2>3 DEF TypeInv, TypeOK
    <3>2. failed \subseteq failed'
      BY PollConstants DEF Poll, FinalPoll
    <3> QED
      BY <1>1, <1>2, <2>1, <2>3, <3>1, <3>2 DEF AsSelected, ToBeRemoved, ToBeUnpacked,
                                                ReadManifest, sessionVars
  <2> QED
    BY <2>2, <2>3
<1> QED
  BY <1>3, <1>5 DEF EndInv, OnwardInv

LEMMA OnwardEnds == TypeInv /\ SetsInv /\ EndInv /\ PostUnpackDone => EndInv'
<1> SUFFICES ASSUME TypeInv, SetsInv, EndInv, PostUnpackDone, state' # "fail" PROVE EndInv'
  BY NotOnward DEF Onward, FinalState, ForwardState, PreState
<1>1. state = "post_unpack" /\ packagesBeingUnpacked = {}
  BY DEF PostUnpackDone
<1>2. UNCHANGED <<selstat, prevstat, moduleVersion, mfBak>>
  BY DEF PostUnpackDone, sessionVars
<1>3. PICK moved \in SUBSET existingModulePackages, updated \in SUBSET existingModulePackages :
        /\ UpdateExistingModules(moved, updated)
        /\ disk' = curstat' /\ state' = "done"
        /\ updated = existingModulePackages \/ "module" \in failed'
  <2>1. ExceptionState["post_unpack"] = "fail"
    BY ExceptionValues
  <2> QED
    BY <1>1, <2>1 DEF PostUnpackDone, CommitStatus, Fault, Throw
<1>4. /\ existingModulePackages = Served
      /\ \A p \in Served :
           p \in SelectedPackages /\ ModuleFile[p] # NoFile /\ moduleVersion[p] >= selstat[p].version
  BY <1>1 DEF SetsInv, ServedInv, Onward, FinalState
<1>5. ToBeRemoved = {} /\ ToBeUnpacked = {}
  BY <1>1 DEF SetsInv, SetsEmptied, ToBeRemoved, ToBeUnpacked, MidState, FinalState
<1>6. ASSUME NEW p \in Package \ Served
      PROVE  /\ AsSelected(p)
             /\ disk'[p] = curstat[p] /\ mfDst'[p] = mfDst[p]
  BY <1>1, <1>3, <1>4, <1>6 DEF EndInv, OnwardInv, Onward, FinalState, UpdateExistingModules
<1>7. \A p \in Package : selstat[p].state = installed => selstat[p].state >= unpacked /\ ~(selstat[p].state <= removed)
  BY DEF installed, unpacked, removed
<1>8. DoneAsSelected'
  <2> SUFFICES ASSUME NEW p \in Package \ Served
               PROVE  IF selstat[p].state = installed
                      THEN /\ disk'[p].state >= unpacked /\ disk'[p].version = selstat[p].version
                           /\ disk'[p] # prevstat[p] => mfDst'[p] = Contents[p][selstat[p].version]
                      ELSE /\ disk'[p].state <= removed
                           /\ prevstat[p].state > removed /\ "delete" \notin failed' =>
                                ReadManifest(p)' = {}
    BY <1>2 DEF DoneAsSelected, Served
  <2>1. CASE selstat[p].state = installed
    BY <1>5, <1>6, <1>7, <2>1 DEF AsSelected
  <2>2. CASE selstat[p].state # installed
    <3>1. selstat[p].state <= removed
      BY <2>2 DEF SetsInv, SelectedStates, not_present, removed
    <3>2. failed \subseteq failed'
      BY PollConstants DEF Poll, FinalPoll
    <3> QED
      BY <1>2, <1>5, <1>6, <2>2, <3>1, <3>2 DEF AsSelected, ReadManifest
  <2> QED
    BY <2>1, <2>2
<1>9. ModuleServes'
  <2> SUFFICES ASSUME "module" \notin failed', NEW p \in Package, selstat[p].state = installed
               PROVE  disk'[p].state >= unpacked /\ disk'[p].version >= selstat[p].version
    BY <1>2 DEF ModuleServes
  <2>1. CASE p \in Served
    BY <1>3, <1>4, <2>1 DEF UpdateExistingModules, installed, unpacked
  <2>2. CASE p \notin Served
    <3>1. disk'[p].state >= unpacked /\ disk'[p].version = selstat[p].version
      BY <1>5, <1>6, <1>7, <2>2 DEF AsSelected
    <3>2. selstat[p].version \in Nat
      BY StatusFacts DEF TypeInv, TypeOK
    <3> QED
      BY <3>1, <3>2
  <2> QED
    BY <2>1, <2>2
<1>10. DoneInv'
  <2> SUFFICES ASSUME NEW p \in Package
               PROVE  IF selstat[p].state = installed
                      THEN \/ disk'[p].state >= unpacked /\ disk'[p].version = selstat[p].version
                           \/ /\ ModuleFile[p] # NoFile
                              /\ \/ "module" \in failed'
                                 \/ /\ disk'[p].state = installed
                                    /\ disk'[p].version >= selstat[p].version
                      ELSE /\ disk'[p].state <= removed
                           /\ disk'[p].state = removed \/ disk'[p] = prevstat[p]
    BY <1>2 DEF DoneInv
  <2>1. CASE p \in Served
    <3>1. selstat[p].state = installed
      BY <1>4, <2>1 DEF SetsInv, SelectedStates, SelectedPackages, not_present, removed, unpacked
    <3> QED
      BY <1>3, <1>4, <2>1, <3>1 DEF UpdateExistingModules, installed
  <2>2. CASE p \notin Served
    <3>1. selstat[p].state # installed => selstat[p].state <= removed
      BY DEF SetsInv, SelectedStates, not_present, removed
    <3> QED
      BY <1>5, <1>6, <1>7, <2>2, <3>1 DEF AsSelected
  <2> QED
    BY <2>1, <2>2
<1> QED
  BY <1>3, <1>8, <1>9, <1>10 DEF EndInv, OnwardInv, Onward, PreState, ForwardState, FinalState

LEMMA OnwardPoll == TypeInv /\ SetsInv /\ EndInv /\ Poll => EndInv'
<1> SUFFICES ASSUME TypeInv, SetsInv, EndInv, Poll PROVE EndInv'
  OBVIOUS
<1> USE DEF SetsInv, SetsEmptied, SelectedStates, EndInv, OnwardInv, AsSelected, DoneInv, DoneAsSelected,
            ModuleServes,
            ToBeRemoved, ToBeUnpacked, ReadManifest, Served, TypeInv, TypeOK, Status, SelectedInv,
            SelectedPackages,
            statVars, packageVars, unpackVars, removeVars, dirVars, fileVars, sessionVars, mfVars,
            Onward, PreState, ForwardState, FinalState,
            Throw, ThrowPre, NoFault, Fault
<1>1. CASE PreUnpackSelectPackage
  BY <1>1, OnwardSelects
<1>2. CASE PreRemoveSelectPackage
  BY <1>2, ExceptionValues DEF PreRemoveSelectPackage, MarkedForRemoval
<1>3. CASE PreRemoveDone
  BY <1>3, ExceptionValues DEF PreRemoveDone, CommitStatus
<1>4. CASE UnpackSelectPackage
  BY <1>4, OnwardUnpacks
<1>5. CASE RemoveDir
  BY <1>5, ExceptionValues DEF RemoveDir
<1>6. CASE RemoveDone
  BY <1>6, ExceptionValues DEF RemoveDone
<1>7. CASE PostRemovePackage
  BY <1>7, OnwardRemoves
<1>8. CASE PostUnpackPackage
  BY <1>8, OnwardPostUnpacks
<1>9. CASE PostUnpackDone
  BY <1>9, OnwardEnds
<1>10. CASE UnwindRemoveDir
  <2>1. state' \notin Onward \cup {"done"}
    BY <1>10, ExceptionValues DEF UnwindRemoveDir, Throw, UnwindState, Onward, PreState,
                                  ForwardState, FinalState
  <2> QED
    BY <2>1, NotOnward
<1>11. CASE UnwindUnpackPackage
  <2>1. state' \notin Onward \cup {"done"}
    BY <1>11, ExceptionValues DEF UnwindUnpackPackage, RestoreFileFails, Throw, UnwindState,
                                  Onward, PreState, ForwardState, FinalState
  <2> QED
    BY <2>1, NotOnward
<1>12. CASE UnwindPreRemovePackage
  <2>1. state' \notin Onward \cup {"done"}
    BY <1>12, ExceptionValues DEF UnwindPreRemovePackage, Restored, Throw, UnwindState, Onward,
                                  PreState, ForwardState, FinalState
  <2> QED
    BY <2>1, NotOnward
<1>13. CASE UnwindPreUnpackPackage
  <2>1. state' \notin Onward \cup {"done"}
    BY <1>13, ExceptionValues DEF UnwindPreUnpackPackage, Throw, UnwindState, Onward, PreState,
                                  ForwardState, FinalState
  <2> QED
    BY <2>1, NotOnward
<1>14. CASE UnwindPreUnpackDone
  <2>1. state' \notin Onward \cup {"done"}
    BY <1>14, ExceptionValues DEF UnwindPreUnpackDone, CommitStatus, Throw, UnwindState, Onward,
                                  PreState, ForwardState, FinalState
  <2> QED
    BY <2>1, NotOnward
<1>15. CASE QuietPoll
  BY <1>15, QuietPolls, OnwardQuiet
<1> QED
  BY <1>1, <1>2, <1>3, <1>4, <1>5, <1>6, <1>7, <1>8, <1>9, <1>10, <1>11, <1>12, <1>13, <1>14, <1>15
     DEF Poll, PrePoll, ForwardPoll, FinalPoll, UnwindPoll, QuietPoll

-------------------------------------------------------------------------------
(* Sessions. *)

LEMMA StatusPoll == TypeInv /\ SessionInv /\ Poll => SessionInv'
  BY SetsPoll, BackedPoll, OnwardPoll DEF SessionInv, SetsInv, EndInv

\* A session is made for the statuses as they are, in memory and on the disc.
LEMMA StatusNew ==
  ASSUME TypeInv, NewUnpack, selstat' \in Selections, prevstat' = curstat, curstat = disk
  PROVE  SessionInv'
<1>1. /\ state' = "pre_unpack"
      /\ packagesToUnpack' = {p \in Package : UnpackReq(curstat[p], selstat'[p])}
      /\ packagesToRemove' = {p \in Package : RemoveReq(curstat[p], selstat'[p])}
      /\ packagesPreUnpacked' = {} /\ packagesBeingUnpacked' = {} /\ packagesBeingRemoved' = {}
      /\ existingModulePackages' = {} /\ moduleVersion' = [p \in Package |-> 0]
      /\ dirsRemoved' = {} /\ UNCHANGED <<curstat, disk>>
  BY DEF NewUnpack, EmptySets, statVars
<1>2. SelectedStates'
  BY UnpackAssumption DEF SelectedStates
<1>3. SetsEmptied' /\ DirsKept' /\ FinalCommitted' /\ Saved'
  BY <1>1 DEF SetsEmptied, DirsKept, FinalCommitted, Saved, PreState, MidState, ForwardState,
              FinalState,
              UnwindState
<1>4. Served' = {} /\ ServedInv'
  BY <1>1 DEF Served, ServedInv
<1>5. ASSUME NEW p \in Package
      PROVE  curstat[p].state \in Int /\ selstat'[p].state \in Int
  <2>1. selstat'[p] \in Status
    BY StatusesType
  <2>2. curstat \in [Package -> Status]
    BY DEF TypeInv, TypeOK
  <2>3. curstat[p] \in Status
    BY <2>2
  <2>4. \A s \in Status : s.state \in Int
    BY DEF Status, PkgState
  <2> QED
    BY <2>1, <2>3, <2>4
<1>6. BackedInv'
  <2> SUFFICES ASSUME NEW p \in Package PROVE Backed(p)'
    BY DEF BackedInv
  <2>1. prevstat' = curstat /\ curstat' = curstat
    BY <1>1
  <2>2. curstat[p].state \in Int /\ selstat'[p].state \in Int
    BY <1>5
  <2>3. prevstat'[p].state <= removed => curstat'[p].state <= removed
    BY <2>1
  <2>4. p \in packagesToUnpack' /\ prevstat'[p].state >= unpacked => p \in packagesToRemove'
    BY <1>1, <2>1, <2>2 DEF UnpackReq, RemoveReq, unpacked, removed
  <2>5. ~(p \in packagesToRemove' /\ prevstat'[p].state <= removed)
    BY <1>1, <2>1, <2>2 DEF RemoveReq, unpacked, removed
  <2> QED
    BY <2>1, <2>3, <2>4, <2>5 DEF Backed
<1>7. OnwardInv'
  <2> SUFFICES ASSUME NEW p \in Package PROVE AsSelected(p)'
    BY DEF OnwardInv
  <2> QED
    BY <1>1, <1>5 DEF AsSelected, ToBeRemoved, ToBeUnpacked, UnpackReq, RemoveReq, unpacked, removed
<1>8. DoneInv' /\ StatusBackedOut' /\ DoneAsSelected' /\ ModuleServes'
  BY <1>1 DEF StatusBackedOut, DoneInv, DoneAsSelected, ModuleServes
<1> QED
  BY <1>2, <1>3, <1>4, <1>6, <1>7, <1>8 DEF SessionInv

\* Nothing is said of the state between two sessions.
LEMMA StatusOver == SessionInv /\ NoSession => SessionInv'
<1> SUFFICES ASSUME SessionInv, NoSession PROVE SessionInv'
  OBVIOUS
<1>1. /\ state' = "idle"
      /\ packagesToUnpack' = {} /\ packagesPreUnpacked' = {} /\ packagesBeingUnpacked' = {}
      /\ packagesToRemove' = {} /\ packagesBeingRemoved' = {} /\ UNCHANGED selstat
  BY DEF NoSession, EmptySets, sessionVars
<1>2. SelectedStates'
  BY <1>1 DEF SessionInv, SelectedStates
<1> QED
  BY <1>1, <1>2
     DEF SessionInv, SetsEmptied, DirsKept, FinalCommitted, Saved, ServedInv, BackedInv, OnwardInv,
         Onward,
         DoneInv, StatusBackedOut, DoneAsSelected, ModuleServes, UnwoundStatus,
         PreState, MidState, ForwardState, FinalState, UnwindState

LEMMA StatusInit == Init => StatusInv
<1> SUFFICES ASSUME Init PROVE SessionInv /\ IdleSaved
  BY TypeInit DEF StatusInv
<1>1. SelectedStates
  BY UnpackAssumption DEF Init, SelectedStates
<1> QED
  BY <1>1
     DEF Init, SessionInv, IdleSaved, SetsEmptied, DirsKept, FinalCommitted, Saved, ServedInv,
         BackedInv,
         OnwardInv, Onward, DoneInv, StatusBackedOut, DoneAsSelected, ModuleServes, UnwoundStatus,
         PreState, MidState, ForwardState, FinalState, UnwindState

LEMMA StatusNext == StatusInv /\ [Next]_vars => StatusInv'
<1> SUFFICES ASSUME StatusInv, [Next]_vars PROVE SessionInv' /\ IdleSaved'
  BY TypeNext DEF StatusInv
<1>1. CASE Begin
  <2>1. curstat = disk
    BY <1>1 DEF Begin, StatusInv, IdleSaved
  <2> QED
    BY <1>1, <2>1, StatusNew DEF Begin, Select, NewUnpack, StatusInv, IdleSaved
<1>2. CASE Poll
  <2>1. SessionInv'
    BY <1>2, StatusPoll DEF StatusInv
  <2>2. state' # "idle"
    <3>1. CASE QuietPoll
      BY <3>1, QuietPolls DEF Quiet, Advances, Thrown
    <3> QED
      BY <1>2, <3>1, ExceptionValues, PreUnpackSelects, UnpackSelects, PostUnpacks
         DEF Poll, PrePoll, ForwardPoll, FinalPoll, UnwindPoll, QuietPoll,
             PreRemoveSelectPackage, PreRemoveDone, RemoveDir, RemoveDone, PostRemovePackage,
             PostUnpackDone,
             UnwindRemoveDir, UnwindUnpackPackage, RestoreFileFails, UnwindPreRemovePackage,
             UnwindPreUnpackPackage, UnwindPreUnpackDone, Throw, ThrowPre, StatusInv, PreState,
             UnwindState
  <2> QED
    BY <2>1, <2>2 DEF IdleSaved
<1>3. CASE Finish
  BY <1>3, StatusOver DEF Finish, NoSession, StatusInv, SessionInv, Saved, IdleSaved
<1>4. CASE Crash
  BY <1>4, StatusOver DEF Crash, NoSession, StatusInv, IdleSaved
<1>5. CASE UNCHANGED vars
  BY <1>5
     DEF vars, statVars, fsVars, mfVars, packageVars, fileVars, dirVars, sessionVars, StatusInv,
         SessionInv,
         IdleSaved, SelectedStates, SetsEmptied, DirsKept, FinalCommitted, Saved, ServedInv, Served,
         SelectedPackages, BackedInv, Backed, OnwardInv, Onward, AsSelected, ToBeRemoved,
         ToBeUnpacked,
         ReadManifest, DoneInv, StatusBackedOut, DoneAsSelected, ModuleServes, UnwoundStatus
<1> QED
  BY <1>1, <1>2, <1>3, <1>4, <1>5 DEF Next

LEMMA StatusSpec == Spec => []StatusInv
  BY StatusInit, StatusNext, PTL DEF Spec

\* A session that fails before the point of no return leaves every package as it
\* was, in the status file too (StatusBackedOut): unwind_pre_remove and
\* unwind_pre_unpack undo exactly what pre_unpack and pre_remove did to the
\* statuses, whichever state the session was backed out from.
THEOREM BackedOut == Spec => []StatusBackedOut
<1>1. StatusInv => StatusBackedOut
  BY DEF StatusInv, SessionInv
<1> QED
  BY <1>1, StatusSpec, PTL

\* A session that ends well leaves every package as selected, with the manifest
\* of what has been unpacked, and without that of what has been removed unless a delete
\* has failed (DoneAsSelected).
THEOREM LeftAsSelected == Spec => []DoneAsSelected
<1>1. StatusInv => DoneAsSelected
  BY DEF StatusInv, SessionInv
<1> QED
  BY <1>1, StatusSpec, PTL

\* A package that a module on the machine serves as is installed in the selected
\* version or a later one (ModuleServes).
THEOREM ModulesServe == Spec => []ModuleServes
<1>1. StatusInv => ModuleServes
  BY DEF StatusInv, SessionInv
<1> QED
  BY <1>1, StatusSpec, PTL

-------------------------------------------------------------------------------
(* Backing out the files. *)

\* Before the point of no return: what is to be removed was there when the
\* session began; what has been replaced is in its backup, and what has been
\* unpacked without being replaced was not there.
ReplacedInv ==
  /\ state \in PreState \cup ForwardState => \A f \in filesToRemove : orig[f] # NoFile
  /\ state \in PreState \cup (ForwardState \ {"remove"}) => filesBeingRemoved \subseteq filesUnpacked
  /\ ~committed /\ state \in {"replace", "unwind_replace"} =>
       \A f \in filesUnpacked :
         IF f \in filesBeingRemoved THEN orig[f] # NoFile /\ bak[f] = orig[f] ELSE orig[f] = NoFile

\* In the unwinding, of the files that are not yet to be restored and that were
\* there at most one is not as it was: that which could not be moved into place.
\* One that was not there is only there if it could not be deleted.
LeftChanged == {f \in PackageFile \ filesUnpacked : dst[f] # orig[f]}
LeftLost == {f \in LeftChanged : orig[f] # NoFile}
RestoredInv ==
  state \in UnwindState /\ ~committed =>
    /\ LeftLost # {} => "replace" \in failed
    /\ \A f, g \in LeftLost : f = g
    /\ \A f \in LeftLost : dst[f] = NoFile /\ bak[f] = orig[f]
    /\ LeftChanged # LeftLost => "delete" \in failed
    /\ state # "unwind_replace" => filesUnpacked = {}

FilesInv == RecoverInv /\ ReplacedInv /\ RestoredInv

\* The polls that leave the files and what is known of them alone.
FilesStill ==
  /\ UNCHANGED <<dst, bak, filesUnpacked, filesToRemove, filesBeingRemoved, orig>> /\ failed \subseteq failed'
  /\ \/ UNCHANGED <<state, committed>>
     \/ /\ <<state, state'>> \in Advances \cup Thrown \cup {<<"pre_remove", "copy_post_remove">>}
        /\ UNCHANGED committed
        /\ state = "unwind_replace" => filesUnpacked = {}
     \/ state' \notin PreState \cup ForwardState \cup UnwindState

LEMMA FilePolls ==
  Poll => \/ FilesStill
          \/ PreRemoveSelectPackage \/ UnpackSelectPackage \/ ReplaceFile \/ RemoveFile
          \/ PostRemoveFile \/ PostRemovePackage \/ PostUnpackPackage
          \/ UnwindReplaceFile \/ UnwindUnpackPackage
<1> SUFFICES ASSUME Poll,
                    ~PreRemoveSelectPackage, ~UnpackSelectPackage, ~ReplaceFile, ~RemoveFile,
                    ~PostRemoveFile, ~PostRemovePackage, ~PostUnpackPackage,
                    ~UnwindReplaceFile, ~UnwindUnpackPackage
             PROVE  FilesStill
  OBVIOUS
<1> USE ExceptionValues
    DEF FilesStill, statVars, fsVars, mfVars, packageVars, unpackVars, removeVars, dirVars,
        fileVars, sessionVars, NoFault, Fault, Throw, ThrowPre, Progress, Verdict,
        PreState, ForwardState, UnwindState
<1>1. CASE PreUnpackCheckFile
  BY <1>1 DEF PreUnpackCheckFile, Advances, Thrown
<1>2. CASE PreUnpackCheckEmptyDir
  BY <1>2 DEF PreUnpackCheckEmptyDir, Advances, Thrown
<1>3. CASE PreUnpackSelectPackage
  BY <1>3 DEF PreUnpackSelectPackage, UseModule, ReplaceModule, UnpackAsUsual, Advances, Thrown
<1>4. CASE PreUnpackDone
  BY <1>4 DEF PreUnpackDone, Advances, Thrown
<1>5. CASE PreRemoveDone
  BY <1>5 DEF PreRemoveDone, CommitStatus, Advances, Thrown
<1>6. CASE CopyPostRemove
  BY <1>6 DEF CopyPostRemove, Advances, Thrown
<1>7. CASE RunPreRemoveTriggers
  BY <1>7 DEF RunPreRemoveTriggers, Advances, Thrown
<1>8. CASE RemoveFilesReplacedByDirs
  BY <1>8 DEF RemoveFilesReplacedByDirs, Advances, Thrown
<1>9. CASE UnpackFile
  BY <1>9 DEF UnpackFile, Advances, Thrown
<1>10. CASE UnpackDone
  BY <1>10 DEF UnpackDone, Advances, Thrown
<1>11. CASE RunPreInstallTriggers
  BY <1>11 DEF RunPreInstallTriggers, Advances, Thrown
<1>12. CASE ReplaceCheckEmptyDir
  BY <1>12 DEF ReplaceCheckEmptyDir, Advances, Thrown
<1>13. CASE ReplaceDone
  BY <1>13 DEF ReplaceDone, Advances, Thrown
<1>14. CASE RemoveDir
  BY <1>14 DEF RemoveDir, Advances, Thrown
<1>15. CASE RemoveDone
  BY <1>15 DEF RemoveDone, Advances, Thrown
<1>16. CASE PostRemoveDone
  BY <1>16 DEF PostRemoveDone, Advances, Thrown
<1>17. CASE CreateEmptyDir
  BY <1>17 DEF CreateEmptyDir, Advances, Thrown
<1>18. CASE CreateEmptyDirsDone
  BY <1>18 DEF CreateEmptyDirsDone, Advances, Thrown
<1>19. CASE PostUnpackDone
  BY <1>19 DEF PostUnpackDone, UpdateExistingModules, CommitStatus, Advances, Thrown
<1>20. CASE UnwindCreateEmptyDir
  BY <1>20 DEF UnwindCreateEmptyDir, Advances, Thrown
<1>21. CASE UnwindCreateEmptyDirsDone
  BY <1>21 DEF UnwindCreateEmptyDirsDone, Advances, Thrown
<1>22. CASE UnwindReplaceDone
  BY <1>22 DEF UnwindReplaceDone, Advances, Thrown
<1>23. CASE UnwindRemoveDir
  BY <1>23 DEF UnwindRemoveDir, Advances, Thrown
<1>24. CASE UnwindRemoveDone
  BY <1>24 DEF UnwindRemoveDone, Advances, Thrown
<1>25. CASE UnwindPreInstallTriggers
  BY <1>25 DEF UnwindPreInstallTriggers, Advances, Thrown
<1>26. CASE UnwindUnpackFile
  BY <1>26 DEF UnwindUnpackFile, Advances, Thrown
<1>27. CASE UnwindUnpackDone
  BY <1>27 DEF UnwindUnpackDone, Advances, Thrown
<1>28. CASE UnwindRemoveFilesReplacedByDirs
  BY <1>28 DEF UnwindRemoveFilesReplacedByDirs, Advances, Thrown
<1>29. CASE UnwindPreRemoveTriggers
  BY <1>29 DEF UnwindPreRemoveTriggers, Advances, Thrown
<1>30. CASE UnwindCopyPostRemove
  BY <1>30 DEF UnwindCopyPostRemove, Advances, Thrown
<1>31. CASE UnwindPreRemovePackage
  BY <1>31 DEF UnwindPreRemovePackage, Restored, Advances, Thrown
<1>32. CASE UnwindPreRemoveDone
  BY <1>32 DEF UnwindPreRemoveDone, Advances, Thrown
<1>33. CASE UnwindPreUnpackPackage
  BY <1>33 DEF UnwindPreUnpackPackage, Advances, Thrown
<1>34. CASE UnwindPreUnpackDone
  BY <1>34 DEF UnwindPreUnpackDone, CommitStatus, Advances, Thrown
<1> QED
  BY <1>1, <1>2, <1>3, <1>4, <1>5, <1>6, <1>7, <1>8, <1>9, <1>10, <1>11, <1>12, <1>13, <1>14,
     <1>15, <1>16, <1>17, <1>18, <1>19, <1>20, <1>21, <1>22, <1>23, <1>24, <1>25, <1>26, <1>27,
     <1>28, <1>29, <1>30, <1>31, <1>32, <1>33, <1>34
     DEF Poll, PrePoll, ForwardPoll, FinalPoll, UnwindPoll

\* On the way forward every file that has not been unpacked is as it was.
LEMMA ForwardUnchanged ==
  RecoverInv /\ ReplacedInv /\ state \in PreState \cup (ForwardState \ {"remove"}) => LeftChanged = {}
<1> SUFFICES ASSUME RecoverInv, ReplacedInv, state \in PreState \cup (ForwardState \ {"remove"}),
                    NEW f \in PackageFile, f \notin filesUnpacked
             PROVE  dst[f] = orig[f]
  BY DEF LeftChanged
<1>1. f \in File /\ \A p \in Package : f # ControlFile[p]
  BY DEF PackageFile
<1>2. Untouched(f)
  BY <1>1 DEF Untouched, Changed, ReplacedInv, RecoverInv, TypeInv, TypeOK
<1> QED
  BY <1>1, <1>2 DEF RecoverInv, InPlace

LEMMA FilesStillKept ==
  RecoverInv /\ ReplacedInv /\ RestoredInv /\ FilesStill => ReplacedInv' /\ RestoredInv'
<1> SUFFICES ASSUME RecoverInv, ReplacedInv, RestoredInv, FilesStill PROVE ReplacedInv' /\ RestoredInv'
  OBVIOUS
<1> USE DEF FilesStill, PreState, ForwardState, FinalState, UnwindState, Advances, Thrown
<1>1. ReplacedInv'
  <2>1. state' \in PreState \cup ForwardState => state \in PreState \cup ForwardState
    OBVIOUS
  <2>2. state' \in PreState \cup (ForwardState \ {"remove"})
          => state \in PreState \cup (ForwardState \ {"remove"})
    OBVIOUS
  <2>3. ~committed' /\ state' \in {"replace", "unwind_replace"}
          => ~committed /\ (state \in {"replace", "unwind_replace"} \/ filesUnpacked = {})
    BY DEF RecoverInv, InPlace, Changed, RestoredInv
  <2> QED
    BY <2>1, <2>2, <2>3 DEF ReplacedInv
<1>2. RestoredInv'
  <2> SUFFICES ASSUME state' \in UnwindState, ~committed' PROVE RestoredInv'
    BY DEF RestoredInv
  <2>1. ~committed /\ state \in UnwindState \cup (ForwardState \ {"remove"})
    BY DEF RecoverInv, FinalCommitted
  <2>2. LeftChanged' = LeftChanged /\ LeftLost' = LeftLost
    BY DEF LeftChanged, LeftLost
  <2>3. state' # "unwind_replace" => filesUnpacked = {}
    BY <2>1 DEF RecoverInv, InPlace, Changed, RestoredInv
  <2>4. CASE state \in UnwindState
    BY <2>1, <2>2, <2>3, <2>4 DEF RestoredInv
  <2>5. CASE state \in ForwardState \ {"remove"}
    BY <2>2, <2>3, <2>5, ForwardUnchanged DEF RestoredInv, LeftLost
  <2> QED
    BY <2>1, <2>4, <2>5
<1> QED
  BY <1>1, <1>2

LEMMA ReplaceFileKept ==
  RecoverInv /\ ReplacedInv /\ RestoredInv /\ ReplaceFile => ReplacedInv' /\ RestoredInv'
<1> SUFFICES ASSUME RecoverInv, ReplacedInv, RestoredInv, ReplaceFile PROVE ReplacedInv' /\ RestoredInv'
  OBVIOUS
<1>1. state = "replace" /\ UNCHANGED <<orig, committed>>
  BY DEF ReplaceFile, Throw, sessionVars
<1>2. PICK f \in filesBeingUnpacked :
        \/ /\ dst' = [dst EXCEPT ![f] = tmp[f]]
           /\ \/ Replaceable(f, f \in filesToRemove) /\ bak' = BackUp(f, f \in filesToRemove).bak
              \/ dst[f] = NoFile /\ UNCHANGED bak
           /\ filesBeingRemoved' = IF f \in filesToRemove THEN filesBeingRemoved \cup {f} ELSE filesBeingRemoved
           /\ filesToRemove' = filesToRemove \ {f}
           /\ filesUnpacked' = filesUnpacked \cup {f}
           /\ UNCHANGED state
        \/ /\ ReplaceFileFails(f, f \in filesToRemove, "replace")
           /\ state' = "unwind_replace"
           /\ UNCHANGED <<filesBeingRemoved, filesToRemove, filesUnpacked>>
  BY <1>1, ExceptionValues DEF ReplaceFile, BackupStays, Throw
<1>3. f \in PackageFile /\ f \in File /\ f \notin filesUnpacked \cup filesBeingRemoved
  BY <1>1 DEF RecoverInv, ControlsApart, InPlace, Changed, PackageFile, TypeInv, TypeOK,
              ForwardState
<1>4. LeftChanged = {}
  BY <1>1, ForwardUnchanged DEF ForwardState
<1>5. dst[f] = orig[f]
  BY <1>3, <1>4 DEF LeftChanged
<1>6. \A g \in File : g # f => dst'[g] = dst[g] /\ bak'[g] = bak[g]
  BY <1>2, <1>3, ReplaceFailsOutcome DEF BackUp, RecoverInv, TypeInv, TypeOK, SomeFile
<1>7. filesUnpacked \subseteq File /\ filesToRemove \subseteq File
  BY DEF RecoverInv, TypeInv, TypeOK
<1>8. f \in filesToRemove => orig[f] # NoFile
  BY <1>1 DEF ReplacedInv, ForwardState
<1>9. CASE state' = state
  <2>1. IF f \in filesToRemove THEN orig[f] # NoFile /\ bak'[f] = orig[f] ELSE orig[f] = NoFile
    BY <1>1, <1>2, <1>3, <1>5, <1>8, <1>9 DEF BackUp, Replaceable, RecoverInv, TypeInv, TypeOK,
                                              SomeFile
  <2>2. /\ filesBeingRemoved' = IF f \in filesToRemove THEN filesBeingRemoved \cup {f} ELSE filesBeingRemoved
        /\ filesToRemove' = filesToRemove \ {f}
        /\ filesUnpacked' = filesUnpacked \cup {f}
    BY <1>1, <1>2, <1>9
  <2>3. ReplacedInv'
    BY <1>1, <1>3, <1>6, <1>7, <1>9, <2>1, <2>2 DEF ReplacedInv, PreState, ForwardState
  <2> QED
    BY <1>1, <1>9, <2>3 DEF RestoredInv, UnwindState
<1>10. CASE state' # state
  <2>1. /\ ReplaceFileFails(f, f \in filesToRemove, "replace") /\ state' = "unwind_replace"
        /\ UNCHANGED <<filesBeingRemoved, filesToRemove, filesUnpacked>>
    BY <1>2, <1>10
  <2>2. ReplacedInv'
    BY <1>1, <1>3, <1>6, <1>7, <2>1 DEF ReplacedInv, PreState, ForwardState
  <2>3. dst'[f] # orig[f] =>
          "replace" \in failed' /\ dst'[f] = NoFile /\ bak'[f] = orig[f] /\ orig[f] # NoFile
    <3>1. dst'[f] # orig[f] => f \in filesToRemove /\ dst'[f] = NoFile /\ bak'[f] = orig[f]
      <4>1. \/ /\ f \in filesToRemove
               /\ dst' = [dst EXCEPT ![f] = NoFile] /\ bak' = [bak EXCEPT ![f] = dst[f]]
            \/ dst' = dst
        <5>1. \/ dst' = BackUp(f, f \in filesToRemove).dst /\ bak' = BackUp(f, f \in filesToRemove).bak
              \/ dst' = BackUp(f, FALSE).dst
              \/ dst' = dst
          BY <2>1, ReplaceFailsOutcome, Zenon
        <5>2. CASE dst' = BackUp(f, FALSE).dst
          BY <5>2 DEF BackUp
        <5> QED
          BY <5>1, <5>2 DEF BackUp
      <4> QED
        BY <1>3, <1>5, <4>1 DEF RecoverInv, TypeInv, TypeOK, SomeFile
    <3>2. f \in filesToRemove => "replace" \in failed'
      BY <2>1 DEF ReplaceFileFails, Replaceable, Fault
    <3> QED
      BY <3>1, <3>2, <1>8
  <2>4. \A g \in LeftChanged' : g = f
    BY <1>1, <1>4, <1>6, <2>1 DEF LeftChanged, PackageFile
  <2>5. f \in LeftChanged' => dst'[f] # orig[f]
    BY <1>1 DEF LeftChanged
  <2> QED
    BY <1>1, <2>1, <2>2, <2>3, <2>4, <2>5 DEF RestoredInv, LeftLost
<1> QED
  BY <1>9, <1>10

LEMMA UnwindReplaceFileKept ==
  RecoverInv /\ ReplacedInv /\ RestoredInv /\ UnwindReplaceFile => ReplacedInv' /\ RestoredInv'
<1> SUFFICES ASSUME RecoverInv, ReplacedInv, RestoredInv, UnwindReplaceFile, state' # "fail"
             PROVE  ReplacedInv' /\ RestoredInv'
  BY DEF ReplacedInv, RestoredInv, PreState, ForwardState, UnwindState
<1>1. state = "unwind_replace" /\ UNCHANGED <<orig, committed>>
  BY DEF UnwindReplaceFile, RestoreFileFails, Throw, sessionVars
<1>2. PICK f \in filesUnpacked :
        /\ RestoreFile(f, f \in filesBeingRemoved)
        /\ filesBeingRemoved' = filesBeingRemoved \ {f}
        /\ filesUnpacked' = filesUnpacked \ {f}
        /\ UNCHANGED state
  BY <1>1, ExceptionValues DEF UnwindReplaceFile, RestoreFileFails, Throw, UnwindState
<1>3. f \in File /\ filesUnpacked \subseteq File
  BY DEF RecoverInv, TypeInv, TypeOK
<1>4. \A g \in File : g # f => dst'[g] = dst[g] /\ bak'[g] = bak[g]
  BY <1>2, <1>3 DEF RestoreFile, RecoverInv, TypeInv, TypeOK, SomeFile
<1>5. ~committed => dst'[f] = orig[f] \/ (orig[f] = NoFile /\ "delete" \in failed')
  <2> SUFFICES ASSUME ~committed PROVE dst'[f] = orig[f] \/ (orig[f] = NoFile /\ "delete" \in failed')
    OBVIOUS
  <2>1. IF f \in filesBeingRemoved THEN orig[f] # NoFile /\ bak[f] = orig[f] ELSE orig[f] = NoFile
    BY <1>1, <1>2 DEF ReplacedInv
  <2>2. \/ f \in filesBeingRemoved /\ bak[f] # NoFile /\ dst' = [dst EXCEPT ![f] = bak[f]]
        \/ f \in filesBeingRemoved /\ bak[f] = NoFile
        \/ f \notin filesBeingRemoved /\ dst' = [dst EXCEPT ![f] = NoFile]
        \/ f \notin filesBeingRemoved /\ "delete" \in failed'
    BY <1>2 DEF RestoreFile, Fault
  <2>3. dst \in [File -> FileData \cup {NoFile}]
    BY DEF RecoverInv, TypeInv, TypeOK, SomeFile
  <2> QED
    BY <1>3, <2>1, <2>2, <2>3
<1>6. ReplacedInv'
  BY <1>1, <1>2, <1>3, <1>4 DEF ReplacedInv, PreState, ForwardState
<1>7. ~committed => /\ LeftLost' = LeftLost
                    /\ LeftChanged' # LeftChanged => "delete" \in failed'
  BY <1>1, <1>2, <1>3, <1>4, <1>5 DEF LeftChanged, LeftLost, PackageFile
<1>8. \A g \in LeftLost : g \in File /\ g # f
  BY <1>2 DEF LeftLost, LeftChanged, PackageFile
<1>10. failed \subseteq failed'
  BY PollConstants DEF Poll, UnwindPoll
<1>9. RestoredInv'
  <2>1. state \in UnwindState
    BY <1>1 DEF UnwindState
  <2> QED
    BY <1>1, <1>2, <1>4, <1>7, <1>8, <1>10, <2>1 DEF RestoredInv
<1> QED
  BY <1>6, <1>9

\* Selecting a package and unwinding it touch the control files only.
LEMMA ControlOnlyKept ==
  RecoverInv /\ ReplacedInv /\ RestoredInv /\ (UnpackSelectPackage \/ UnwindUnpackPackage)
    => ReplacedInv' /\ RestoredInv'
<1> SUFFICES ASSUME RecoverInv, ReplacedInv, RestoredInv, UnpackSelectPackage \/ UnwindUnpackPackage
             PROVE  ReplacedInv' /\ RestoredInv'
  OBVIOUS
<1>1. UNCHANGED <<orig, committed, filesUnpacked, removeVars>> /\ failed \subseteq failed'
  <2>1. failed \subseteq failed'
    BY PollConstants DEF Poll, ForwardPoll, UnwindPoll
  <2> QED
    BY <2>1 DEF UnpackSelectPackage, UnwindUnpackPackage, RestoreFileFails, Throw, sessionVars,
                fileVars, unpackVars
<1>2. \/ state = "unpack" /\ state' \in {"unpack", "unwind_unpack"}
      \/ state = "unwind_unpack" /\ state' \in {"unwind_unpack", "fail"}
  BY ExceptionValues
     DEF UnpackSelectPackage, UnwindUnpackPackage, RestoreFileFails, Throw, UnwindState
<1>3. \A f \in PackageFile : dst'[f] = dst[f] /\ bak'[f] = bak[f]
  <2>1. \E p \in Package :
          /\ dst' \in {dst, [dst EXCEPT ![ControlFile[p]] = dst'[ControlFile[p]]]}
          /\ bak' \in {bak, [bak EXCEPT ![ControlFile[p]] = bak'[ControlFile[p]]]}
    <3>1. CASE UnpackSelectPackage
      <4>1. ASSUME NEW c, NEW overwrite, NEW k, ReplaceFileFails(c, overwrite, k)
            PROVE  dst' \in {dst, [dst EXCEPT ![c] = NoFile]}
                   /\ bak' \in {bak, [bak EXCEPT ![c] = dst[c]], [bak EXCEPT ![c] = NoFile]}
        BY <4>1, ReplaceFailsOutcome DEF BackUp
      <4>2. PICK p \in packagesPreUnpacked :
              \/ UNCHANGED <<dst, bak>>
              \/ \E overwrite, k : ReplaceFileFails(ControlFile[p], overwrite, k)
              \/ /\ dst' = [dst EXCEPT ![ControlFile[p]] =
                               [owner |-> p, version |-> selstat[p].version]]
                 /\ \E overwrite : bak' \in {bak, BackUp(ControlFile[p], overwrite).bak}
        BY <3>1, Zenon DEF UnpackSelectPackage, BackupStays
      <4> QED
        BY <4>1, <4>2, ControlFileType DEF BackUp, RecoverInv, TypeInv, TypeOK, SomeFile
    <3>2. CASE UnwindUnpackPackage
      BY <3>2, ControlFileType
         DEF UnwindUnpackPackage, RestoreFile, RestoreFileFails, RecoverInv, TypeInv, TypeOK,
             SomeFile
    <3> QED
      BY <3>1, <3>2
  <2> QED
    BY <2>1, ControlFileType DEF PackageFile, RecoverInv, TypeInv, TypeOK, SomeFile
<1>4. LeftChanged' = LeftChanged /\ LeftLost' = LeftLost
  BY <1>1, <1>3 DEF LeftChanged, LeftLost
<1>5. ~committed => filesUnpacked = {}
  BY <1>2 DEF RecoverInv, InPlace, Changed, RestoredInv, ForwardState, UnwindState
<1>6. ReplacedInv'
  BY <1>1, <1>2 DEF ReplacedInv, removeVars, PreState, ForwardState
<1>7. RestoredInv'
  <2>1. CASE state = "unpack"
    BY <1>1, <1>2, <1>4, <1>5, <2>1, ForwardUnchanged DEF RestoredInv, LeftLost, ForwardState
  <2>2. CASE state = "unwind_unpack"
    BY <1>1, <1>2, <1>3, <1>4, <1>5, <2>2 DEF RestoredInv, LeftChanged, LeftLost, UnwindState
  <2> QED
    BY <1>2, <2>1, <2>2
<1> QED
  BY <1>6, <1>7

LEMMA FilesPoll ==
  RecoverInv /\ ReplacedInv /\ RestoredInv /\ Poll => ReplacedInv' /\ RestoredInv'
<1> SUFFICES ASSUME RecoverInv, ReplacedInv, RestoredInv, Poll PROVE ReplacedInv' /\ RestoredInv'
  OBVIOUS
<1>1. CASE PreRemoveSelectPackage
  <2>1. state = "pre_remove" /\ UNCHANGED <<state, orig, filesUnpacked, filesBeingRemoved>>
    BY <1>1 DEF PreRemoveSelectPackage, sessionVars, unpackVars
  <2>2. \A f \in File : dst[f] # NoFile => orig[f] # NoFile
    BY <2>1 DEF RecoverInv, InPlace, Untouched, Changed, PreState, ForwardState
  <2>3. \A f \in filesToRemove' \ filesToRemove : f \in File /\ dst[f] # NoFile
    BY <1>1 DEF PreRemoveSelectPackage, FilesToGo
  <2> QED
    BY <2>1, <2>2, <2>3 DEF ReplacedInv, RestoredInv, PreState, ForwardState, UnwindState
<1>2. CASE RemoveFile
  BY <1>2 DEF RemoveFile, ReplacedInv, RestoredInv, sessionVars, PreState, ForwardState, UnwindState
<1>3. CASE PostRemoveFile \/ PostRemovePackage \/ PostUnpackPackage
  <2>1. state' \in FinalState \cup {"fail"}
    BY <1>3, ExceptionValues DEF PostRemoveFile, PostRemovePackage, PostUnpackPackage, Throw,
                                 FinalState
  <2> QED
    BY <2>1 DEF ReplacedInv, RestoredInv, PreState, ForwardState, FinalState, UnwindState
<1> QED
  BY <1>1, <1>2, <1>3, FilePolls, FilesStillKept, ReplaceFileKept, UnwindReplaceFileKept,
     ControlOnlyKept

LEMMA FilesInit == Init => FilesInv
  BY RecoverInit DEF Init, FilesInv, ReplacedInv, RestoredInv, UnwindState

LEMMA FilesNext == FilesInv /\ [Next]_vars => FilesInv'
<1> SUFFICES ASSUME FilesInv, [Next]_vars PROVE ReplacedInv' /\ RestoredInv'
  BY RecoverNext DEF FilesInv
<1>1. CASE Begin
  BY <1>1 DEF Begin, NewUnpack, EmptySets, ReplacedInv, RestoredInv, PreState, ForwardState,
              UnwindState
<1>2. CASE Poll
  BY <1>2, FilesPoll DEF FilesInv
<1>3. CASE Finish \/ Crash
  BY <1>3 DEF Finish, Crash, NoSession, ReplacedInv, RestoredInv, PreState, ForwardState,
              UnwindState
<1>4. CASE UNCHANGED vars
  BY <1>4 DEF vars, fsVars, fileVars, unpackVars, removeVars, sessionVars, FilesInv, ReplacedInv,
              RestoredInv, LeftChanged, LeftLost
<1> QED
  BY <1>1, <1>2, <1>3, <1>4 DEF Next

\* When the unwinding reaches the statuses, the files that were there are as they
\* were, but for at most one that could not be moved into place, which is in its
\* backup; and if there is a file that was not, a file could not be deleted
\* (FilesBackedOut).
THEOREM FilesAreBackedOut == Spec => []FilesBackedOut
<1>1. FilesInv => FilesBackedOut
  <2> SUFFICES ASSUME FilesInv, UnwoundStatus, ~committed PROVE FilesBackedOut
    BY DEF FilesBackedOut
  <2>1. /\ LeftLost # {} => "replace" \in failed
        /\ \A f, g \in LeftLost : f = g
        /\ \A f \in LeftLost : dst[f] = NoFile /\ bak[f] = orig[f]
        /\ LeftChanged # LeftLost => "delete" \in failed
        /\ filesUnpacked = {}
    BY DEF FilesInv, RestoredInv, UnwoundStatus, UnwindState
  <2>2. LeftChanged = {f \in PackageFile : dst[f] # orig[f]}
    BY <2>1 DEF LeftChanged
  <2> QED
    BY <2>1, <2>2 DEF FilesBackedOut, LeftLost
<1> QED
  BY <1>1, FilesInit, FilesNext, PTL DEF Spec

-------------------------------------------------------------------------------
(* What the manifests hold, and the sets of packages. *)

AllContents(p) == UNION {Contents[p][v] : v \in Version}

ManifestsOwn == \A p \in Package : mfDst[p] \cup mfTmp[p] \cup mfBak[p] \subseteq AllContents(p)

LEMMA ManifestsOwnPoll == TypeInv /\ ManifestsOwn /\ Poll => ManifestsOwn'
<1> SUFFICES ASSUME TypeInv, ManifestsOwn, Poll PROVE ManifestsOwn'
  OBVIOUS
<1>1. \A p \in SelectedPackages : p \in Package /\ Contents[p][selstat[p].version] \subseteq AllContents(p)
  BY DEF TypeInv, SelectedInv, SelectedPackages, AllContents
<1>2. /\ packagesToUnpack \subseteq SelectedPackages /\ packagesPreUnpacked \subseteq SelectedPackages
      /\ packagesBeingUnpacked \subseteq SelectedPackages
  BY DEF TypeInv, SelectedInv
<1>3. mfDst \in [Package -> SUBSET (File \cup Dir)] /\ mfTmp \in [Package -> SUBSET (File \cup Dir)]
      /\ mfBak \in [Package -> SUBSET (File \cup Dir)]
  BY DEF TypeInv, TypeOK
<1> HIDE DEF AllContents
<1>4. CASE SetsStill
  BY <1>4 DEF SetsStill, mfVars, ManifestsOwn
<1>5. CASE PreUnpackSelectPackage
  <2>1. PICK p \in packagesToUnpack :
          \/ UNCHANGED mfDst
             /\ \A q \in Package : mfTmp'[q] \in {mfTmp[q], {}}
          \/ UNCHANGED mfDst /\ mfTmp' = [mfTmp EXCEPT ![p] = Contents[p][selstat[p].version]]
          \/ mfDst' = [mfDst EXCEPT ![p] = Contents[p][selstat[p].version]] /\ UNCHANGED mfTmp
          \/ UNCHANGED <<mfDst, mfTmp>>
    BY <1>5 DEF PreUnpackSelectPackage, ThrowPre, UseModule, ReplaceModule, UnpackAsUsual
  <2>2. UNCHANGED mfBak
    BY <1>5 DEF PreUnpackSelectPackage
  <2> QED
    BY <1>1, <1>2, <1>3, <2>1, <2>2 DEF ManifestsOwn
<1>6. CASE PreRemoveDone
  BY <1>3, <1>6 DEF PreRemoveDone, ThrowPre, ManifestsOwn
<1>7. CASE UnpackSelectPackage
  <2>1. PICK p \in packagesPreUnpacked :
          \/ UNCHANGED mfVars
          \/ /\ mfTmp' = [mfTmp EXCEPT ![p] = Merged(p, selstat[p].version)]
             /\ \/ UNCHANGED <<mfDst, mfBak>>
                \/ /\ mfBak' = [mfBak EXCEPT ![p] = mfDst[p]]
                   /\ mfDst' = [mfDst EXCEPT ![p] = {}]
          \/ /\ mfDst' = [mfDst EXCEPT ![p] = Merged(p, selstat[p].version)]
             /\ mfBak' \in {[mfBak EXCEPT ![p] = {}], [mfBak EXCEPT ![p] = mfDst[p]],
                           [mfBak EXCEPT ![p] = mfBak[p]]}
             /\ mfTmp' = [mfTmp EXCEPT ![p] = Contents[p][selstat[p].version]]
    BY <1>7, SMTT(60) DEF UnpackSelectPackage, ManifestLeft, mfVars
  <2>2. Merged(p, selstat[p].version) \subseteq AllContents(p)
    BY <1>1, <1>2 DEF Merged, ReadManifest, ManifestsOwn
  <2> QED
    BY <1>1, <1>2, <1>3, <2>1, <2>2 DEF ManifestsOwn, mfVars
<1>8. CASE PostRemovePackage
  <2>1. PICK p \in packagesBeingRemoved : UNCHANGED mfVars \/ RemovePackageFiles(p)
    BY <1>8 DEF PostRemovePackage
  <2> QED
    BY <1>3, <2>1, RemovalOutcome DEF ManifestsOwn, mfVars
<1>9. CASE PostUnpackPackage
  <2>1. PICK p \in packagesBeingUnpacked :
          /\ mfDst' \in {mfDst, [mfDst EXCEPT ![p] = {}], [mfDst EXCEPT ![p] = mfTmp[p]]}
          /\ mfTmp' \in {mfTmp, [mfTmp EXCEPT ![p] = {}]}
          /\ mfBak' \in {mfBak, [mfBak EXCEPT ![p] = {}], [mfBak EXCEPT ![p] = mfDst[p]],
                        [mfBak EXCEPT ![p] = mfBak[p]]}
    BY <1>9 DEF PostUnpackPackage, ManifestLeft
  <2> QED
    BY <1>3, <2>1 DEF ManifestsOwn, mfVars
<1>10. CASE PostUnpackDone
  <2>1. UNCHANGED mfBak /\ \A p \in Package : mfDst'[p] \in {mfDst[p], mfTmp[p]} /\ mfTmp'[p] \in {mfTmp[p], {}}
    BY <1>10 DEF PostUnpackDone, UpdateExistingModules
  <2> QED
    BY <2>1 DEF ManifestsOwn
<1>11. CASE UNCHANGED mfVars
  BY <1>11 DEF mfVars, ManifestsOwn
<1>12. SetsPolls => \/ UNCHANGED mfVars \/ PreUnpackSelectPackage \/ PreRemoveDone \/ UnpackSelectPackage
                    \/ PostRemovePackage \/ PostUnpackPackage \/ PostUnpackDone
  BY DEF SetsPolls, PreUnpackCheckFile, PreRemoveSelectPackage, UnpackFile, ReplaceFile, RemoveFile,
         PostRemoveFile, UnwindReplaceFile, UnwindUnpackFile, UnwindUnpackPackage,
         UnwindPreRemovePackage,
         UnwindPreUnpackPackage, UnwindPreUnpackDone, mfVars
<1> QED
  BY <1>4, <1>5, <1>6, <1>7, <1>8, <1>9, <1>10, <1>11, <1>12, StillPolls

\* What the packages that are to be unpacked, or are served by a module, require.
UnpackedInv ==
  /\ \A p \in ToBeUnpacked \cup existingModulePackages :
       sessions >= 1 /\ UnpackReq(prevstat[p], selstat[p])
  /\ existingModulePackages \cap (ToBeUnpacked \cup ToBeRemoved) = {}

LEMMA UnpackedPoll == TypeInv /\ SetsInv /\ UnpackedInv /\ Poll => UnpackedInv'
<1> SUFFICES ASSUME TypeInv, SetsInv, UnpackedInv, Poll PROVE UnpackedInv'
  OBVIOUS
<1>1. UNCHANGED <<sessions, selstat, prevstat>>
  BY PollConstants
<1> USE DEF UnpackedInv, ToBeUnpacked, ToBeRemoved
<1>2. CASE SetsStill
  BY <1>1, <1>2 DEF SetsStill, packageVars
<1>3. CASE PreUnpackSelectPackage
  <2>1. packagesBeingRemoved = {} /\ packagesBeingUnpacked = {}
        /\ packagesToUnpack \cap (packagesPreUnpacked \cup packagesBeingUnpacked) = {}
    BY <1>3, PreUnpackSelects DEF SetsInv, SetsEmptied, PreState
  <2> QED
    BY <1>1, <1>3, <2>1, PreUnpackSelects
<1>4. CASE UnpackSelectPackage
  BY <1>1, <1>4, UnpackSelects
<1>5. CASE PostUnpackPackage
  BY <1>1, <1>5, PostUnpacks
<1>6. SetsPolls => \/ PreUnpackSelectPackage \/ UnpackSelectPackage \/ PostUnpackPackage
                   \/ /\ ToBeUnpacked' \subseteq ToBeUnpacked
                      /\ ToBeRemoved' \subseteq ToBeRemoved
                      /\ existingModulePackages' \subseteq existingModulePackages
  BY DEF SetsPolls, PreUnpackCheckFile, PreRemoveSelectPackage, PreRemoveDone, ThrowPre, UnpackFile,
         ReplaceFile,
         RemoveFile, PostRemoveFile, PostRemovePackage, PostUnpackDone, UpdateExistingModules,
         UnwindReplaceFile,
         UnwindUnpackFile, UnwindUnpackPackage, UnwindPreRemovePackage,
         UnwindPreUnpackPackage, UnwindPreUnpackDone, packageVars
<1> QED
  BY <1>1, <1>2, <1>3, <1>4, <1>5, <1>6, StillPolls

LEMMA PollStates ==
  Poll => state \notin EndState /\ state' # "idle" /\ (state' \in PreState => state \in PreState)
<1> SUFFICES ASSUME Poll
            
             PROVE   state \notin EndState /\ state' # "idle" /\ (state' \in PreState => state \in PreState)
  OBVIOUS
<1>1. CASE SetsStill
  BY <1>1 DEF SetsStill, Advances, PreState, EndState
<1>2. CASE PreUnpackSelectPackage \/ UnpackSelectPackage \/ PostUnpackPackage
  BY <1>2, PreUnpackSelects, UnpackSelects, PostUnpacks,ExceptionValues
     DEF PreUnpackSelectPackage, PreState, ThrowPre, Throw, EndState
<1>3. CASE SetsPolls /\ ~(PreUnpackSelectPackage \/ UnpackSelectPackage \/ PostUnpackPackage)
  BY <1>3, ExceptionValues
     DEF SetsPolls, PreUnpackCheckFile, PreRemoveSelectPackage, PreRemoveDone,
         UnpackFile, ReplaceFile, ReplaceFileFails, RemoveFile, PostRemoveFile,
         PostRemovePackage, PostUnpackDone, UnwindReplaceFile, RestoreFileFails,
         UnwindUnpackFile, UnwindUnpackPackage, UnwindPreRemovePackage, UnwindPreUnpackPackage,
         UnwindPreUnpackDone, Throw, ThrowPre, PreState, UnwindState, EndState
<1> QED
  BY <1>1, <1>2, <1>3, StillPolls

InstalledFiles(st, p) == IF st[p].state = installed THEN Contents[p][st[p].version] ELSE {}

\* In the first session the manifests are those of a consistent system, but for
\* packages with just a module.
FirstInv ==
  /\ sessions <= 1 => prevstat \in Initial
  /\ sessions >= 1 => selstat \in Selections
  /\ sessions = 0 => /\ state = "idle" /\ disk \in Initial
                     /\ \A p \in Package : ReadManifest(p) \subseteq InstalledFiles(disk, p)
  /\ sessions = 1 /\ state \in PreState =>
       \A p \in Package : ModuleFile[p] = NoFile => ReadManifest(p) \subseteq InstalledFiles(prevstat, p)

LEMMA FirstPoll == TypeInv /\ FirstInv /\ Poll => FirstInv'
<1> SUFFICES ASSUME TypeInv, FirstInv, Poll PROVE FirstInv'
  OBVIOUS
<1>1. UNCHANGED <<sessions, selstat, prevstat>> /\ state \notin EndState /\ (state' \in PreState => state \in PreState)
  BY PollConstants, PollStates
<1>2. ASSUME state \in PreState, NEW p \in Package, ModuleFile[p] = NoFile
      PROVE  mfDst'[p] = mfDst[p] /\ mfBak'[p] = mfBak[p]
  <2>1. CASE SetsStill
    BY <2>1 DEF SetsStill, mfVars
  <2>2. CASE PreUnpackSelectPackage
    <3>1. UNCHANGED mfBak
      BY <2>2 DEF PreUnpackSelectPackage
    <3>2. PICK q \in packagesToUnpack :
            \/ UNCHANGED mfDst
            \/ ModuleOnSystem(q, selstat[q].version)
               /\ mfDst' = [mfDst EXCEPT ![q] = Contents[q][selstat[q].version]]
      BY <2>2 DEF PreUnpackSelectPackage, UseModule, ReplaceModule, UnpackAsUsual
    <3> QED
      BY <1>2, <3>1, <3>2 DEF ModuleOnSystem, TypeInv, TypeOK
  <2>3. CASE SetsPolls /\ ~PreUnpackSelectPackage
    BY <1>2, <2>3 DEF SetsPolls, PreUnpackCheckFile, PreRemoveSelectPackage, PreRemoveDone,
         UnpackFile, UnpackSelectPackage, ReplaceFile, RemoveFile, PostRemoveFile,
         PostRemovePackage, PostUnpackPackage, PostUnpackDone, UnwindReplaceFile,
         UnwindUnpackFile, UnwindUnpackPackage, UnwindPreRemovePackage, UnwindPreUnpackPackage,
         UnwindPreUnpackDone, PreState, mfVars
  <2> QED
    BY <2>1, <2>2, <2>3, StillPolls
<1> QED
  BY <1>1, <1>2 DEF FirstInv, ReadManifest, EndState

\* Which sets of files may have any in which states.
FilesOfState ==
  /\ filesToUnpack # {} => state \notin {"pre_remove", "run_pre_install_triggers", "replace", "remove", "copy_post_remove",
                                         "run_pre_remove_triggers", "remove_files_replaced_by_dirs"} \cup FinalState
  /\ filesBeingUnpacked # {} => state \notin PreState \cup FinalState \cup {"copy_post_remove", "run_pre_remove_triggers",
                                  "remove_files_replaced_by_dirs", "remove"}
  /\ state \in FinalState => filesToRemove = {}
  /\ state = "unpack" /\ filesToUnpack # {} =>
       /\ pkgname \in packagesBeingUnpacked
       /\ filesToUnpack \subseteq Contents[pkgname][selstat[pkgname].version]
  /\ committed => state \notin PreState \cup ForwardState
  /\ committed /\ state \in UnwindState => "mkdir" \in failed

LEMMA FilesOfStatePoll == TypeInv /\ RecoverInv /\ FilesOfState /\ Poll => FilesOfState'
<1> SUFFICES ASSUME TypeInv, RecoverInv, FilesOfState, Poll PROVE FilesOfState'
  OBVIOUS
<1>1. UNCHANGED selstat /\ failed \subseteq failed'
  BY PollConstants
<1> USE <1>1, ExceptionValues DEF FilesOfState, PreState, ForwardState, FinalState, UnwindState
<1>2. CASE SetsStill
  <2>1. UNCHANGED <<pkgname, filesToUnpack, filesBeingUnpacked, filesToRemove, packagesBeingUnpacked>>
    BY <1>2 DEF SetsStill, unpackVars, removeVars, packageVars
  <2>2. /\ committed' => state' \notin PreState \cup ForwardState
        /\ committed' /\ state' \in UnwindState => "mkdir" \in failed'
    BY <1>2 DEF SetsStill, Advances, RecoverInv, FinalCommitted
  <2>3. (state' \in FinalState => filesToRemove = {})
    BY <1>2 DEF SetsStill, Advances, EmptiedByMove
  <2>4. /\ filesToUnpack = {} \/ state' \notin {"pre_remove", "run_pre_install_triggers", "replace", "remove", "copy_post_remove",
                                         "run_pre_remove_triggers", "remove_files_replaced_by_dirs"} \cup FinalState
        /\ state' = "unpack" /\ filesToUnpack # {} => state = "unpack"
    BY <1>2 DEF SetsStill, Advances, EmptiedByMove
  <2>5. filesBeingUnpacked # {} => state' \notin PreState \cup FinalState \cup {"copy_post_remove", "run_pre_remove_triggers",
                                  "remove_files_replaced_by_dirs", "remove"}
    BY <1>2 DEF SetsStill, Advances, EmptiedByMove
  <2> QED
    BY <2>1, <2>2, <2>3, <2>4, <2>5
<1>3. CASE PreUnpackCheckFile
  BY <1>3 DEF PreUnpackCheckFile, sessionVars
<1>4. CASE PreUnpackSelectPackage
  <2>1. UNCHANGED <<filesBeingUnpacked, filesToRemove, committed>>
    BY <1>4 DEF PreUnpackSelectPackage, ThrowPre, Throw, fileVars, unpackVars, removeVars, sessionVars
  <2>2. state = "pre_unpack" /\ state' \in {"pre_unpack", "fail"}
    BY <1>4, PreUnpackSelects
  <2> QED
    BY <2>1, <2>2
<1>5. CASE PreRemoveSelectPackage
  BY <1>5 DEF PreRemoveSelectPackage, sessionVars, unpackVars
<1>6. CASE PreRemoveDone
  BY <1>6 DEF PreRemoveDone, ThrowPre, Throw, sessionVars, fileVars, unpackVars, removeVars
<1>7. CASE UnpackFile
  <2>1. UNCHANGED <<pkgname, filesToRemove, committed, packagesBeingUnpacked>> /\ filesToUnpack' \subseteq filesToUnpack
    BY <1>7 DEF UnpackFile, Throw, sessionVars, packageVars, removeVars
  <2>2. state = "unpack" /\ state' \in {"unpack", "unwind_unpack"}
    BY <1>7 DEF UnpackFile, Throw
  <2> QED
    BY <2>1, <2>2
<1>8. CASE UnpackSelectPackage
  <2>1. UNCHANGED <<filesBeingUnpacked, filesToRemove, committed>>
    BY <1>8 DEF UnpackSelectPackage, Throw, removeVars, sessionVars
  <2>2. /\ state = "unpack"
        /\ \/ state' = "unwind_unpack"
           \/ /\ state' = "unpack"
              /\ pkgname' \in packagesBeingUnpacked'
              /\ filesToUnpack' = Contents[pkgname'][selstat[pkgname'].version]
    BY <1>8 DEF UnpackSelectPackage, Throw
  <2> QED
    BY <2>1, <2>2
<1>9. CASE ReplaceFile
  <2>1. UNCHANGED <<pkgname, filesToUnpack, committed, packagesBeingUnpacked>> /\ filesBeingUnpacked' \subseteq filesBeingUnpacked
    BY <1>9 DEF ReplaceFile, Throw, sessionVars, packageVars
  <2>2. state = "replace" /\ state' \in {"replace", "unwind_replace"}
    BY <1>9 DEF ReplaceFile, Throw
  <2> QED
    BY <2>1, <2>2
<1>10. CASE RemoveFile
  BY <1>10 DEF RemoveFile, sessionVars, packageVars, unpackVars
<1>11. CASE PostRemoveFile \/ PostRemovePackage \/ PostUnpackPackage \/ PostUnpackDone
  BY <1>11 DEF PostRemoveFile, PostRemovePackage, PostUnpackPackage, PostUnpackDone, Throw,
               sessionVars, fileVars,
               unpackVars, removeVars
<1>12. CASE UnwindReplaceFile
  BY <1>12 DEF UnwindReplaceFile, RestoreFileFails, Throw, sessionVars
<1>13. CASE UnwindUnpackFile
  BY <1>13 DEF UnwindUnpackFile, sessionVars, removeVars
<1>14. CASE UnwindUnpackPackage
  BY <1>14 DEF UnwindUnpackPackage, RestoreFileFails, Throw, sessionVars, fileVars, unpackVars,
               removeVars
<1>15. CASE UnwindPreRemovePackage \/ UnwindPreUnpackPackage \/ UnwindPreUnpackDone
  BY <1>15 DEF UnwindPreRemovePackage, UnwindPreUnpackPackage, UnwindPreUnpackDone, Throw,
               sessionVars, fileVars,
               unpackVars, removeVars
<1> QED
  BY <1>2, <1>3, <1>4, <1>5, <1>6, <1>7, <1>8, <1>9, <1>10, <1>11, <1>12, <1>13, <1>14, <1>15,
     StillPolls
     DEF SetsPolls

\* A package that is unpacked or better is so in a version that exists, and until the
\* end of a session in that of before.
KeptInv ==
  /\ \A p \in Package :
       /\ curstat[p].state >= unpacked => curstat[p].version \in Version
       /\ disk[p].state >= unpacked => disk[p].version \in Version
       /\ prevstat[p].state >= unpacked => prevstat[p].version \in Version
  /\ state \in PreState \cup UnwindState =>
       \A p \in Package : curstat[p].state >= unpacked => curstat[p] = prevstat[p]
  /\ state \in MidState => \A p \in Package : disk[p].state >= unpacked => disk[p] = prevstat[p]

\* The statuses that a poll makes.
LEMMA StatusPolls ==
  TypeInv /\ SessionInv /\ UnpackedInv /\ Poll =>
    /\ disk' = disk \/ disk' = curstat'
    /\ \/ curstat' = disk
       \/ \A p \in Package :
            \/ curstat'[p] = curstat[p]
            \/ curstat'[p].state \in {removed, half_unpacked}
            \/ state \in UnwindState /\ curstat'[p] = prevstat[p]
            \/ state \in FinalState /\ state' \in FinalState \cup {"done"} /\ curstat'[p].version \in Version
<1> SUFFICES ASSUME TypeInv, SessionInv, UnpackedInv, Poll
             PROVE  /\ disk' = disk \/ disk' = curstat'
                    /\ \/ curstat' = disk
                       \/ \A p \in Package :
                            \/ curstat'[p] = curstat[p]
                            \/ curstat'[p].state \in {removed, half_unpacked}
                            \/ state \in UnwindState /\ curstat'[p] = prevstat[p]
                            \/ state \in FinalState /\ state' \in FinalState \cup {"done"} /\ curstat'[p].version \in Version
  OBVIOUS
<1>0. curstat \in [Package -> Status]
  BY DEF TypeInv, TypeOK
<1>1. CASE SetsStill
  BY <1>1 DEF SetsStill
<1>2. CASE PreUnpackSelectPackage
  BY <1>0, <1>2, PreUnpackSelects
<1>3. CASE PreRemoveSelectPackage
  BY <1>0, <1>3 DEF PreRemoveSelectPackage, MarkedForRemoval, Status
<1>4. CASE PreRemoveDone
  BY <1>4 DEF PreRemoveDone, ThrowPre, Throw, CommitStatus
<1>5. CASE UnpackSelectPackage
  BY <1>5, UnpackSelects
<1>6. CASE PreUnpackCheckFile \/ UnpackFile \/ ReplaceFile \/ RemoveFile \/ PostRemoveFile
           \/ UnwindReplaceFile \/ UnwindUnpackFile \/ UnwindUnpackPackage
  BY <1>6 DEF PreUnpackCheckFile, UnpackFile, ReplaceFile, RemoveFile, PostRemoveFile,
              UnwindReplaceFile,
              UnwindUnpackFile, UnwindUnpackPackage, RestoreFileFails, Throw, statVars
<1>7. CASE PostRemovePackage
  BY <1>0, <1>7 DEF PostRemovePackage, Status
<1>8. CASE PostUnpackPackage
  <2>1. CASE curstat' = disk
    BY <1>8, <2>1, PostUnpacks
  <2>2. CASE curstat' # disk
    <3>1. PICK p \in packagesBeingUnpacked :
            UNCHANGED state /\ curstat' = [curstat EXCEPT ![p].state = unpacked]
      BY <1>8, <2>2, PostUnpacks
    <3>2. p \in Package /\ selstat[p].version \in Version /\ selstat[p].state >= unpacked
      BY DEF TypeInv, SelectedInv, SelectedPackages
    <3>3. state = "post_unpack" /\ UNCHANGED disk
      BY <1>8, PostUnpacks
    <3>4. p \notin Served
      BY <3>3 DEF UnpackedInv, ToBeUnpacked, SessionInv, ServedInv, Onward, FinalState
    <3>5. curstat[p].version = selstat[p].version
      BY <3>2, <3>3, <3>4 DEF SessionInv, OnwardInv, Onward, FinalState, AsSelected
    <3>6. curstat'[p].version = curstat[p].version /\ \A q \in Package : q # p => curstat'[q] = curstat[q]
      BY <1>0, <3>1, <3>2 DEF Status
    <3> QED
      BY <3>1, <3>2, <3>3, <3>5, <3>6 DEF FinalState
  <2> QED
    BY <2>1, <2>2
<1>9. CASE PostUnpackDone
  <2>1. state = "post_unpack"
    BY <1>9 DEF PostUnpackDone
  <2>2. \A p \in existingModulePackages : p \in Package /\ moduleVersion[p] \in Version
    BY <2>1 DEF SessionInv, ServedInv, Served, Onward, FinalState, TypeInv, TypeOK
  <2>3. \/ curstat' = disk /\ disk' = disk
        \/ \E moved, updated \in SUBSET existingModulePackages :
             UpdateExistingModules(moved, updated) /\ disk' = curstat' /\ state' = "done"
    BY <1>9 DEF PostUnpackDone, CommitStatus, Throw
  <2> QED
    BY <2>1, <2>2, <2>3 DEF UpdateExistingModules, FinalState
<1>10. CASE UnwindPreRemovePackage
  BY <1>0, <1>10 DEF UnwindPreRemovePackage, Restored, UnwindState
<1>11. CASE UnwindPreUnpackPackage
  BY <1>0, <1>11 DEF UnwindPreUnpackPackage, Status
<1>12. CASE UnwindPreUnpackDone
  BY <1>12 DEF UnwindPreUnpackDone, CommitStatus, Throw
<1> QED
  BY <1>1, <1>2, <1>3, <1>4, <1>5, <1>6, <1>7, <1>8, <1>9, <1>10, <1>11, <1>12, StillPolls DEF SetsPolls

\* The moves from one state to another of the polls that change files or sets of packages.
LEMMA SetsMoves ==
  TypeInv /\ SetsPolls =>
    \/ state' = state /\ disk' = disk
    \/ state \in PreState \cup UnwindState \cup {"post_unpack"} /\ state' = "fail" /\ disk' = disk /\ curstat' = disk
    \/ state = "pre_remove" /\ state' = "copy_post_remove" /\ disk' = curstat' /\ curstat' = curstat
    \/ state = "unpack" /\ state' = "unwind_unpack" /\ disk' = disk /\ curstat' = disk
    \/ state = "replace" /\ state' = "unwind_replace" /\ disk' = disk /\ curstat' = disk
    \/ state = "post_unpack" /\ state' = "done" /\ disk' = curstat'
    \/ state = "unwind_pre_unpack" /\ state' = "fail" /\ disk' = curstat' /\ curstat' = curstat
<1> SUFFICES ASSUME TypeInv, SetsPolls
    PROVE
    \/ state' = state /\ disk' = disk
    \/ state \in PreState \cup UnwindState \cup {"post_unpack"} /\ state' = "fail" /\ disk' = disk /\ curstat' = disk
    \/ state = "pre_remove" /\ state' = "copy_post_remove" /\ disk' = curstat' /\ curstat' = curstat
    \/ state = "unpack" /\ state' = "unwind_unpack" /\ disk' = disk /\ curstat' = disk
    \/ state = "replace" /\ state' = "unwind_replace" /\ disk' = disk /\ curstat' = disk
    \/ state = "post_unpack" /\ state' = "done" /\ disk' = curstat'
    \/ state = "unwind_pre_unpack" /\ state' = "fail" /\ disk' = curstat' /\ curstat' = curstat
  OBVIOUS
<1>0. \A s \in PreState \cup UnwindState \cup {"post_unpack"} : ExceptionState[s] = "fail"
  BY ExceptionValues
<1>1. CASE PreUnpackCheckFile \/ PreRemoveSelectPackage \/ RemoveFile \/ PostRemoveFile \/ PostRemovePackage
           \/ UnwindUnpackFile \/ UnwindPreRemovePackage \/ UnwindPreUnpackPackage
  BY <1>1 DEF PreUnpackCheckFile, PreRemoveSelectPackage, RemoveFile, PostRemoveFile, PostRemovePackage,
              UnwindUnpackFile, UnwindPreRemovePackage, UnwindPreUnpackPackage, statVars
<1>2. CASE PreUnpackSelectPackage
  BY <1>2, PreUnpackSelects DEF PreState
<1>3. CASE UnpackSelectPackage
  BY <1>3, UnpackSelects
<1>4. CASE PostUnpackPackage
  BY <1>4, PostUnpacks
<1>5. CASE PreRemoveDone
  BY <1>0, <1>5 DEF PreRemoveDone, Throw, ThrowPre, CommitStatus, PreState
<1>6. CASE PostUnpackDone
  BY <1>0, <1>6 DEF PostUnpackDone, Throw, CommitStatus
<1>7. CASE UnwindPreUnpackDone
  BY <1>0, <1>7 DEF UnwindPreUnpackDone, Throw, CommitStatus, UnwindState
<1>8. CASE UnpackFile
  BY <1>8, ExceptionValues DEF UnpackFile, Throw, statVars
<1>9. CASE ReplaceFile
  BY <1>9, ExceptionValues DEF ReplaceFile, Throw, statVars
<1>10. CASE UnwindReplaceFile
  BY <1>0, <1>10 DEF UnwindReplaceFile, RestoreFileFails, Throw, statVars, UnwindState
<1>11. CASE UnwindUnpackPackage
  BY <1>0, <1>11 DEF UnwindUnpackPackage, RestoreFileFails, Throw, statVars, UnwindState
<1> QED
  BY <1>1, <1>2, <1>3, <1>4, <1>5, <1>6, <1>7, <1>8, <1>9, <1>10, <1>11 DEF SetsPolls

LEMMA StillMoves ==
  SetsStill =>
    /\ disk' = disk
    /\ \/ state' = state
       \/ <<state, state'>> \in Advances /\ curstat' = curstat
       \/ state = "remove" /\ state' = "post_remove" /\ curstat' = curstat
       \/ state = "create_empty_dirs" /\ state' = "unwind_create_empty_dirs" /\ curstat' = disk
       \/ state = "unwind_remove" /\ state' = "fail" /\ curstat' = disk
  BY DEF SetsStill

LEMMA AdvancesKeep ==
  \A s, t : <<s, t>> \in Advances =>
    /\ t \notin EndState
    /\ t \in PreState => s \in PreState
    /\ t \in ForwardState => s \in ForwardState
    /\ t \in FinalState => s \in FinalState
    /\ t \in UnwindState => s \in ForwardState \cup UnwindState
  BY DEF Advances, EndState, PreState, ForwardState, FinalState, UnwindState

\* Each state belongs to one part of the session.
LEMMA StatesApart ==
  /\ PreState \cap (MidState \cup EndState) = {} /\ MidState \cap EndState = {}
  /\ ForwardState \cap (FinalState \cup UnwindState) = {} /\ FinalState \cap UnwindState = {}
  /\ {"pre_unpack", "pre_remove"} = PreState
  /\ {"copy_post_remove", "unpack", "replace", "remove"} \subseteq ForwardState
  /\ {"post_remove", "create_empty_dirs", "post_unpack"} = FinalState
  /\ {"unwind_unpack", "unwind_replace", "unwind_create_empty_dirs", "unwind_remove", "unwind_pre_unpack"} \subseteq UnwindState
  /\ {"done", "fail"} \subseteq EndState
  BY DEF PreState, MidState, ForwardState, FinalState, UnwindState, EndState

\* When a poll saves the statuses, and what comes after what.
LEMMA StatePolls ==
  TypeInv /\ Poll =>
    /\ \/ disk' = disk
       \/ /\ disk' = curstat'
          /\ \/ state = "pre_remove" /\ state' = "copy_post_remove" /\ curstat' = curstat
             \/ state = "post_unpack" /\ state' = "done"
             \/ state = "unwind_pre_unpack" /\ state' = "fail" /\ curstat' = curstat
    /\ state' \in MidState =>
         (state \in MidState /\ disk' = disk) \/ (state = "pre_remove" /\ state' = "copy_post_remove" /\ disk' = curstat)
    /\ state' \in UnwindState => state \in ForwardState \cup UnwindState \/ curstat' = disk
    /\ state' \in ForwardState => state \in ForwardState \/ (state = "pre_remove" /\ state' = "copy_post_remove")
    /\ state' \in FinalState => state \in FinalState \/ (state = "remove" /\ SetsStill)
<1> SUFFICES ASSUME TypeInv, Poll
    PROVE
    /\ \/ disk' = disk
       \/ /\ disk' = curstat'
          /\ \/ state = "pre_remove" /\ state' = "copy_post_remove" /\ curstat' = curstat
             \/ state = "post_unpack" /\ state' = "done"
             \/ state = "unwind_pre_unpack" /\ state' = "fail" /\ curstat' = curstat
    /\ state' \in MidState =>
         (state \in MidState /\ disk' = disk) \/ (state = "pre_remove" /\ state' = "copy_post_remove" /\ disk' = curstat)
    /\ state' \in UnwindState => state \in ForwardState \cup UnwindState \/ curstat' = disk
    /\ state' \in ForwardState => state \in ForwardState \/ (state = "pre_remove" /\ state' = "copy_post_remove")
    /\ state' \in FinalState => state \in FinalState \/ (state = "remove" /\ SetsStill)
  OBVIOUS
<1>1. MidState = ForwardState \cup FinalState \cup UnwindState
  BY DEF MidState
<1>2. CASE SetsStill
  <2>1. disk' = disk
    BY <1>2, StillMoves
  <2>2. \/ state' = state \/ state' \in EndState \/ <<state, state'>> \in Advances
        \/ state = "remove" /\ state' = "post_remove"
        \/ state = "create_empty_dirs" /\ state' = "unwind_create_empty_dirs" /\ curstat' = disk
    BY <1>2, StillMoves, StatesApart
  <2>3. state' \in ForwardState => state \in ForwardState
    BY <1>1, <2>2, AdvancesKeep, StatesApart
  <2>4. state' \in FinalState => state \in FinalState \/ state = "remove"
    BY <1>1, <2>2, AdvancesKeep, StatesApart
  <2>5. state' \in UnwindState => state \in ForwardState \cup UnwindState \/ (state = "create_empty_dirs" /\ curstat' = disk)
    BY <1>1, <2>2, AdvancesKeep, StatesApart
  <2>6. state' \in MidState => state \in MidState
    BY <1>1, <2>3, <2>4, <2>5, StatesApart
  <2> QED
    BY <1>2, <2>1, <2>3, <2>4, <2>5, <2>6
<1>3. CASE SetsPolls
  <2>1. \/ disk' = disk
        \/ /\ disk' = curstat'
           /\ \/ state = "pre_remove" /\ state' = "copy_post_remove" /\ curstat' = curstat
              \/ state = "post_unpack" /\ state' = "done"
              \/ state = "unwind_pre_unpack" /\ state' = "fail" /\ curstat' = curstat
    BY <1>3, SetsMoves
  <2>2. \/ state' = state /\ disk' = disk
        \/ state' \in EndState
        \/ state = "pre_remove" /\ state' = "copy_post_remove" /\ disk' = curstat
        \/ /\ state \in {"unpack", "replace"} /\ state' \in {"unwind_unpack", "unwind_replace"}
           /\ disk' = disk /\ curstat' = disk
    BY <1>3, SetsMoves, StatesApart
  <2>3. state' \in ForwardState => state \in ForwardState \/ (state = "pre_remove" /\ state' = "copy_post_remove")
    BY <1>1, <2>2, StatesApart
  <2>4. state' \in FinalState => state \in FinalState
    BY <1>1, <2>2, StatesApart
  <2>5. state' \in UnwindState => state \in ForwardState \cup UnwindState
    BY <1>1, <2>2, StatesApart
  <2>6. state' \in MidState =>
          (state \in MidState /\ disk' = disk) \/ (state = "pre_remove" /\ state' = "copy_post_remove" /\ disk' = curstat)
    BY <1>1, <2>2, StatesApart
  <2> QED
    BY <2>1, <2>3, <2>4, <2>5, <2>6
<1> QED
  BY <1>2, <1>3, StillPolls

LEMMA KeptPoll == TypeInv /\ SessionInv /\ UnpackedInv /\ KeptInv /\ Poll => KeptInv'
<1> SUFFICES ASSUME TypeInv, SessionInv, UnpackedInv, KeptInv, Poll PROVE KeptInv'
  OBVIOUS
<1>1. UNCHANGED prevstat
  BY PollConstants
<1>2. \/ curstat' = disk
      \/ \A p \in Package :
           \/ curstat'[p] = curstat[p]
           \/ curstat'[p].state \in {removed, half_unpacked}
           \/ state \in UnwindState /\ curstat'[p] = prevstat[p]
           \/ state \in FinalState /\ state' \in FinalState \cup {"done"} /\ curstat'[p].version \in Version
  BY StatusPolls
<1>3. \A s \in {removed, half_unpacked} : ~(s >= unpacked)
  BY DEF removed, half_unpacked, unpacked
<1>4. \A p \in Package :
        /\ curstat'[p].state >= unpacked => curstat'[p].version \in Version
        /\ disk'[p].state >= unpacked => disk'[p].version \in Version
  <2>1. \A p \in Package : curstat'[p].state >= unpacked => curstat'[p].version \in Version
    BY <1>2, <1>3 DEF KeptInv
  <2> QED
    BY <2>1, StatePolls DEF KeptInv
<1>5. ASSUME state' \in PreState \cup UnwindState, NEW p \in Package, curstat'[p].state >= unpacked
      PROVE  curstat'[p] = prevstat[p]
  <2>1. CASE state' \in PreState
    <3>1. state \in PreState
      BY <2>1, PollStates
    <3>2. disk = prevstat
      BY <3>1 DEF SessionInv, Saved
    <3> QED
      BY <1>2, <1>3, <1>5, <3>1, <3>2 DEF KeptInv, PreState, UnwindState, FinalState
  <2>2. CASE state' \in UnwindState
    <3>1. state \in ForwardState \cup UnwindState \/ curstat' = disk
      BY <2>2, StatePolls
    <3>2. state \in MidState
      BY <2>2, StatePolls DEF UnwindState, MidState
    <3>3. state \in ForwardState => curstat = disk
      BY DEF SessionInv, Saved, UnwoundStatus, MidState, ForwardState, FinalState
    <3>4. disk[p].state >= unpacked => disk[p] = prevstat[p]
      BY <3>2 DEF KeptInv
    <3>5. state' \notin FinalState \cup {"done"}
      BY <2>2 DEF UnwindState, FinalState
    <3> QED
      BY <1>2, <1>3, <1>5, <3>1, <3>3, <3>4, <3>5 DEF KeptInv
  <2> QED
    BY <1>5, <2>1, <2>2
<1>6. ASSUME state' \in MidState, NEW p \in Package, disk'[p].state >= unpacked
      PROVE  disk'[p] = prevstat[p]
  BY <1>6, StatePolls DEF KeptInv, MidState, ForwardState, FinalState, UnwindState, PreState
<1> QED
  BY <1>1, <1>4, <1>5, <1>6 DEF KeptInv

-------------------------------------------------------------------------------
(* What the packages hold.  *)

\* The system holds the files of a package version: of one with just a module, the module.
Claimed(p, v) == IF ModuleFile[p] \in Contents[p][v] THEN {ModuleFile[p]} ELSE FilesOf(p, v)
Intact(files, p, v) ==
  IF ModuleFile[p] \in Contents[p][v]
  THEN files[ModuleFile[p]] # NoFile /\ files[ModuleFile[p]].version = v
  ELSE \A f \in FilesOf(p, v) : files[f] = [owner |-> p, version |-> v]

LEMMA ClaimedFiles ==
  ASSUME NEW p \in Package, NEW v \in Version
  PROVE  Claimed(p, v) \subseteq FilesOf(p, v) /\ FilesOf(p, v) \subseteq PackageFile
<1>1. FilesOf(p, v) \subseteq PackageFile
  BY ControlApartFromContents DEF FilesOf, PackageFile
<1>2. ASSUME ModuleFile[p] \in Contents[p][v] PROVE ModuleFile[p] \in File
  <2>1. ModuleFile[p] \in File \cup Dir
    BY <1>2, ContentsType
  <2>2. ModuleFile[p] \in File \cup {NoFile} /\ NoFile \notin File \cup Dir
    BY UnpackAssumption
  <2> QED
    BY <2>1, <2>2
<1> QED
  BY <1>1, <1>2 DEF Claimed, FilesOf

LEMMA IntactKept ==
  ASSUME NEW p, NEW v, NEW old, NEW new, Intact(old, p, v), \A f \in Claimed(p, v) : new[f] = old[f]
  PROVE  Intact(new, p, v)
  BY DEF Intact, Claimed

LEMMA IntactPresent ==
  ASSUME NEW p \in Package, NEW v \in Version, NEW files, Intact(files, p, v)
  PROVE  \A f \in Claimed(p, v) : files[f] # NoFile
<1>1. [owner |-> p, version |-> v] # NoFile
  BY NewFile, UnpackAssumption
<1> QED
  BY <1>1 DEF Intact, Claimed

LEMMA PlacedIntact ==
  ASSUME NEW p \in Package, NEW v \in Version, NEW files,
         \A f \in FilesOf(p, v) : files[f] = [owner |-> p, version |-> v]
  PROVE  Intact(files, p, v)
<1>1. [owner |-> p, version |-> v] # NoFile
  BY NewFile, UnpackAssumption
<1>2. CASE ModuleFile[p] \in Contents[p][v]
  <2>1. ModuleFile[p] \in FilesOf(p, v)
    BY <1>2, ClaimedFiles DEF Claimed
  <2> QED
    BY <1>1, <1>2, <2>1 DEF Intact
<1>3. CASE ModuleFile[p] \notin Contents[p][v]
  BY <1>3 DEF Intact
<1> QED
  BY <1>2, <1>3

\* The theorem is about systems whose packages have no files in common, and about the first
\* session on those whose packages may have, at different times.
Guarded == Apart \/ sessions <= 1
Whole == failed \cap {"replace", "mkdir"} = {}

LEMMA GuardedBefore == TypeInv /\ Poll /\ Guarded' /\ Whole' => Guarded /\ Whole
<1> SUFFICES ASSUME TypeInv, Poll, Guarded', Whole' PROVE Guarded /\ Whole
  OBVIOUS
<1>1. sessions' = sessions /\ failed \subseteq failed'
  BY PollConstants
<1> QED
  BY <1>1 DEF Guarded, Whole

\* No two packages that are to be unpacked at once have a file in common.
LEMMA UnpackedApart ==
  ASSUME Consistent, Guarded, TypeInv, FirstInv, UnpackedInv,
         NEW p \in ToBeUnpacked, NEW q \in ToBeUnpacked, p # q
  PROVE  FilesOf(p, selstat[p].version) \cap FilesOf(q, selstat[q].version) = {}
<1>1. p \in Package /\ q \in Package /\ selstat[p].version \in Version /\ selstat[q].version \in Version
  BY DEF ToBeUnpacked, TypeInv, SelectedInv, SelectedPackages
<1>2. CASE Apart
  BY <1>1, <1>2 DEF Apart
<1>3. CASE sessions <= 1
  <2>1. prevstat \in Initial /\ selstat \in Selections
    BY <1>3 DEF FirstInv, UnpackedInv
  <2>2. UnpackReq(prevstat[p], selstat[p]) /\ UnpackReq(prevstat[q], selstat[q])
    BY DEF UnpackedInv
  <2> QED
    BY <1>1, <2>1, <2>2 DEF Consistent, SelectionsConsistent
<1> QED
  BY <1>2, <1>3 DEF Guarded

\* What pre_remove reads in a manifest is of no other package that is on the system.
LEMMA ManifestsApart ==
  ASSUME Consistent, Guarded, TypeInv, ManifestsOwn, FirstInv, KeptInv, state \in PreState,
         NEW p \in Package, NEW q \in Package, p # q, prevstat[p].state >= unpacked
  PROVE  FilesOf(p, prevstat[p].version) \cap ReadManifest(q) = {}
<1>1. prevstat[p].version \in Version
  BY DEF KeptInv
<1>2. ReadManifest(q) \subseteq AllContents(q)
  BY DEF ManifestsOwn, ReadManifest
<1>3. ASSUME \A w \in Version : FilesOf(p, prevstat[p].version) \cap FilesOf(q, w) = {}
      PROVE  FilesOf(p, prevstat[p].version) \cap ReadManifest(q) = {}
  BY <1>2, <1>3 DEF AllContents, FilesOf
<1>4. CASE Apart
  BY <1>1, <1>3, <1>4 DEF Apart
<1>5. CASE ModuleFile[q] # NoFile
  BY <1>1, <1>3, <1>5 DEF Consistent, ModulesOwn
<1>6. CASE sessions <= 1 /\ ModuleFile[q] = NoFile
  <2>1. prevstat \in Initial /\ ReadManifest(q) \subseteq InstalledFiles(prevstat, q)
    <3>1. sessions \in Nat /\ sessions # 0
      BY DEF TypeInv, TypeOK, FirstInv, PreState
    <3>2. sessions = 1
      BY <1>6, <3>1
    <3> QED
      BY <1>6, <3>2 DEF FirstInv
  <2>2. CASE prevstat[q].state = installed
    <3>1. prevstat[p].state = installed
      <4>1. prevstat[p].state \in {not_present, removed, installed}
        <5>1. prevstat \in [Package -> [state : {not_present, removed}, version : Version \cup {0}]
                                   \cup [state : {installed}, version : Version]]
          BY <2>1, UnpackAssumption
        <5> QED
          BY <5>1
      <4> QED
        BY <4>1 DEF not_present, removed, unpacked
    <3>2. FilesOf(p, prevstat[p].version) \cap FilesOf(q, prevstat[q].version) = {}
      BY <2>1, <2>2, <3>1 DEF Consistent, SystemsConsistent
    <3> QED
      BY <2>1, <2>2, <3>2 DEF InstalledFiles, FilesOf
  <2>3. CASE prevstat[q].state # installed
    BY <2>1, <2>3 DEF InstalledFiles
  <2> QED
    BY <2>2, <2>3
<1> QED
  BY <1>4, <1>5, <1>6 DEF Guarded

-------------------------------------------------------------------------------
(* What a session may touch once it has begun to change the disc. *)

\* The files that the sets have, and those of the packages that are unpacked.
FilesInSets == filesToUnpack \cup filesBeingUnpacked \cup filesUnpacked \cup filesToRemove \cup filesBeingRemoved
NewFiles == UNION {Contents[p][selstat[p].version] : p \in packagesPreUnpacked \cup packagesBeingUnpacked}
Touched == FilesInSets \cup NewFiles

LEMMA ControlNotPackageFile == \A p \in Package : ControlFile[p] \notin PackageFile
  BY DEF PackageFile

\* A file that is neither in a set nor in a package that is unpacked stays so and as it is.
LEMMA TouchedPoll ==
  TypeInv /\ Poll /\ state \in MidState =>
    /\ Touched' \subseteq Touched
    /\ \A f \in PackageFile \ Touched : dst'[f] = dst[f]
    /\ existingModulePackages' \subseteq existingModulePackages
<1> SUFFICES ASSUME TypeInv, Poll, state \in MidState
             PROVE  /\ Touched' \subseteq Touched
                    /\ \A f \in PackageFile \ Touched : dst'[f] = dst[f]
                    /\ existingModulePackages' \subseteq existingModulePackages
  OBVIOUS
<1>1. UNCHANGED selstat
  BY PollConstants
<1>2. /\ packagesPreUnpacked \subseteq Package /\ packagesBeingUnpacked \subseteq Package
      /\ filesToUnpack \subseteq File \cup Dir /\ dst \in SomeFile
  BY DEF TypeInv, TypeOK
<1>3. ASSUME packagesPreUnpacked' \cup packagesBeingUnpacked' \subseteq packagesPreUnpacked \cup packagesBeingUnpacked
      PROVE  NewFiles' \subseteq NewFiles
  BY <1>1, <1>3 DEF NewFiles
<1>4. ASSUME NEW f \in File, NEW overwrite
      PROVE  BackUp(f, overwrite).dst \in {dst, [dst EXCEPT ![f] = NoFile]}
  BY DEF BackUp
<1>5. ASSUME NEW p \in Package, UNCHANGED dst \/ \E x : dst' = [dst EXCEPT ![ControlFile[p]] = x]
      PROVE  \A f \in PackageFile : dst'[f] = dst[f]
  BY <1>2, <1>5, ControlNotPackageFile DEF SomeFile, PackageFile
<1>6. ASSUME NEW f \in Touched, UNCHANGED dst \/ \E x : dst' = [dst EXCEPT ![f] = x]
      PROVE  \A g \in PackageFile \ Touched : dst'[g] = dst[g]
  BY <1>2, <1>6 DEF SomeFile, PackageFile
<1>7. MidState \cap PreState = {}
  BY StatesApart
<1>8. CASE SetsStill
  <2>1. UNCHANGED <<dst, filesToUnpack, filesBeingUnpacked, filesUnpacked, filesToRemove, filesBeingRemoved,
                    packagesPreUnpacked, packagesBeingUnpacked, existingModulePackages>>
    BY <1>8 DEF SetsStill, packageVars, unpackVars, removeVars
  <2> QED
    BY <1>3, <2>1 DEF Touched, FilesInSets
<1>9. CASE PreUnpackCheckFile \/ PreUnpackSelectPackage \/ PreRemoveSelectPackage \/ PreRemoveDone
  BY <1>7, <1>9 DEF PreUnpackCheckFile, PreUnpackSelectPackage, PreRemoveSelectPackage, PreRemoveDone,
                    PreState
<1>10. CASE UnpackFile
  <2>1. UNCHANGED <<dst, filesUnpacked, filesToRemove, filesBeingRemoved,
                    packagesPreUnpacked, packagesBeingUnpacked, existingModulePackages>>
    BY <1>10 DEF UnpackFile, packageVars, removeVars
  <2>2. filesToUnpack' \cup filesBeingUnpacked' \subseteq filesToUnpack \cup filesBeingUnpacked
    BY <1>10 DEF UnpackFile
  <2> QED
    BY <1>3, <2>1, <2>2 DEF Touched, FilesInSets
<1>11. CASE UnpackSelectPackage
  <2>1. PICK p \in packagesPreUnpacked :
          /\ \/ UNCHANGED dst \/ \E x : dst' = [dst EXCEPT ![ControlFile[p]] = x]
             \/ \E o, k : ReplaceFileFails(ControlFile[p], o, k)
          /\ filesToUnpack' = filesToUnpack \/ filesToUnpack' = Contents[p][selstat[p].version]
    BY <1>11 DEF UnpackSelectPackage
  <2>2. UNCHANGED <<filesBeingUnpacked, filesUnpacked, filesToRemove, filesBeingRemoved, existingModulePackages>>
    BY <1>11 DEF UnpackSelectPackage, removeVars
  <2>3. packagesPreUnpacked' \cup packagesBeingUnpacked' \subseteq packagesPreUnpacked \cup packagesBeingUnpacked
    BY <1>11, UnpackSelects
  <2>4. p \in Package /\ ControlFile[p] \in File
    BY <1>2, ControlFileType
  <2>5. UNCHANGED dst \/ \E x : dst' = [dst EXCEPT ![ControlFile[p]] = x]
    <3>1. ASSUME NEW o, NEW k, ReplaceFileFails(ControlFile[p], o, k)
          PROVE  UNCHANGED dst \/ \E x : dst' = [dst EXCEPT ![ControlFile[p]] = x]
      <4>1. \/ dst' = BackUp(ControlFile[p], o).dst \/ dst' = BackUp(ControlFile[p], FALSE).dst
            \/ dst' = dst
        BY <3>1, ReplaceFailsOutcome, Zenon
      <4>2. /\ BackUp(ControlFile[p], o).dst \in {dst, [dst EXCEPT ![ControlFile[p]] = NoFile]}
            /\ BackUp(ControlFile[p], FALSE).dst \in {dst, [dst EXCEPT ![ControlFile[p]] = NoFile]}
        BY <1>4, <2>4
      <4> QED
        BY <4>1, <4>2
    <3> QED
      BY <2>1, <3>1
  <2>6. Contents[p][selstat[p].version] \subseteq NewFiles
    BY DEF NewFiles
  <2> QED
    BY <1>3, <1>5, <2>1, <2>2, <2>3, <2>4, <2>5, <2>6 DEF Touched, FilesInSets
<1>12. CASE ReplaceFile
  <2>1. PICK f \in filesBeingUnpacked :
          \/ UNCHANGED dst \/ \E x : dst' = [dst EXCEPT ![f] = x]
          \/ \E o, k : ReplaceFileFails(f, o, k)
    BY <1>12 DEF ReplaceFile
  <2>2. UNCHANGED <<filesToUnpack, packagesPreUnpacked, packagesBeingUnpacked, existingModulePackages>>
    BY <1>12 DEF ReplaceFile, packageVars
  <2>3. filesBeingUnpacked' \cup filesUnpacked' \cup filesToRemove' \cup filesBeingRemoved'
          \subseteq filesBeingUnpacked \cup filesUnpacked \cup filesToRemove \cup filesBeingRemoved
    BY <1>12 DEF ReplaceFile
  <2>4. f \in File /\ f \in Touched
    BY DEF Touched, FilesInSets, TypeInv, TypeOK
  <2>5. UNCHANGED dst \/ \E x : dst' = [dst EXCEPT ![f] = x]
    BY <1>4, <2>1, <2>4, ReplaceFailsOutcome
  <2>6. \A g \in PackageFile \ Touched : dst'[g] = dst[g]
    BY <1>6, <2>4, <2>5
  <2> QED
    BY <1>3, <2>2, <2>3, <2>6 DEF Touched, FilesInSets
<1>13. CASE RemoveFile
  <2>1. PICK f \in filesToRemove : UNCHANGED dst \/ \E x : dst' = [dst EXCEPT ![f] = x]
    BY <1>13 DEF RemoveFile
  <2>2. UNCHANGED <<filesToUnpack, filesBeingUnpacked, filesUnpacked, packagesPreUnpacked, packagesBeingUnpacked,
                    existingModulePackages>>
    BY <1>13 DEF RemoveFile, packageVars, unpackVars
  <2>3. filesToRemove' \cup filesBeingRemoved' \subseteq filesToRemove \cup filesBeingRemoved
    BY <1>13 DEF RemoveFile
  <2>4. f \in Touched
    BY DEF Touched, FilesInSets
  <2>6. \A g \in PackageFile \ Touched : dst'[g] = dst[g]
    BY <1>6, <2>4, <2>1
  <2> QED
    BY <1>3, <2>2, <2>3, <2>6 DEF Touched, FilesInSets
<1>14. CASE UnwindReplaceFile
  <2>1. PICK f \in filesUnpacked : UNCHANGED dst \/ \E x : dst' = [dst EXCEPT ![f] = x]
    BY <1>14 DEF UnwindReplaceFile, RestoreFile, RestoreFileFails
  <2>2. UNCHANGED <<filesToUnpack, filesBeingUnpacked, filesToRemove, packagesPreUnpacked, packagesBeingUnpacked,
                    existingModulePackages>>
    BY <1>14 DEF UnwindReplaceFile, packageVars
  <2>3. filesUnpacked' \subseteq filesUnpacked /\ filesBeingRemoved' \subseteq filesBeingRemoved
    BY <1>14 DEF UnwindReplaceFile
  <2>4. f \in Touched
    BY DEF Touched, FilesInSets
  <2>6. \A g \in PackageFile \ Touched : dst'[g] = dst[g]
    BY <1>6, <2>4, <2>1
  <2> QED
    BY <1>3, <2>2, <2>3, <2>6 DEF Touched, FilesInSets
<1>15. CASE PostRemovePackage \/ UnwindUnpackPackage
  <2>1. PICK p \in Package : UNCHANGED dst \/ \E x : dst' = [dst EXCEPT ![ControlFile[p]] = x]
    <3>1. CASE UnwindUnpackPackage
      BY <3>1 DEF UnwindUnpackPackage, RestoreFile, RestoreFileFails, TypeInv, TypeOK
    <3>2. CASE PostRemovePackage
      <4>1. ASSUME NEW p \in Package, RemovePackageFiles(p)
            PROVE  \E x : dst' = [dst EXCEPT ![ControlFile[p]] = x]
        BY <4>1, RemovalOutcome
      <4> QED
        BY <3>2, <4>1 DEF PostRemovePackage, TypeInv, TypeOK
    <3> QED
      BY <1>15, <3>1, <3>2
  <2>2. UNCHANGED <<filesToUnpack, filesBeingUnpacked, filesUnpacked, filesToRemove, filesBeingRemoved,
                    existingModulePackages>>
    BY <1>15 DEF PostRemovePackage, UnwindUnpackPackage, fileVars, unpackVars, removeVars
  <2>3. packagesPreUnpacked' \cup packagesBeingUnpacked' \subseteq packagesPreUnpacked \cup packagesBeingUnpacked
    BY <1>15 DEF PostRemovePackage, UnwindUnpackPackage
  <2> QED
    BY <1>3, <1>5, <2>1, <2>2, <2>3 DEF Touched, FilesInSets
<1>16. CASE PostRemoveFile \/ UnwindUnpackFile
  <2>1. /\ UNCHANGED <<dst, filesToUnpack, filesUnpacked, filesToRemove,
                       packagesPreUnpacked, packagesBeingUnpacked, existingModulePackages>>
        /\ filesBeingUnpacked' \subseteq filesBeingUnpacked /\ filesBeingRemoved' \subseteq filesBeingRemoved
    BY <1>16 DEF PostRemoveFile, UnwindUnpackFile, packageVars, unpackVars, removeVars
  <2> QED
    BY <1>3, <2>1 DEF Touched, FilesInSets
<1>17. CASE PostUnpackPackage \/ PostUnpackDone \/ UnwindPreRemovePackage \/ UnwindPreUnpackPackage \/ UnwindPreUnpackDone
  <2>1. UNCHANGED <<dst, filesToUnpack, filesBeingUnpacked, filesUnpacked, filesToRemove, filesBeingRemoved>>
    BY <1>17 DEF PostUnpackPackage, PostUnpackDone, UnwindPreRemovePackage, UnwindPreUnpackPackage,
                 UnwindPreUnpackDone, fsVars, fileVars, unpackVars, removeVars
  <2>2. /\ packagesPreUnpacked' \subseteq packagesPreUnpacked /\ packagesBeingUnpacked' \subseteq packagesBeingUnpacked
        /\ existingModulePackages' \subseteq existingModulePackages
    BY <1>17 DEF PostUnpackPackage, PostUnpackDone, UpdateExistingModules, UnwindPreRemovePackage,
                 UnwindPreUnpackPackage, UnwindPreUnpackDone, packageVars
  <2> QED
    BY <1>3, <2>1, <2>2 DEF Touched, FilesInSets
<1> QED
  BY <1>8, <1>9, <1>10, <1>11, <1>12, <1>13, <1>14, <1>15, <1>16, <1>17, StillPolls DEF SetsPolls

-------------------------------------------------------------------------------
(* Before the disc is changed: what has been checked, and what that decides. *)

LEMMA PrePolls ==
  Poll /\ state \in PreState =>
    /\ SetsStill \/ PreUnpackCheckFile \/ PreUnpackSelectPackage \/ PreRemoveSelectPackage \/ PreRemoveDone
    /\ UNCHANGED dst
<1> SUFFICES ASSUME Poll, state \in PreState
            
             PROVE   /\ SetsStill \/ PreUnpackCheckFile \/ PreUnpackSelectPackage \/ PreRemoveSelectPackage \/ PreRemoveDone
                    /\ UNCHANGED dst
  OBVIOUS
<1>1. SetsStill \/ PreUnpackCheckFile \/ PreUnpackSelectPackage \/ PreRemoveSelectPackage \/ PreRemoveDone
  BY StillPolls
     DEF SetsPolls, UnpackFile, UnpackSelectPackage, ReplaceFile, RemoveFile, PostRemoveFile,
         PostRemovePackage,
         PostUnpackPackage, PostUnpackDone, UnwindReplaceFile, UnwindUnpackFile, UnwindUnpackPackage,
         UnwindPreRemovePackage, UnwindPreUnpackPackage, UnwindPreUnpackDone, PreState
<1>2. UNCHANGED dst
  BY <1>1 DEF SetsStill, PreUnpackCheckFile, PreUnpackSelectPackage, PreRemoveSelectPackage,
              PreRemoveDone, fsVars
<1> QED
  BY <1>1, <1>2

\* The module that a package is served by is on the system.
ModuleKept ==
  state \in PreState \cup MidState =>
    \A p \in existingModulePackages :
      ModuleFile[p] \in File /\ dst[ModuleFile[p]] # NoFile /\ dst[ModuleFile[p]].version = moduleVersion[p]

LEMMA ModuleKeptPre ==
  TypeInv /\ ModuleKept /\ Poll /\ state \in PreState => ModuleKept'
<1> SUFFICES ASSUME TypeInv, ModuleKept, Poll, state \in PreState PROVE ModuleKept'
  OBVIOUS
<1>1. UNCHANGED dst
  BY PrePolls
<1>2. CASE SetsStill
  BY <1>1, <1>2 DEF SetsStill, packageVars, ModuleKept
<1>3. CASE PreUnpackCheckFile \/ PreRemoveSelectPackage
  BY <1>1, <1>3 DEF PreUnpackCheckFile, PreRemoveSelectPackage, packageVars, ModuleKept
<1>4. CASE PreRemoveDone
  BY <1>1, <1>4 DEF PreRemoveDone, ThrowPre, packageVars, ModuleKept
<1>5. CASE PreUnpackSelectPackage
  <2>1. \/ existingModulePackages' \subseteq existingModulePackages /\ UNCHANGED moduleVersion
        \/ \E p \in packagesToUnpack :
             /\ ModuleOnSystem(p, selstat[p].version)
             /\ existingModulePackages' = existingModulePackages \cup {p}
             /\ moduleVersion' = [moduleVersion EXCEPT ![p] = dst[ModuleFile[p]].version]
    BY <1>5 DEF PreUnpackSelectPackage, ThrowPre, UseModule, ReplaceModule, UnpackAsUsual, FoundVersion
  <2>2. CASE existingModulePackages' \subseteq existingModulePackages /\ UNCHANGED moduleVersion
    BY <1>1, <2>2 DEF ModuleKept
  <2>3. ASSUME NEW p \in packagesToUnpack, ModuleOnSystem(p, selstat[p].version),
               existingModulePackages' = existingModulePackages \cup {p},
               moduleVersion' = [moduleVersion EXCEPT ![p] = dst[ModuleFile[p]].version]
        PROVE  ModuleKept'
    <3>1. p \in Package
      BY DEF TypeInv, TypeOK
    <3>2. ModuleFile[p] \in File /\ dst[ModuleFile[p]] # NoFile
      BY <2>3, <3>1, UnpackAssumption DEF ModuleOnSystem
    <3>3. moduleVersion'[p] = dst[ModuleFile[p]].version /\ \A q \in Package : q # p => moduleVersion'[q] = moduleVersion[q]
      BY <2>3, <3>1 DEF TypeInv, TypeOK
    <3> QED
      BY <1>1, <2>3, <3>1, <3>2, <3>3 DEF ModuleKept, TypeInv, TypeOK
  <2> QED
    BY <2>1, <2>2, <2>3
<1> QED
  BY <1>2, <1>3, <1>4, <1>5, PrePolls

\* Of the files that will be unpacked, those on the disc have been found to conflict, or
\* will be removed, which are of the packages that are removed.
CheckedInv ==
  state \in PreState =>
    /\ \A p \in packagesPreUnpacked : \A f \in FilesOf(p, selstat[p].version) :
         dst[f] = NoFile \/ f \in filesToUnpack \cup filesThatConflict \cup filesToRemove
    /\ \A f \in filesToRemove : \E p \in packagesBeingRemoved : f \in ReadManifest(p)

LEMMA CheckedPoll == Consistent /\ TypeInv /\ SetsInv /\ CheckedInv /\ Poll => CheckedInv'
<1> SUFFICES ASSUME Consistent, TypeInv, SetsInv, CheckedInv, Poll, state' \in PreState
             PROVE  CheckedInv'
  BY DEF CheckedInv
<1>1. UNCHANGED <<dst, selstat>> /\ state \in PreState
  BY PollStates, PollConstants, PrePolls
<1>2. CASE SetsStill
  BY <1>1, <1>2 DEF SetsStill, packageVars, unpackVars, removeVars, mfVars, CheckedInv, ReadManifest
<1>3. CASE PreUnpackCheckFile
  <2>1. File \cap Dir = {}
    BY UnpackAssumption
  <2>2. PICK f \in filesToUnpack :
          /\ filesToUnpack' = filesToUnpack \ {f}
          /\ \/ f \in Dir /\ UNCHANGED filesThatConflict
             \/ dst[f] # NoFile /\ filesThatConflict' = filesThatConflict \cup {f}
             \/ dst[f] = NoFile /\ UNCHANGED filesThatConflict
    BY <1>3 DEF PreUnpackCheckFile
  <2>3. UNCHANGED <<filesToRemove, packagesPreUnpacked, packagesBeingRemoved, mfDst, mfBak>>
    BY <1>3 DEF PreUnpackCheckFile, packageVars, mfVars
  <2>4. ASSUME NEW p \in packagesPreUnpacked, NEW g \in FilesOf(p, selstat[p].version), dst[g] # NoFile
        PROVE  g \in filesToUnpack' \cup filesThatConflict' \cup filesToRemove
    BY <1>1, <2>1, <2>2, <2>4 DEF CheckedInv, FilesOf
  <2> QED
    BY <1>1, <2>3, <2>4 DEF CheckedInv, ReadManifest
<1>4. CASE PreUnpackSelectPackage
  <2>1. state = "pre_unpack" /\ filesToUnpack = {} /\ UNCHANGED <<filesToRemove, packagesBeingRemoved>>
    BY <1>4 DEF PreUnpackSelectPackage, fileVars, removeVars
  <2>2. filesToRemove = {}
    BY <2>1 DEF CheckedInv, PreState, SetsInv, SetsEmptied
  <2>3. PICK p \in packagesToUnpack :
          \/ UseModule(p, selstat[p].version) /\ ModuleOnSystem(p, selstat[p].version)
          \/ /\ packagesPreUnpacked' = packagesPreUnpacked \cup {p} /\ UNCHANGED filesThatConflict
             /\ filesToUnpack' = Contents[p][selstat[p].version]
    <3>1. state' # "fail"
      BY DEF PreState
    <3> QED
      BY <1>4, <2>1, <3>1, ExceptionValues
         DEF PreUnpackSelectPackage, ThrowPre, Throw, PreState, ReplaceModule, UnpackAsUsual
  <2>4. p \in Package /\ p \notin packagesPreUnpacked /\ selstat[p].version \in Version
        /\ packagesPreUnpacked \subseteq SelectedPackages
    BY DEF TypeInv, TypeOK, SelectedInv, SetsInv, SetsEmptied
  <2>5. CASE UseModule(p, selstat[p].version) /\ ModuleOnSystem(p, selstat[p].version)
    <3>1. ModuleFile[p] # NoFile /\ ModuleFile[p] \in FilesOf(p, selstat[p].version)
      BY <2>4, <2>5, UnpackAssumption DEF ModuleOnSystem, FilesOf
    <3>2. \A q \in packagesPreUnpacked : ModuleFile[p] \notin FilesOf(q, selstat[q].version)
      <4> SUFFICES ASSUME NEW q \in packagesPreUnpacked
                   PROVE  ModuleFile[p] \notin FilesOf(q, selstat[q].version)
        OBVIOUS
      <4>1. q \in Package \ {p} /\ selstat[q].version \in Version
        BY <2>4 DEF TypeInv, SelectedInv, SelectedPackages
      <4>2. FilesOf(p, selstat[p].version) \cap FilesOf(q, selstat[q].version) = {}
        BY <2>4, <3>1, <4>1 DEF Consistent, ModulesOwn
      <4> QED
        BY <3>1, <4>2
    <3>3. /\ filesThatConflict' = filesThatConflict \ {ModuleFile[p]}
          /\ UNCHANGED <<filesToUnpack, packagesPreUnpacked>>
      BY <2>5 DEF UseModule
    <3> QED
      BY <1>1, <2>1, <2>2, <3>2, <3>3 DEF CheckedInv
  <2>6. CASE /\ packagesPreUnpacked' = packagesPreUnpacked \cup {p} /\ UNCHANGED filesThatConflict
             /\ filesToUnpack' = Contents[p][selstat[p].version]
    BY <1>1, <2>1, <2>2, <2>6 DEF CheckedInv, FilesOf
  <2> QED
    BY <2>3, <2>5, <2>6
<1>5. CASE PreRemoveSelectPackage
  <2>1. PICK p \in packagesToRemove :
          /\ filesThatConflict' = filesThatConflict \ ReadManifest(p)
          /\ filesToRemove' = filesToRemove \cup FilesToGo(ReadManifest(p))
          /\ packagesBeingRemoved' = packagesBeingRemoved \cup {p}
    BY <1>5 DEF PreRemoveSelectPackage
  <2>2. UNCHANGED <<filesToUnpack, packagesPreUnpacked, mfDst, mfBak>>
    BY <1>5 DEF PreRemoveSelectPackage, unpackVars, mfVars
  <2>3. ASSUME NEW q \in packagesPreUnpacked, NEW f \in FilesOf(q, selstat[q].version)
        PROVE  dst[f] = NoFile \/ f \in filesToUnpack \cup filesThatConflict' \cup filesToRemove'
    BY <1>1, <2>1, <2>3 DEF CheckedInv, FilesToGo, FilesOf
  <2>4. \A f \in filesToRemove' : \E q \in packagesBeingRemoved' : f \in ReadManifest(q)
    BY <1>1, <2>1 DEF CheckedInv, FilesToGo
  <2>5. \A q : ReadManifest(q)' = ReadManifest(q)
    BY <2>2 DEF ReadManifest
  <2> QED
    BY <1>1, <2>2, <2>3, <2>4, <2>5 DEF CheckedInv
<1>6. CASE PreRemoveDone
  BY <1>6, ExceptionValues DEF PreRemoveDone, ThrowPre, Throw, PreState
<1> QED
  BY <1>1, <1>2, <1>3, <1>4, <1>5, <1>6, PrePolls

-------------------------------------------------------------------------------
(* The files of the packages that the status file says are on the system. *)

OnDisk == \A p \in Package : disk[p].state >= unpacked => Intact(dst, p, disk[p].version)

\* A session that has begun to change the disc touches no file of a package that is on
\* record as unpacked or better, and no module that serves as a package.
ClearInv ==
  state \in MidState =>
    /\ \A p \in Package : disk[p].state >= unpacked => Claimed(p, disk[p].version) \cap Touched = {}
    /\ \A p \in existingModulePackages : ModuleFile[p] \notin Touched

\* When it begins to, that is what the checks have shown.
LEMMA ClearBegins ==
  ASSUME Consistent, Guarded, TypeInv, InPlace, ManifestsOwn, SessionInv, HalfUnpackedInMemory,
         UnpackedInv, FirstInv, KeptInv, FilesOfState, CheckedInv, ModuleKept, OnDisk,
         Poll, state = "pre_remove", state' = "copy_post_remove"
  PROVE  ClearInv'
<1>1. PreRemoveDone
  <2>1. ~SetsStill
    BY DEF SetsStill, Advances
  <2> QED
    BY <2>1, PrePolls DEF PreState, PreUnpackCheckFile, PreUnpackSelectPackage, ThrowPre,
                          PreRemoveSelectPackage
<1>2. /\ filesThatConflict = {} /\ disk' = curstat /\ UNCHANGED existingModulePackages
      /\ UNCHANGED <<packagesPreUnpacked, packagesBeingUnpacked, filesToUnpack, filesBeingUnpacked, filesUnpacked,
                     filesToRemove, filesBeingRemoved, selstat>>
  BY <1>1, ExceptionValues
     DEF PreRemoveDone, ThrowPre, Throw, PreState, CommitStatus, fileVars, unpackVars, removeVars,
         sessionVars
<1>3. Touched' = filesToRemove \cup UNION {Contents[p][selstat[p].version] : p \in packagesPreUnpacked}
  <2>1. filesToUnpack = {} /\ filesBeingUnpacked = {}
    BY DEF FilesOfState, PreState
  <2>2. filesUnpacked = {} /\ filesBeingRemoved = {} /\ packagesBeingUnpacked = {}
    BY DEF InPlace, PreState, Changed
  <2> QED
    BY <1>2, <2>1, <2>2 DEF Touched, FilesInSets, NewFiles
<1>4. \A p \in Package : curstat[p].state >= unpacked =>
        /\ curstat[p] = prevstat[p] /\ curstat[p] = disk[p] /\ curstat[p].version \in Version
        /\ p \notin packagesPreUnpacked \cup packagesBeingRemoved
  <2>1. disk = prevstat
    BY DEF SessionInv, Saved, PreState
  <2>2. ~(half_unpacked >= unpacked)
    BY DEF half_unpacked, unpacked
  <2> QED
    BY <2>1, <2>2 DEF KeptInv, PreState, HalfUnpackedInMemory
<1>5. \A q \in packagesPreUnpacked : q \in Package /\ q \in ToBeUnpacked /\ selstat[q].version \in Version
  BY DEF TypeInv, SelectedInv, SelectedPackages, ToBeUnpacked
<1>6. packagesBeingRemoved \subseteq Package /\ packagesBeingRemoved \subseteq ToBeRemoved
  BY DEF TypeInv, TypeOK, ToBeRemoved
<1>7. ASSUME NEW p \in Package, curstat[p].state >= unpacked
      PROVE  Claimed(p, curstat[p].version) \cap Touched' = {}
  <2>1. /\ curstat[p] = prevstat[p] /\ curstat[p] = disk[p] /\ curstat[p].version \in Version
        /\ p \notin packagesPreUnpacked \cup packagesBeingRemoved
    BY <1>4, <1>7
  <2>2. Claimed(p, curstat[p].version) \subseteq FilesOf(p, curstat[p].version)
    BY <2>1, ClaimedFiles
  <2>3. FilesOf(p, curstat[p].version) \cap filesToRemove = {}
    <3> SUFFICES ASSUME NEW f \in filesToRemove PROVE f \notin FilesOf(p, curstat[p].version)
      OBVIOUS
    <3>1. PICK q \in packagesBeingRemoved : f \in ReadManifest(q)
      BY DEF CheckedInv, PreState
    <3>2. FilesOf(p, prevstat[p].version) \cap ReadManifest(q) = {}
      BY <1>6, <1>7, <2>1, ManifestsApart DEF PreState
    <3> QED
      BY <2>1, <3>1, <3>2
  <2>4. ASSUME NEW q \in packagesPreUnpacked
        PROVE  Claimed(p, curstat[p].version) \cap Contents[q][selstat[q].version] = {}
    <3>1. q \in Package /\ q # p /\ selstat[q].version \in Version
      BY <1>5, <2>1
    <3>2. CASE Apart
      <4>1. FilesOf(p, curstat[p].version) \cap FilesOf(q, selstat[q].version) = {}
        BY <2>1, <3>1, <3>2 DEF Apart
      <4> QED
        BY <2>2, <4>1 DEF FilesOf
    <3>3. CASE ~Apart
      <4> SUFFICES ASSUME NEW f \in Claimed(p, curstat[p].version), f \in Contents[q][selstat[q].version]
                   PROVE  FALSE
        OBVIOUS
      <4>1. f \in FilesOf(q, selstat[q].version) /\ f \in FilesOf(p, curstat[p].version)
        BY <2>2 DEF FilesOf
      <4>2. Intact(dst, p, disk[p].version)
        BY <1>7, <2>1 DEF OnDisk
      <4>3. dst[f] # NoFile
        BY <2>1, <4>2, IntactPresent
      <4>4. filesToUnpack = {}
        BY DEF FilesOfState
      <4>5. f \in filesToRemove
        BY <1>2, <4>1, <4>3, <4>4 DEF CheckedInv, PreState
      <4> QED
        BY <2>3, <4>1, <4>5
    <3> QED
      BY <3>2, <3>3
  <2> QED
    BY <1>3, <2>2, <2>3, <2>4
<1>8. ASSUME NEW p \in existingModulePackages PROVE ModuleFile[p] \notin Touched'
  <2>1. p \in Package /\ ModuleFile[p] \in File /\ p \notin packagesPreUnpacked \cup packagesBeingRemoved
    BY DEF TypeInv, TypeOK, ModuleKept, PreState, UnpackedInv, ToBeUnpacked, ToBeRemoved
  <2>2. selstat[p].version \in Version
    BY DEF SessionInv, ServedInv, Onward, PreState, TypeInv, SelectedInv
  <2>3. ModuleFile[p] # NoFile
    BY <2>1, UnpackAssumption
  <2>4. ModuleFile[p] \in FilesOf(p, selstat[p].version)
    BY <2>1, <2>2, <2>3 DEF FilesOf, Consistent, ModulesOwn
  <2>5. \A q \in Package \ {p}, w \in Version : ModuleFile[p] \notin Contents[q][w]
    <3> SUFFICES ASSUME NEW q \in Package \ {p}, NEW w \in Version
                 PROVE  ModuleFile[p] \notin Contents[q][w]
      OBVIOUS
    <3>1. FilesOf(p, selstat[p].version) \cap FilesOf(q, w) = {}
      BY <2>1, <2>2, <2>3 DEF Consistent, ModulesOwn
    <3> QED
      BY <2>1, <2>4, <3>1 DEF FilesOf
  <2>6. ModuleFile[p] \notin filesToRemove
    <3> SUFFICES ASSUME ModuleFile[p] \in filesToRemove PROVE FALSE
      OBVIOUS
    <3>1. PICK q \in packagesBeingRemoved : ModuleFile[p] \in ReadManifest(q)
      BY DEF CheckedInv, PreState
    <3>2. q \in Package \ {p}
      BY <1>6, <2>1
    <3>3. ReadManifest(q) \subseteq AllContents(q)
      BY <3>2 DEF ManifestsOwn, ReadManifest
    <3> QED
      BY <2>5, <3>1, <3>2, <3>3 DEF AllContents
  <2> QED
    BY <1>3, <1>5, <2>1, <2>5, <2>6
<1> QED
  BY <1>2, <1>7, <1>8 DEF ClearInv

LEMMA ClearGoesOn ==
  ASSUME TypeInv, ClearInv, Poll, state \in MidState, state' \in MidState, disk' = disk
  PROVE  ClearInv'
<1>1. Touched' \subseteq Touched /\ existingModulePackages' \subseteq existingModulePackages
  BY TouchedPoll
<1> HIDE DEF Touched
<1> QED
  BY <1>1 DEF ClearInv

\* So the files that are claimed stay as they are.
LEMMA ClearKeeps ==
  ASSUME TypeInv, KeptInv, ClearInv, Poll, state \in MidState, OnDisk
  PROVE  \A p \in Package : disk[p].state >= unpacked => Intact(dst', p, disk[p].version)
<1> SUFFICES ASSUME NEW p \in Package, disk[p].state >= unpacked PROVE Intact(dst', p, disk[p].version)
  OBVIOUS
<1>1. disk[p].version \in Version
  BY DEF KeptInv
<1>2. Claimed(p, disk[p].version) \subseteq PackageFile
  BY <1>1, ClaimedFiles
<1>3. \A f \in Claimed(p, disk[p].version) : dst'[f] = dst[f]
  BY <1>2, TouchedPoll DEF ClearInv
<1>4. Intact(dst, p, disk[p].version)
  BY DEF OnDisk
<1> QED
  BY <1>3, <1>4, IntactKept

\* The module of a package is no control file.
LEMMA ModuleNoControl ==
  ASSUME Consistent, NEW p \in Package, NEW v \in Version, ModuleFile[p] \in File
  PROVE  ModuleFile[p] \in PackageFile
<1>1. ModuleFile[p] # NoFile
  BY UnpackAssumption
<1>2. ModuleFile[p] \in Contents[p][v]
  BY <1>1 DEF Consistent, ModulesOwn
<1> QED
  BY <1>2, ControlApartFromContents DEF PackageFile

LEMMA ModuleKeptPoll ==
  ASSUME Consistent, TypeInv, SessionInv, UnpackedInv, ClearInv, ModuleKept, Poll PROVE ModuleKept'
<1>1. CASE state \in PreState
  BY <1>1, ModuleKeptPre
<1>2. CASE state \in MidState /\ state' \in MidState
  <2>1. UNCHANGED moduleVersion
    <3>1. ~PreUnpackSelectPackage
      BY <1>2, StatesApart DEF PreUnpackSelectPackage
    <3>2. CASE SetsStill
      BY <3>2 DEF SetsStill, packageVars
    <3>3. CASE SetsPolls
      BY <3>1, <3>3
         DEF SetsPolls, PreUnpackCheckFile, PreRemoveSelectPackage, PreRemoveDone, UnpackFile,
             UnpackSelectPackage,
             ReplaceFile, RemoveFile, PostRemoveFile, PostRemovePackage, PostUnpackPackage,
             PostUnpackDone,
             UnwindReplaceFile, UnwindUnpackFile, UnwindUnpackPackage, UnwindPreRemovePackage,
             UnwindPreUnpackPackage, UnwindPreUnpackDone, packageVars
    <3> QED
      BY <3>2, <3>3, StillPolls
  <2>2. existingModulePackages' \subseteq existingModulePackages /\ existingModulePackages \subseteq Package
    BY <1>2, TouchedPoll DEF TypeInv, TypeOK
  <2>3. ASSUME NEW p \in existingModulePackages'
        PROVE  dst'[ModuleFile[p]] = dst[ModuleFile[p]] /\ ModuleFile[p] \in File
    <3>1. ModuleFile[p] \in File /\ ModuleFile[p] \notin Touched
      BY <1>2, <2>2 DEF ModuleKept, ClearInv
    <3>2. selstat[p].version \in Version
      BY <2>2 DEF UnpackedInv, UnpackReq, TypeInv, SelectedInv, SelectedPackages
    <3>3. ModuleFile[p] \in PackageFile
      BY <2>2, <3>1, <3>2, ModuleNoControl
    <3> QED
      BY <1>2, <3>1, <3>3, TouchedPoll
  <2> QED
    BY <1>2, <2>1, <2>2, <2>3 DEF ModuleKept
<1>3. CASE state' \notin PreState \cup MidState
  BY <1>3 DEF ModuleKept
<1>4. state \notin PreState => state' \notin PreState
  BY PollStates
<1>5. state' \in MidState => state \in PreState \cup MidState
  BY StatePolls DEF PreState
<1> QED
  BY <1>1, <1>2, <1>3, <1>4, <1>5

-------------------------------------------------------------------------------
(* Where the files of the packages that are unpacked are. *)

Placed(p, f) ==
  \/ f \in filesToUnpack
  \/ f \in filesBeingUnpacked /\ tmp[f] = [owner |-> p, version |-> selstat[p].version]
  \/ f \in filesUnpacked \ filesToRemove /\ dst[f] = [owner |-> p, version |-> selstat[p].version]

PlacedInv ==
  state \in ForwardState \cup FinalState =>
    \A p \in packagesBeingUnpacked : \A f \in FilesOf(p, selstat[p].version) : Placed(p, f)

LEMMA PlacedFrame ==
  ASSUME TypeInv, UNCHANGED <<selstat, filesToUnpack, filesBeingUnpacked>>,
         packagesBeingUnpacked' \subseteq packagesBeingUnpacked,
         filesUnpacked \ filesToRemove \subseteq filesUnpacked' \ filesToRemove',
         \A f \in PackageFile : (f \in filesBeingUnpacked => tmp'[f] = tmp[f]),
         \A f \in PackageFile : (f \in filesUnpacked \ filesToRemove => dst'[f] = dst[f]),
         state \in ForwardState \cup FinalState, PlacedInv
  PROVE  PlacedInv'
<1> SUFFICES ASSUME NEW p \in packagesBeingUnpacked', NEW f \in FilesOf(p, selstat[p].version)
             PROVE  Placed(p, f)'
  BY DEF PlacedInv, FilesOf
<1>1. p \in packagesBeingUnpacked /\ p \in Package /\ selstat[p].version \in Version
  BY DEF TypeInv, SelectedInv, SelectedPackages
<1>2. f \in PackageFile
  BY <1>1, ClaimedFiles
<1>3. Placed(p, f)
  BY <1>1 DEF PlacedInv
<1> QED
  BY <1>2, <1>3 DEF Placed

LEMMA PlacedPoll ==
  ASSUME Consistent, Guarded, TypeInv, InPlace, SetsInv, UnpackedInv, FirstInv, FilesOfState, PlacedInv, Poll
  PROVE  PlacedInv'
<1> SUFFICES ASSUME state' \in ForwardState \cup FinalState PROVE PlacedInv'
  BY DEF PlacedInv
<1>1. UNCHANGED selstat
  BY PollConstants
<1>2. CASE state \in PreState
  <2>1. state \notin ForwardState \cup FinalState /\ state # "remove"
    BY <1>2, StatesApart DEF MidState
  <2>2. state = "pre_remove" /\ state' = "copy_post_remove"
    BY <2>1, StatePolls
  <2>3. PreRemoveDone
    <3>1. ~SetsStill
      BY <2>2 DEF SetsStill, Advances
    <3> QED
      BY <1>2, <2>2, <3>1, PrePolls DEF PreUnpackCheckFile, PreUnpackSelectPackage,
                                        PreRemoveSelectPackage
  <2>4. packagesBeingUnpacked' = {}
    BY <1>2, <2>3 DEF PreRemoveDone, InPlace
  <2> QED
    BY <2>4 DEF PlacedInv
<1>3. state \in PreState \/ state \in ForwardState \cup FinalState
  BY StatePolls, StatesApart
<1> SUFFICES ASSUME state \in ForwardState \cup FinalState PROVE PlacedInv'
  BY <1>2, <1>3
<1>4. dst \in SomeFile /\ tmp \in SomeFile
  BY DEF TypeInv, TypeOK
<1>5. CASE SetsStill
  <2>1. UNCHANGED <<dst, tmp, filesToUnpack, filesBeingUnpacked, filesUnpacked, filesToRemove, packagesBeingUnpacked>>
    BY <1>5 DEF SetsStill, packageVars, unpackVars, removeVars
  <2> QED
    BY <1>1, <2>1, PlacedFrame
<1>6. CASE UnpackFile
  <2>1. UNCHANGED <<dst, filesUnpacked, filesToRemove, packagesBeingUnpacked>> /\ state = "unpack" /\ state' # "unwind_unpack"
    BY <1>6 DEF UnpackFile, packageVars, removeVars, ForwardState, FinalState
  <2>2. PICK g \in filesToUnpack :
          \/ g \in Dir /\ filesToUnpack' = filesToUnpack \ {g} /\ UNCHANGED <<tmp, filesBeingUnpacked>>
          \/ /\ tmp' = [tmp EXCEPT ![g] = [owner |-> pkgname, version |-> selstat[pkgname].version]]
             /\ filesBeingUnpacked' = filesBeingUnpacked \cup {g} /\ filesToUnpack' = filesToUnpack \ {g}
    BY <1>6, <2>1, ExceptionValues DEF UnpackFile, Throw
  <2>3. pkgname \in packagesBeingUnpacked /\ filesToUnpack \subseteq Contents[pkgname][selstat[pkgname].version]
    BY <2>1 DEF FilesOfState
  <2> SUFFICES ASSUME NEW p \in packagesBeingUnpacked, NEW f \in FilesOf(p, selstat[p].version)
               PROVE  Placed(p, f)'
    BY <1>1, <2>1 DEF PlacedInv, FilesOf
  <2>4. Placed(p, f) /\ f \in File /\ f \notin Dir
    BY UnpackAssumption DEF PlacedInv, FilesOf
  <2>5. CASE f # g
    BY <1>1, <1>4, <2>1, <2>2, <2>4, <2>5 DEF Placed, SomeFile
  <2>6. CASE f = g
    <3>1. p = pkgname
      <4> SUFFICES ASSUME p # pkgname PROVE FALSE
        OBVIOUS
      <4>1. FilesOf(p, selstat[p].version) \cap FilesOf(pkgname, selstat[pkgname].version) = {}
        BY <2>3, UnpackedApart DEF ToBeUnpacked
      <4> QED
        BY <2>3, <2>4, <2>6, <4>1 DEF FilesOf
    <3> QED
      BY <1>1, <1>4, <2>2, <2>4, <2>6, <3>1 DEF Placed, SomeFile
  <2> QED
    BY <2>5, <2>6
<1>7. CASE UnpackSelectPackage
  <2>1. filesToUnpack = {} /\ UNCHANGED <<filesBeingUnpacked, filesUnpacked, filesToRemove>>
    BY <1>7 DEF UnpackSelectPackage, removeVars
  <2>2. state' # "unwind_unpack"
    BY DEF ForwardState, FinalState
  <2>3. PICK p \in packagesPreUnpacked :
          /\ dst' = [dst EXCEPT ![ControlFile[p]] = [owner |-> p, version |-> selstat[p].version]]
          /\ tmp' = [tmp EXCEPT ![ControlFile[p]] = NoFile]
          /\ filesToUnpack' = Contents[p][selstat[p].version]
          /\ packagesBeingUnpacked' = packagesBeingUnpacked \cup {p}
    <3>1. state = "unpack"
      BY <1>7, UnpackSelects
    <3>2. state' # ExceptionState[state]
      BY <2>2, <3>1, ExceptionValues
    <3> QED
      BY <1>7, <3>2 DEF UnpackSelectPackage, Throw
  <2>4. p \in Package /\ ControlFile[p] \in File
    BY ControlFileType DEF TypeInv, TypeOK
  <2>5. \A f \in PackageFile : dst'[f] = dst[f] /\ tmp'[f] = tmp[f]
    BY <1>4, <2>3, <2>4, ControlNotPackageFile DEF SomeFile, PackageFile
  <2> SUFFICES ASSUME NEW q \in packagesBeingUnpacked', NEW f \in FilesOf(q, selstat[q].version)
               PROVE  Placed(q, f)'
    BY <1>1 DEF PlacedInv, FilesOf
  <2>6. CASE q = p
    BY <2>3, <2>6 DEF Placed, FilesOf
  <2>7. CASE q # p
    <3>1. q \in packagesBeingUnpacked
      BY <2>3, <2>7
    <3>2. q \in Package /\ selstat[q].version \in Version
      BY <3>1 DEF TypeInv, SelectedInv, SelectedPackages
    <3>3. f \in PackageFile
      BY <3>2, ClaimedFiles
    <3>4. Placed(q, f)
      BY <3>1 DEF PlacedInv
    <3> QED
      BY <1>1, <2>1, <2>5, <3>3, <3>4 DEF Placed
  <2> QED
    BY <2>6, <2>7
<1>8. CASE ReplaceFile
  <2>1. state = "replace" /\ filesToUnpack = {} /\ UNCHANGED <<filesToUnpack, packagesBeingUnpacked>>
    BY <1>8 DEF ReplaceFile, FilesOfState, packageVars
  <2>2. state' # ExceptionState[state]
    BY <2>1, ExceptionValues DEF ForwardState, FinalState
  <2>3. PICK g \in filesBeingUnpacked :
          /\ dst' = [dst EXCEPT ![g] = tmp[g]]
          /\ tmp' = [tmp EXCEPT ![g] = NoFile]
          /\ filesToRemove' = filesToRemove \ {g}
          /\ filesUnpacked' = filesUnpacked \cup {g}
          /\ filesBeingUnpacked' = filesBeingUnpacked \ {g}
    BY <1>8, <2>2 DEF ReplaceFile, Throw
  <2>4. g \in File /\ g \notin filesUnpacked
    BY <2>1, StatesApart DEF TypeInv, TypeOK, InPlace, Changed
  <2> SUFFICES ASSUME NEW p \in packagesBeingUnpacked, NEW f \in FilesOf(p, selstat[p].version)
               PROVE  Placed(p, f)'
    BY <1>1, <2>1 DEF PlacedInv, FilesOf
  <2>5. Placed(p, f) /\ f \in File
    BY DEF PlacedInv, FilesOf
  <2>6. CASE f = g
    BY <1>1, <1>4, <2>1, <2>3, <2>4, <2>5, <2>6 DEF Placed, SomeFile
  <2>7. CASE f # g
    BY <1>1, <1>4, <2>1, <2>3, <2>4, <2>5, <2>7 DEF Placed, SomeFile
  <2> QED
    BY <2>6, <2>7
<1>9. CASE RemoveFile
  <2>1. UNCHANGED <<tmp, filesToUnpack, filesBeingUnpacked, filesUnpacked, packagesBeingUnpacked>>
    BY <1>9 DEF RemoveFile, packageVars, unpackVars
  <2>2. PICK g \in filesToRemove :
          filesToRemove' = filesToRemove \ {g} /\ (UNCHANGED dst \/ dst' = [dst EXCEPT ![g] = NoFile])
    BY <1>9 DEF RemoveFile
  <2>3. \A f \in PackageFile : (f \in filesUnpacked \ filesToRemove => dst'[f] = dst[f])
    BY <1>4, <2>2 DEF SomeFile, PackageFile
  <2> QED
    BY <1>1, <2>1, <2>2, <2>3, PlacedFrame
<1>10. CASE PostRemovePackage
  <2>1. UNCHANGED <<tmp, filesToUnpack, filesBeingUnpacked, filesUnpacked, filesToRemove, packagesBeingUnpacked>>
    BY <1>10 DEF PostRemovePackage, fileVars, unpackVars, removeVars
  <2>2. PICK p \in Package : UNCHANGED dst \/ \E x : dst' = [dst EXCEPT ![ControlFile[p]] = x]
    <3>1. ASSUME NEW p \in Package, RemovePackageFiles(p)
          PROVE  \E x : dst' = [dst EXCEPT ![ControlFile[p]] = x]
      BY <3>1, RemovalOutcome
    <3> QED
      BY <1>10, <3>1 DEF PostRemovePackage, TypeInv, TypeOK
  <2>3. \A f \in PackageFile : dst'[f] = dst[f]
    BY <1>4, <2>2, ControlNotPackageFile DEF SomeFile, PackageFile
  <2> QED
    BY <1>1, <2>1, <2>3, PlacedFrame
<1>11. CASE PostRemoveFile \/ PostUnpackPackage \/ PostUnpackDone
  <2>1. UNCHANGED <<dst, tmp, filesToUnpack, filesBeingUnpacked, filesUnpacked, filesToRemove>>
        /\ packagesBeingUnpacked' \subseteq packagesBeingUnpacked
    BY <1>11 DEF PostRemoveFile, PostUnpackPackage, PostUnpackDone, fsVars, packageVars, fileVars,
                 unpackVars, removeVars
  <2> QED
    BY <1>1, <2>1, PlacedFrame
<1>12. state \notin PreState \cup UnwindState
  BY StatesApart DEF MidState
<1> QED
  BY <1>5, <1>6, <1>7, <1>8, <1>9, <1>10, <1>11, <1>12, StillPolls, StatesApart
     DEF SetsPolls, PreUnpackCheckFile, PreUnpackSelectPackage, PreRemoveSelectPackage, PreRemoveDone,
         UnwindReplaceFile, UnwindUnpackFile, UnwindUnpackPackage, UnwindPreRemovePackage,
         UnwindPreUnpackPackage, UnwindPreUnpackDone, PreState, UnwindState

\* In the last states the files stay where they are.
LEMMA FinalFiles == TypeInv /\ Poll /\ state \in FinalState => \A f \in PackageFile : dst'[f] = dst[f]
<1> SUFFICES ASSUME TypeInv, Poll, state \in FinalState, UNCHANGED dst => FALSE
             PROVE  \A f \in PackageFile : dst'[f] = dst[f]
  OBVIOUS
<1>1. PostRemovePackage
  BY StillPolls
     DEF SetsStill, SetsPolls, PreUnpackCheckFile, PreUnpackSelectPackage, PreRemoveSelectPackage,
         PreRemoveDone,
         UnpackFile, UnpackSelectPackage, ReplaceFile, RemoveFile, PostRemoveFile, PostUnpackPackage,
         PostUnpackDone,
         UnwindReplaceFile, UnwindUnpackFile, UnwindUnpackPackage, UnwindPreRemovePackage,
         UnwindPreUnpackPackage,
         UnwindPreUnpackDone, FinalState, fsVars
<1>2. PICK p \in Package : UNCHANGED dst \/ \E x : dst' = [dst EXCEPT ![ControlFile[p]] = x]
  <2>1. ASSUME NEW p \in Package, RemovePackageFiles(p)
        PROVE  \E x : dst' = [dst EXCEPT ![ControlFile[p]] = x]
    BY <2>1, RemovalOutcome
  <2> QED
    BY <1>1, <2>1 DEF PostRemovePackage, TypeInv, TypeOK
<1> QED
  BY <1>2, ControlNotPackageFile DEF SomeFile, PackageFile, TypeInv, TypeOK

\* A package that has got its new status has its files in place.
EndedInv ==
  state \in FinalState =>
    \A p \in Package : curstat[p].state >= unpacked =>
      curstat[p] = disk[p] \/ Intact(dst, p, curstat[p].version)

LEMMA UnpackedVersion ==
  ASSUME TypeInv, SessionInv, UnpackedInv, state = "post_unpack", NEW p \in packagesBeingUnpacked
  PROVE  p \in Package /\ selstat[p].version \in Version /\ curstat[p].version = selstat[p].version
<1>1. p \in Package /\ selstat[p].version \in Version /\ selstat[p].state >= unpacked
  BY DEF TypeInv, SelectedInv, SelectedPackages
<1>2. p \notin Served
  BY DEF UnpackedInv, ToBeUnpacked, SessionInv, ServedInv, Onward, FinalState
<1> QED
  BY <1>1, <1>2 DEF SessionInv, OnwardInv, Onward, FinalState, AsSelected

LEMMA EndedPoll ==
  ASSUME TypeInv, SessionInv, KeptInv, UnpackedInv, FilesOfState, PlacedInv, EndedInv, Poll
  PROVE  EndedInv'
<1> SUFFICES ASSUME state' \in FinalState, NEW p \in Package, curstat'[p].state >= unpacked,
                    curstat'[p] # disk'[p]
             PROVE  Intact(dst', p, curstat'[p].version)
  BY DEF EndedInv
<1>0. curstat \in [Package -> Status] /\ disk \in [Package -> Status] /\ curstat' \in [Package -> Status]
  BY TypeNext DEF TypeInv, TypeOK, Next
<1>1. state \in FinalState \/ (state = "remove" /\ SetsStill)
  BY StatePolls
<1>2. disk' = disk
  BY <1>1, StatePolls, StatesApart DEF MidState
<1>3. CASE state = "remove" /\ SetsStill
  <2>1. curstat = disk
    BY <1>3 DEF SessionInv, Saved, MidState, ForwardState, FinalState, UnwoundStatus
  <2> QED
    BY <1>2, <1>3, <2>1 DEF SetsStill
<1>4. ASSUME state \in FinalState, curstat'[p] = curstat[p] PROVE Intact(dst', p, curstat'[p].version)
  <2>1. Intact(dst, p, curstat[p].version) /\ curstat[p].version \in Version
    BY <1>2, <1>4 DEF EndedInv, KeptInv
  <2>2. \A f \in Claimed(p, curstat[p].version) : dst'[f] = dst[f]
    BY <1>4, <2>1, ClaimedFiles, FinalFiles
  <2> QED
    BY <1>4, <2>1, <2>2, IntactKept
<1>5. CASE state \in FinalState /\ curstat'[p] # curstat[p]
  <2>1. curstat' # curstat /\ curstat' # disk /\ state' # "done" /\ state' # "fail"
    BY <1>2, <1>5 DEF FinalState
  <2>2. PostRemovePackage \/ PostUnpackPackage
    <3>1. ~SetsStill
      BY <2>1 DEF SetsStill
    <3>2. ~PostUnpackDone
      BY <2>1 DEF PostUnpackDone, Throw
    <3> QED
      BY <1>5, <2>1, <3>1, <3>2, StillPolls
         DEF SetsPolls, PreUnpackCheckFile, PreUnpackSelectPackage, PreRemoveSelectPackage,
             PreRemoveDone,
             UnpackFile, UnpackSelectPackage, ReplaceFile, RemoveFile, PostRemoveFile,
             UnwindReplaceFile, UnwindUnpackFile, UnwindUnpackPackage, UnwindPreRemovePackage,
             UnwindPreUnpackPackage,
             UnwindPreUnpackDone, FinalState, statVars
  <2>3. ~(removed >= unpacked)
    BY DEF removed, unpacked
  <2>4. CASE PostRemovePackage
    <3>1. PICK q \in Package : UNCHANGED curstat \/ curstat' = [curstat EXCEPT ![q].state = removed]
      BY <2>4 DEF PostRemovePackage, TypeInv, TypeOK
    <3>2. p = q /\ curstat'[p].state = removed
      BY <1>0, <1>5, <3>1 DEF Status
    <3> QED
      BY <2>3, <3>2
  <2>5. CASE PostUnpackPackage
    <3>1. state = "post_unpack"
      BY <2>5, PostUnpacks
    <3>2. PICK q \in packagesBeingUnpacked : curstat' = [curstat EXCEPT ![q].state = unpacked]
      BY <2>1, <2>5, PostUnpacks
    <3>3. p = q
      BY <1>0, <1>5, <3>2
    <3>4. p \in packagesBeingUnpacked /\ curstat'[p].version = selstat[p].version /\ selstat[p].version \in Version
      BY <1>0, <3>1, <3>2, <3>3, UnpackedVersion DEF Status
    <3>5. ASSUME NEW f \in FilesOf(p, selstat[p].version)
          PROVE  dst'[f] = [owner |-> p, version |-> selstat[p].version]
      <4>1. Placed(p, f)
        BY <1>5, <3>4 DEF PlacedInv
      <4>2. filesToUnpack = {} /\ filesBeingUnpacked = {}
        BY <1>5 DEF FilesOfState
      <4>3. dst[f] = [owner |-> p, version |-> selstat[p].version]
        BY <4>1, <4>2 DEF Placed
      <4>4. f \in PackageFile
        BY <3>4, ClaimedFiles
      <4> QED
        BY <1>5, <4>3, <4>4, FinalFiles
    <3> QED
      BY <3>4, <3>5, PlacedIntact
  <2> QED
    BY <2>2, <2>4, <2>5
<1> QED
  BY <1>1, <1>3, <1>4, <1>5

\* The files of the packages that were on the system when the session began were intact.
OrigInv ==
  state # "idle" => \A p \in Package : prevstat[p].state >= unpacked => Intact(orig, p, prevstat[p].version)

LEMMA OrigPoll == OrigInv /\ Poll => OrigInv'
<1> SUFFICES ASSUME OrigInv, Poll PROVE OrigInv'
  OBVIOUS
<1>1. UNCHANGED <<orig, prevstat>> /\ state # "idle"
  BY PollConstants, PollStates DEF EndState
<1> QED
  BY <1>1 DEF OrigInv

LEMMA OnDiskPoll ==
  ASSUME Consistent, Whole', TypeInv, SessionInv, RestoredInv, KeptInv, UnpackedInv, FilesOfState,
         ClearInv, ModuleKept, EndedInv, OrigInv, OnDisk, Poll
  PROVE  OnDisk'
<1>0. Whole
  BY PollConstants DEF Whole
<1>1. state \in PreState \cup MidState
  BY PollStates DEF TypeInv, TypeOK, State
<1>2. ASSUME NEW p \in Package, disk[p].state >= unpacked PROVE Intact(dst', p, disk[p].version)
  <2>1. CASE state \in PreState
    BY <1>2, <2>1, PrePolls DEF OnDisk
  <2>2. CASE state \in MidState
    BY <1>2, <2>2, ClearKeeps
  <2> QED
    BY <1>1, <2>1, <2>2
<1>3. CASE disk' = disk
  BY <1>2, <1>3 DEF OnDisk
<1>4. CASE state = "pre_remove" /\ curstat' = curstat /\ disk' = curstat
  <2>1. disk = prevstat
    BY <1>4 DEF SessionInv, Saved, PreState
  <2>2. \A p \in Package : curstat[p].state >= unpacked => curstat[p] = disk[p]
    BY <1>4, <2>1 DEF KeptInv, PreState
  <2> QED
    BY <1>2, <1>4, <2>2 DEF OnDisk
<1>5. CASE state = "unwind_pre_unpack" /\ disk' = curstat /\ curstat' = curstat /\ state' = "fail"
  <2> SUFFICES ASSUME NEW p \in Package, curstat[p].state >= unpacked
               PROVE  Intact(dst', p, curstat[p].version)
    BY <1>5 DEF OnDisk
  <2>1. curstat[p] = prevstat[p] /\ prevstat[p].version \in Version
    BY <1>5 DEF KeptInv, UnwindState
  <2>2. Intact(orig, p, prevstat[p].version)
    BY <1>5, <2>1 DEF OrigInv
  <2>3. ~committed
    BY <1>0, <1>5 DEF FilesOfState, UnwindState, Whole
  <2>4. \A f \in PackageFile : orig[f] # NoFile => dst[f] = orig[f]
    BY <1>0, <1>5, <2>3 DEF RestoredInv, LeftChanged, LeftLost, UnwindState, Whole
  <2>5. UNCHANGED dst
    <3>1. CASE SetsStill
      BY <3>1 DEF SetsStill
    <3>2. CASE SetsPolls
      BY <1>5, <3>2
         DEF SetsPolls, PreUnpackCheckFile, PreUnpackSelectPackage, PreRemoveSelectPackage,
             PreRemoveDone,
             UnpackFile, UnpackSelectPackage, ReplaceFile, RemoveFile, PostRemoveFile,
             PostRemovePackage,
             PostUnpackPackage, PostUnpackDone, UnwindReplaceFile, UnwindUnpackFile,
             UnwindUnpackPackage,
             UnwindPreRemovePackage, UnwindPreUnpackPackage, UnwindPreUnpackDone, fsVars
    <3> QED
      BY <3>1, <3>2, StillPolls
  <2>6. \A f \in Claimed(p, prevstat[p].version) : dst'[f] = orig[f]
    BY <2>1, <2>2, <2>4, <2>5, ClaimedFiles, IntactPresent
  <2> QED
    BY <2>1, <2>2, <2>6, IntactKept
<1>6. CASE state = "post_unpack" /\ state' = "done" /\ disk' = curstat'
  <2>1. PICK updated \in SUBSET existingModulePackages :
          curstat' = [p \in Package |-> IF p \in updated THEN [state |-> installed, version |-> moduleVersion[p]]
                                                         ELSE curstat[p]]
    <3>1. PostUnpackDone
      <4>1. ~SetsStill
        BY <1>6 DEF SetsStill, Advances
      <4>2. ~PostUnpackPackage
        BY <1>6, PostUnpacks
      <4> QED
        BY <1>6, <4>1, <4>2, StillPolls
           DEF SetsPolls, PreUnpackCheckFile, PreUnpackSelectPackage, PreRemoveSelectPackage,
               PreRemoveDone, UnpackFile, UnpackSelectPackage, ReplaceFile, RemoveFile, PostRemoveFile,
               PostRemovePackage, UnwindReplaceFile, UnwindUnpackFile, UnwindUnpackPackage,
               UnwindPreRemovePackage, UnwindPreUnpackPackage, UnwindPreUnpackDone
    <3> QED
      BY <1>6, <3>1, ExceptionValues DEF PostUnpackDone, UpdateExistingModules, Throw
  <2>2. \A f \in PackageFile : dst'[f] = dst[f]
    BY <1>6, FinalFiles DEF FinalState
  <2> SUFFICES ASSUME NEW p \in Package, curstat'[p].state >= unpacked
               PROVE  Intact(dst', p, curstat'[p].version)
    BY <1>6 DEF OnDisk
  <2>3. CASE p \in updated
    <3>1. curstat'[p].version = moduleVersion[p] /\ p \in existingModulePackages
      BY <2>1, <2>3
    <3>2. ModuleFile[p] \in File /\ dst[ModuleFile[p]] # NoFile /\ dst[ModuleFile[p]].version = moduleVersion[p]
      BY <1>6, <3>1 DEF ModuleKept, MidState, FinalState
    <3>3. moduleVersion[p] \in Version
      BY <1>6, <3>1 DEF SessionInv, ServedInv, Served, Onward, FinalState, TypeInv, TypeOK
    <3>4. ModuleFile[p] \in Contents[p][moduleVersion[p]]
      BY <3>2, <3>3, UnpackAssumption DEF Consistent, ModulesOwn
    <3>5. ModuleFile[p] \in PackageFile
      BY <3>2, <3>3, ModuleNoControl
    <3> QED
      BY <2>2, <3>1, <3>2, <3>4, <3>5 DEF Intact
  <2>4. CASE p \notin updated
    <3>1. curstat'[p] = curstat[p]
      BY <2>1, <2>4
    <3>2. CASE curstat[p] = disk[p]
      BY <1>2, <3>1, <3>2
    <3>3. CASE curstat[p] # disk[p]
      <4>1. Intact(dst, p, curstat[p].version) /\ curstat[p].version \in Version
        BY <1>6, <3>1, <3>3 DEF EndedInv, FinalState, KeptInv
      <4>2. \A f \in Claimed(p, curstat[p].version) : dst'[f] = dst[f]
        BY <2>2, <4>1, ClaimedFiles
      <4> QED
        BY <3>1, <4>1, <4>2, IntactKept
    <3> QED
      BY <3>2, <3>3
  <2> QED
    BY <2>3, <2>4
<1> QED
  BY <1>3, <1>4, <1>5, <1>6, StatePolls

\* What every step keeps, and what those of a guarded session do.
SideInv == ManifestsOwn /\ UnpackedInv /\ FirstInv /\ FilesOfState /\ KeptInv
KeepInv == CheckedInv /\ ModuleKept /\ ClearInv /\ PlacedInv /\ EndedInv /\ OrigInv /\ OnDisk
IntactInv ==
  StatusInv /\ HalfInv /\ FilesInv /\ SideInv /\ (Guarded /\ Whole => KeepInv)

LEMMA InstalledAtFirst ==
  ASSUME NEW st \in Initial, NEW p \in Package, st[p].state >= unpacked
  PROVE  st[p].state = installed
<1>1. st \in [Package -> [state : {not_present, removed}, version : Version \cup {0}]
                           \cup [state : {installed}, version : Version]]
  BY UnpackAssumption
<1>2. st[p].state \in {not_present, removed, installed}
  BY <1>1
<1> QED
  BY <1>2 DEF not_present, removed, unpacked

LEMMA OnDiskInit == Consistent /\ Init => OnDisk
<1> SUFFICES ASSUME Consistent, Init, NEW p \in Package, disk[p].state >= unpacked
             PROVE  Intact(dst, p, disk[p].version)
  BY DEF OnDisk
<1>1. disk = curstat /\ curstat \in Initial
  BY DEF Init
<1>2. PICK stray \in [StrayFile -> Version \cup {0}] : dst = [f \in File |-> FileAt(f, curstat, stray)]
  BY DEF Init
<1>3. curstat[p].state = installed /\ curstat[p].version \in Version
  BY <1>1, InstalledAtFirst, StatusesType
<1> SUFFICES ASSUME NEW f \in FilesOf(p, curstat[p].version)
             PROVE  dst[f] = [owner |-> p, version |-> curstat[p].version]
  BY <1>1, <1>3, PlacedIntact
<1>4. f \in File /\ f \in Contents[p][curstat[p].version]
  BY DEF FilesOf
<1> DEFINE owners == {q \in Package : /\ curstat[q].state = installed
                                      /\ f \in Contents[q][curstat[q].version] \cup {ControlFile[q]}}
<1>5. p \in owners
  BY <1>3, <1>4
<1>6. \A q \in owners : q = p
  <2> SUFFICES ASSUME NEW q \in owners, q # p PROVE FALSE
    OBVIOUS
  <2>1. f # ControlFile[q]
    BY <1>3, <1>4, ControlApartFromContents
  <2>2. f \in FilesOf(q, curstat[q].version) /\ curstat[q].state = installed
    BY <1>4, <2>1 DEF FilesOf
  <2>3. FilesOf(p, curstat[p].version) \cap FilesOf(q, curstat[q].version) = {}
    BY <1>1, <1>3, <2>2 DEF Consistent, SystemsConsistent
  <2> QED
    BY <2>2, <2>3
<1>7. (CHOOSE q \in owners : TRUE) = p
  BY <1>5, <1>6
<1>8. FileAt(f, curstat, stray) = [owner |-> p, version |-> curstat[p].version]
  BY <1>5, <1>7 DEF FileAt
<1> QED
  BY <1>2, <1>4, <1>8

LEMMA SideInit == Init => SideInv
<1> SUFFICES ASSUME Init PROVE SideInv
  OBVIOUS
<1>1. curstat \in Initial /\ disk = curstat /\ prevstat = curstat /\ state = "idle" /\ sessions = 0
  BY DEF Init
<1>2. \A p \in Package : curstat[p].state >= unpacked => curstat[p].version \in Version
  BY <1>1, StatusesType
<1>3. \A p \in Package : /\ mfDst[p] = InstalledFiles(curstat, p) /\ mfTmp[p] = {} /\ mfBak[p] = {}
  BY DEF Init, InstalledFiles
<1>4. ManifestsOwn
  <2> SUFFICES ASSUME NEW p \in Package PROVE InstalledFiles(curstat, p) \subseteq AllContents(p)
    BY <1>3 DEF ManifestsOwn
  <2>1. curstat[p].state = installed => curstat[p].version \in Version
    BY <1>2 DEF installed, unpacked
  <2> QED
    BY <2>1 DEF InstalledFiles, AllContents
<1>5. UnpackedInv
  BY DEF Init, UnpackedInv, ToBeUnpacked, ToBeRemoved
<1>6. FirstInv
  <2> HIDE DEF InstalledFiles
  <2> QED
    BY <1>1, <1>3 DEF FirstInv, ReadManifest
<1>7. FilesOfState
  BY DEF Init, FilesOfState, FinalState, PreState, ForwardState, UnwindState
<1>8. KeptInv
  BY <1>1, <1>2 DEF KeptInv, PreState, MidState, ForwardState, FinalState, UnwindState
<1> QED
  BY <1>4, <1>5, <1>6, <1>7, <1>8 DEF SideInv

LEMMA SidePoll == TypeInv /\ SessionInv /\ RecoverInv /\ SideInv /\ Poll => SideInv'
  BY ManifestsOwnPoll, UnpackedPoll, FirstPoll, FilesOfStatePoll, KeptPoll DEF SideInv, SessionInv,
                                                                               SetsInv

\* A session begins (of unpack, or of the commit that it is part of).
LEMMA SideNew ==
  ASSUME TypeInv, SideInv, NewUnpack, selstat' \in Selections, prevstat' = curstat, sessions' = sessions + 1,
         curstat = disk
  PROVE  SideInv'
<1>1. /\ state' = "pre_unpack" /\ UNCHANGED <<curstat, disk, mfDst, mfTmp, mfBak>> /\ committed' = FALSE
      /\ packagesToUnpack' = {p \in Package : UnpackReq(curstat[p], selstat'[p])}
      /\ packagesPreUnpacked' = {} /\ packagesBeingUnpacked' = {} /\ existingModulePackages' = {}
      /\ filesToUnpack' = {} /\ filesBeingUnpacked' = {}
  BY DEF NewUnpack, EmptySets, statVars, mfVars
<1>2. sessions \in Nat
  BY DEF TypeInv, TypeOK
<1>3. ManifestsOwn'
  BY <1>1 DEF SideInv, ManifestsOwn
<1>4. UnpackedInv'
  BY <1>1, <1>2 DEF UnpackedInv, ToBeUnpacked, ToBeRemoved
<1>5. FirstInv'
  <2>1. sessions' # 0 /\ (sessions' <= 1 => sessions = 0)
    BY <1>2
  <2>2. sessions = 0 => /\ disk \in Initial
                        /\ \A p \in Package : ReadManifest(p) \subseteq InstalledFiles(disk, p)
    BY DEF SideInv, FirstInv
  <2>3. \A p \in Package : ReadManifest(p)' = ReadManifest(p) /\ InstalledFiles(prevstat, p)' = InstalledFiles(disk, p)
    BY <1>1 DEF ReadManifest, InstalledFiles
  <2> QED
    BY <2>1, <2>2, <2>3, <1>2 DEF FirstInv
<1>6. FilesOfState'
  BY <1>1 DEF FilesOfState, FinalState, UnwindState
<1>7. KeptInv'
  BY <1>1 DEF SideInv, KeptInv, PreState, MidState, ForwardState, FinalState, UnwindState
<1> QED
  BY <1>3, <1>4, <1>5, <1>6, <1>7 DEF SideInv

LEMMA KeepNew ==
  ASSUME NewUnpack, prevstat' = curstat, curstat = disk, OnDisk
  PROVE  KeepInv'
<1>1. /\ state' = "pre_unpack" /\ UNCHANGED <<disk, dst>> /\ orig' = dst
      /\ packagesPreUnpacked' = {} /\ existingModulePackages' = {} /\ filesToRemove' = {}
  BY DEF NewUnpack, EmptySets, statVars, fsVars
<1>2. state' \notin MidState
  BY <1>1 DEF MidState, ForwardState, FinalState, UnwindState
<1>3. CheckedInv' /\ ModuleKept'
  BY <1>1 DEF CheckedInv, ModuleKept
<1>4. ClearInv' /\ PlacedInv' /\ EndedInv'
  BY <1>2 DEF ClearInv, PlacedInv, EndedInv, MidState
<1>5. OrigInv' /\ OnDisk'
  BY <1>1 DEF OrigInv, OnDisk
<1> QED
  BY <1>3, <1>4, <1>5 DEF KeepInv

\* A session is over, and its unpack object gone.
LEMMA SideOver ==
  ASSUME TypeInv, SideInv, NoSession, curstat' \in {curstat, disk}
  PROVE  SideInv'
<1>1. /\ state' = "idle" /\ UNCHANGED <<disk, mfDst, mfTmp, mfBak, sessions, selstat, prevstat, committed>>
      /\ packagesToUnpack' = {} /\ packagesPreUnpacked' = {} /\ packagesBeingUnpacked' = {}
      /\ existingModulePackages' = {} /\ filesToUnpack' = {} /\ filesBeingUnpacked' = {} /\ filesToRemove' = {}
  BY DEF NoSession, EmptySets, mfVars, sessionVars
<1>2. ManifestsOwn' /\ UnpackedInv'
  BY <1>1 DEF SideInv, ManifestsOwn, UnpackedInv, ToBeUnpacked, ToBeRemoved
<1>3. FirstInv'
  <2>1. state' \notin PreState
    BY <1>1 DEF PreState
  <2>2. \A p \in Package : ReadManifest(p)' = ReadManifest(p) /\ InstalledFiles(disk, p)' = InstalledFiles(disk, p)
    BY <1>1 DEF ReadManifest, InstalledFiles
  <2>3. sessions' <= 1 => prevstat' \in Initial
    BY <1>1 DEF SideInv, FirstInv
  <2>4. sessions' >= 1 => selstat' \in Selections
    BY <1>1 DEF SideInv, FirstInv
  <2>5. sessions' = 0 => /\ state' = "idle" /\ disk' \in Initial
                         /\ \A p \in Package : ReadManifest(p)' \subseteq InstalledFiles(disk, p)'
    BY <1>1, <2>2 DEF SideInv, FirstInv
  <2> QED
    BY <2>1, <2>3, <2>4, <2>5 DEF FirstInv
<1>4. FilesOfState'
  BY <1>1 DEF FilesOfState, PreState, ForwardState, FinalState, UnwindState
<1>5. KeptInv'
  BY <1>1 DEF SideInv, KeptInv, PreState, MidState, ForwardState, FinalState, UnwindState
<1> QED
  BY <1>2, <1>3, <1>4, <1>5 DEF SideInv

LEMMA KeepOver == ASSUME NoSession, OnDisk PROVE KeepInv'
<1>1. state' = "idle" /\ UNCHANGED <<disk, dst>>
  BY DEF NoSession, fsVars
<1>2. OnDisk' /\ OrigInv'
  BY <1>1 DEF OnDisk, OrigInv
<1>3. state' \notin PreState \cup MidState
  BY <1>1 DEF PreState, MidState, ForwardState, FinalState, UnwindState
<1>4. CheckedInv' /\ ModuleKept' /\ ClearInv' /\ PlacedInv' /\ EndedInv'
  BY <1>3 DEF CheckedInv, ModuleKept, ClearInv, PlacedInv, EndedInv, MidState
<1> QED
  BY <1>2, <1>4 DEF KeepInv

LEMMA KeepPoll ==
  ASSUME Consistent, Guarded, Whole', StatusInv, HalfInv, FilesInv, SideInv, KeepInv, Poll
  PROVE  KeepInv'
<1> USE DEF KeepInv, SideInv
<1>0. TypeInv /\ SessionInv /\ SetsInv /\ HalfUnpackedInMemory /\ InPlace /\ RestoredInv
  BY DEF StatusInv, SessionInv, SetsInv, HalfInv, FilesInv, RecoverInv
<1>1. CheckedInv'
  BY <1>0, CheckedPoll
<1>2. ModuleKept'
  BY <1>0, ModuleKeptPoll
<1>3. ClearInv'
  <2>1. CASE state' \in MidState /\ state \in MidState /\ disk' = disk
    BY <1>0, <2>1, ClearGoesOn
  <2>2. CASE state = "pre_remove" /\ state' = "copy_post_remove"
    BY <1>0, <2>2, ClearBegins
  <2> QED
    BY <1>0, <2>1, <2>2, StatePolls DEF ClearInv
<1>4. PlacedInv'
  BY <1>0, PlacedPoll
<1>5. EndedInv'
  BY <1>0, EndedPoll
<1>6. OrigInv'
  BY OrigPoll
<1>7. OnDisk'
  BY <1>0, OnDiskPoll
<1> QED
  BY <1>1, <1>2, <1>3, <1>4, <1>5, <1>6, <1>7

LEMMA IntactUnchanged == IntactInv /\ UNCHANGED vars => SideInv' /\ (Guarded' /\ Whole' => KeepInv')
<1> SUFFICES ASSUME IntactInv, UNCHANGED vars PROVE SideInv' /\ (Guarded' /\ Whole' => KeepInv')
  OBVIOUS
<1>1. /\ UNCHANGED <<state, pkgname, curstat, disk, selstat, prevstat, dst, tmp, mfDst, mfTmp, mfBak>>
      /\ UNCHANGED <<packagesToUnpack, packagesPreUnpacked, packagesBeingUnpacked, packagesToRemove,
                     packagesBeingRemoved, existingModulePackages, moduleVersion>>
      /\ UNCHANGED <<filesToUnpack, filesBeingUnpacked, filesUnpacked, filesToRemove, filesBeingRemoved,
                     filesThatConflict>>
      /\ UNCHANGED <<failed, sessions, orig, committed>>
  BY DEF vars, statVars, fsVars, mfVars, packageVars, fileVars, unpackVars, removeVars, sessionVars
<1>2. ManifestsOwn' /\ UnpackedInv'
  BY <1>1 DEF IntactInv, SideInv, ManifestsOwn, UnpackedInv, ToBeUnpacked, ToBeRemoved
<1>3. FirstInv' /\ FilesOfState'
  BY <1>1 DEF IntactInv, SideInv, FirstInv, ReadManifest, FilesOfState
<1>4. KeptInv'
  BY <1>1 DEF IntactInv, SideInv, KeptInv
<1>5. ASSUME Guarded', Whole' PROVE KeepInv'
  <2>1. KeepInv
    BY <1>1, <1>5 DEF IntactInv, Guarded, Whole
  <2>2. CheckedInv' /\ ModuleKept'
    BY <1>1, <2>1 DEF KeepInv, CheckedInv, ReadManifest, ModuleKept
  <2>3. ClearInv' /\ PlacedInv'
    BY <1>1, <2>1 DEF KeepInv, ClearInv, Touched, FilesInSets, NewFiles, PlacedInv, Placed
  <2>4. EndedInv' /\ OrigInv' /\ OnDisk'
    BY <1>1, <2>1 DEF KeepInv, EndedInv, OrigInv, OnDisk
  <2> QED
    BY <2>2, <2>3, <2>4 DEF KeepInv
<1> QED
  BY <1>2, <1>3, <1>4, <1>5 DEF SideInv

LEMMA IntactInit == Consistent /\ Init => IntactInv
<1> SUFFICES ASSUME Consistent, Init PROVE IntactInv
  OBVIOUS
<1>1. state = "idle"
  BY DEF Init
<1>2. CheckedInv /\ ModuleKept /\ ClearInv /\ PlacedInv /\ EndedInv /\ OrigInv
  BY <1>1 DEF CheckedInv, ModuleKept, ClearInv, PlacedInv, EndedInv, OrigInv,
              PreState, MidState, ForwardState, FinalState, UnwindState
<1> QED
  BY <1>2, StatusInit, HalfInit, FilesInit, SideInit, OnDiskInit DEF IntactInv, KeepInv

LEMMA IntactNext == Consistent /\ IntactInv /\ [Next]_vars => IntactInv'
<1> SUFFICES ASSUME Consistent, IntactInv, [Next]_vars
             PROVE  SideInv' /\ (Guarded' /\ Whole' => KeepInv')
  BY StatusNext, HalfNext, FilesNext DEF IntactInv
<1>0. TypeInv /\ SessionInv /\ IdleSaved /\ RecoverInv /\ SideInv
  BY DEF IntactInv, StatusInv, FilesInv
<1>1. CASE Begin
  <2>1. /\ NewUnpack /\ selstat' \in Selections /\ prevstat' = curstat /\ sessions' = sessions + 1
        /\ failed' = failed /\ curstat = disk
    BY <1>0, <1>1 DEF Begin, Select, NewUnpack, NoFault, IdleSaved
  <2>2. Guarded' /\ Whole' => Guarded /\ Whole
    BY <1>0, <2>1 DEF Guarded, Whole, TypeInv, TypeOK
  <2> QED
    BY <1>0, <2>1, <2>2, SideNew, KeepNew DEF IntactInv, KeepInv
<1>2. CASE Poll
  <2>1. SideInv'
    BY <1>0, <1>2, SidePoll
  <2>2. ASSUME Guarded', Whole' PROVE KeepInv'
    <3>1. Guarded /\ Whole
      BY <1>0, <1>2, <2>2, GuardedBefore
    <3> QED
      BY <1>2, <2>2, <3>1, KeepPoll DEF IntactInv
  <2> QED
    BY <2>1, <2>2
<1>3. CASE Finish \/ Crash
  <2>1. NoSession /\ state # "idle" /\ curstat' \in {curstat, disk} /\ failed \subseteq failed'
    BY <1>3 DEF Finish, Crash, NoFault, Fault
  <2>2. sessions' = sessions
    BY <2>1 DEF NoSession, sessionVars
  <2>3. Guarded' /\ Whole' => Guarded /\ Whole
    BY <2>1, <2>2 DEF Guarded, Whole
  <2> QED
    BY <1>0, <2>1, <2>3, SideOver, KeepOver DEF IntactInv, KeepInv
<1>4. CASE UNCHANGED vars
  BY <1>4, IntactUnchanged
<1> QED
  BY <1>1, <1>2, <1>3, <1>4 DEF Next

\* A package that the status file says is unpacked or installed has its files in
\* place, in its version, at every moment and so after a crash at any moment
\* (InstalledIntact): pre_remove commits half-unpacked statuses before the first
\* file is moved, nothing else is touched until the final commit, and a session
\* that is backed out restores every file before the statuses.  For consistent
\* packages; in the first session, or in every session if no two packages have a
\* file in common.  (Without that an older manifest can claim a file that
\* has moved to another package, as the run unpack_stale_manifest shows.)
THEOREM InstalledAreIntact ==
  ASSUME Consistent
  PROVE  Spec => [](Guarded => InstalledIntact)
<1>1. Init => IntactInv
  BY IntactInit
<1>2. IntactInv /\ [Next]_vars => IntactInv'
  BY IntactNext
<1>3. IntactInv => (Guarded => InstalledIntact)
  BY DEF IntactInv, KeepInv, OnDisk, Whole, InstalledIntact, Intact, FilesOf
<1> QED
  BY <1>1, <1>2, <1>3, PTL DEF Spec

===============================================================================
