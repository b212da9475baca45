---------------------------- MODULE Unpack_proofs -----------------------------
(***************************************************************************)
(* For every set of packages, files and versions, every contents of the    *)
(* packages, and any number of sessions and failures: the types, what the  *)
(* status file says while the disc is being changed, and that no file is   *)
(* lost before the point of no return.                                     *)
(***************************************************************************)
EXTENDS Unpack, TLAPS

SelectedPackages == {p \in Package : selstat[p].state >= unpacked}

\* What is unpacked has been selected, in a version that exists.
SelectedInv ==
  /\ \A p \in SelectedPackages : selstat[p].version \in Version
  /\ packagesToUnpack \subseteq SelectedPackages
  /\ packagesPreUnpacked \subseteq SelectedPackages
  /\ packagesBeingUnpacked \subseteq SelectedPackages
  /\ filesToUnpack # {} => pkgname \in SelectedPackages

TypeInv == TypeOK /\ SelectedInv

LEMMA ExceptionStateType == \A s \in State : ExceptionState[s] \in State
  BY DEF ExceptionState, State, PreState, MidState, ForwardState, FinalState, UnwindState, EndState

LEMMA BackUpType ==
  ASSUME dst \in SomeFile, bak \in SomeFile, NEW f \in File, NEW overwrite
  PROVE  BackUp(f, overwrite).dst \in SomeFile /\ BackUp(f, overwrite).bak \in SomeFile
  BY DEF BackUp, SomeFile

\* What may have become of the destination and of the backup when a file could
\* not be replaced.
LEMMA ReplaceFailsOutcome ==
  ASSUME NEW f, NEW overwrite, NEW k, ReplaceFileFails(f, overwrite, k)
  PROVE  /\ \/ dst' = BackUp(f, overwrite).dst /\ bak' = BackUp(f, overwrite).bak
            \/ dst' = BackUp(f, FALSE).dst /\ bak' = BackUp(f, FALSE).bak
            \/ dst' = dst /\ bak' = bak
         /\ NoFault \/ Fault(k)
<1>1. PICK done \in {BackUp(f, overwrite), BackUp(f, FALSE), [dst |-> dst, bak |-> bak]} :
        dst' = done.dst /\ bak' = done.bak
  BY DEF ReplaceFileFails
<1>2. NoFault \/ Fault(k)
  BY Zenon DEF ReplaceFileFails
<1>3. CASE done = [dst |-> dst, bak |-> bak]
  BY <1>1, <1>2, <1>3
<1> QED
  BY <1>1, <1>2, <1>3

LEMMA ReplaceFailsType ==
  ASSUME dst \in SomeFile, bak \in SomeFile, faults \in Nat, failed \subseteq Faults,
         NEW f \in File, NEW overwrite, NEW k, ReplaceFileFails(f, overwrite, k)
  PROVE  /\ dst' \in SomeFile /\ bak' \in SomeFile
         /\ faults' \in Nat /\ failed' \subseteq Faults
<1>1. NoFault \/ Fault(k)
  BY ReplaceFailsOutcome
<1>2. dst' \in SomeFile /\ bak' \in SomeFile
  BY ReplaceFailsOutcome, BackUpType
<1> QED
  BY <1>1, <1>2 DEF NoFault, Fault

\* What may be left of the manifests and of the control file of a package whose
\* files have been removed.
LEMMA RemovalOutcome ==
  ASSUME NEW p, RemovePackageFiles(p)
  PROVE  /\ \E x \in {{}, mfDst[p]} : mfDst' = [mfDst EXCEPT ![p] = x]
         /\ \E x \in {{}, mfTmp[p]} : mfTmp' = [mfTmp EXCEPT ![p] = x]
         /\ \E x \in {{}, mfBak[p]} : mfBak' = [mfBak EXCEPT ![p] = x]
         /\ \E x \in {NoFile, dst[ControlFile[p]]} : dst' = [dst EXCEPT ![ControlFile[p]] = x]
         /\ \E x \in {NoFile, dst[ControlFile[p]], bak[ControlFile[p]]} :
               bak' = [bak EXCEPT ![ControlFile[p]] = x]
         /\ NoFault \/ Fault("remove") \/ Fault("delete")
         /\ \/ "delete" \in failed'
            \/ /\ mfDst' = [mfDst EXCEPT ![p] = {}] /\ mfTmp' = [mfTmp EXCEPT ![p] = {}]
               /\ mfBak' = [mfBak EXCEPT ![p] = {}]
<1> DEFINE c    == ControlFile[p]
           gone == [dst |-> NoFile, bak |-> NoFile]
           kept == [dst |-> dst[c], bak |-> NoFile]
<1>1. ASSUME NEW left, NEW control, PackageFilesRemoved(p, left, control)
      PROVE  /\ \E x \in {{}, mfDst[p]} : mfDst' = [mfDst EXCEPT ![p] = x]
             /\ \E x \in {{}, mfTmp[p]} : mfTmp' = [mfTmp EXCEPT ![p] = x]
             /\ \E x \in {{}, mfBak[p]} : mfBak' = [mfBak EXCEPT ![p] = x]
             /\ dst' = [dst EXCEPT ![c] = control.dst] /\ bak' = [bak EXCEPT ![c] = control.bak]
  BY <1>1 DEF PackageFilesRemoved
<1>2. PICK left, control :
        /\ PackageFilesRemoved(p, left, control)
        /\ control \in {gone, kept, [dst |-> NoFile, bak |-> dst[c]], [dst |-> dst[c], bak |-> bak[c]]}
  BY DEF RemovePackageFiles
<1>3. control.dst \in {NoFile, dst[c]} /\ control.bak \in {NoFile, dst[c], bak[c]}
  BY <1>2
<1>4. NoFault \/ Fault("remove") \/ Fault("delete")
  BY DEF RemovePackageFiles
<1>5. \/ "delete" \in failed'
      \/ /\ mfDst' = [mfDst EXCEPT ![p] = {}] /\ mfTmp' = [mfTmp EXCEPT ![p] = {}]
         /\ mfBak' = [mfBak EXCEPT ![p] = {}]
  BY DEF RemovePackageFiles, PackageFilesRemoved, Fault
<1> QED
  BY <1>1, <1>2, <1>3, <1>4, <1>5

LEMMA StatusExcept ==
  ASSUME NEW S \in [Package -> Status], NEW p \in Package
  PROVE  /\ \A x \in Status : [S EXCEPT ![p] = x] \in [Package -> Status]
         /\ \A s \in PkgState : [S EXCEPT ![p].state = s] \in [Package -> Status]
  BY DEF Status

LEMMA StatusValues ==
  /\ {not_present, removed, half_unpacked, unpacked, half_configured, installed} \subseteq PkgState
  /\ \A s \in PkgState, v \in Version \cup {0} : [state |-> s, version |-> v] \in Status
  BY DEF PkgState, Status, not_present, removed, half_unpacked, unpacked, half_configured, installed

LEMMA NewFile ==
  \A p \in Package, v \in Version : [owner |-> p, version |-> v] \in FileData
  BY DEF FileData

LEMMA ContentsType ==
  \A p \in Package, v \in Version : Contents[p][v] \subseteq File \cup Dir
  BY UnpackAssumption

LEMMA ControlFileType == \A p \in Package : ControlFile[p] \in File
  BY UnpackAssumption

LEMMA StatusesType ==
  ASSUME NEW st \in Initial \cup Selections
  PROVE  /\ st \in [Package -> Status]
         /\ \A p \in Package : st[p].state >= unpacked => st[p].version \in Version
<1> DEFINE absent  == [state : {not_present, removed}, version : Version \cup {0}]
           present == [state : {installed}, version : Version]
<1>1. st \in [Package -> absent \cup present]
  BY UnpackAssumption
<1>2. ASSUME NEW p \in Package
      PROVE  st[p] \in Status /\ (st[p].state >= unpacked => st[p].version \in Version)
  <2>1. CASE st[p] \in absent
    BY <2>1 DEF Status, PkgState, not_present, removed, unpacked
  <2>2. CASE st[p] \in present
    BY <2>2 DEF Status, PkgState, installed
  <2> QED
    BY <1>1, <2>1, <2>2
<1> QED
  BY <1>1, <1>2

LEMMA FileAtType ==
  ASSUME NEW st \in Initial, NEW stray \in [StrayFile -> Version \cup {0}], NEW f \in File
  PROVE  FileAt(f, st, stray) \in FileData \cup {NoFile}
<1> DEFINE owners == {p \in Package : /\ st[p].state = installed
                                      /\ f \in Contents[p][st[p].version] \cup {ControlFile[p]}}
<1>1. ASSUME NEW p \in owners PROVE [owner |-> p, version |-> st[p].version] \in FileData
  BY <1>1, StatusesType DEF FileData, installed, unpacked
<1>2. CASE owners # {}
  <2>1. (CHOOSE p \in owners : TRUE) \in owners
    BY <1>2
  <2> QED
    BY <1>1, <1>2, <2>1 DEF FileAt
<1>3. CASE owners = {}
  BY <1>3 DEF FileAt, FileData
<1> QED
  BY <1>2, <1>3

LEMMA TypeInit == Init => TypeInv
<1> SUFFICES ASSUME Init PROVE TypeInv
  OBVIOUS
<1> USE UnpackAssumption, VersionAssumption
<1>1. curstat \in Initial /\ curstat \in [Package -> Status]
  BY StatusesType DEF Init
<1>2. dst \in SomeFile
  <2>1. PICK stray \in [StrayFile -> Version \cup {0}] :
               dst = [f \in File |-> FileAt(f, curstat, stray)]
    BY DEF Init
  <2> QED
    BY <1>1, <2>1, FileAtType DEF SomeFile
<1>3. TypeOK
  <2>1. \A p \in Package : curstat[p].state = installed => curstat[p].version \in Version
    BY <1>1, StatusesType DEF installed, unpacked
  <2>2. mfDst \in [Package -> SUBSET (File \cup Dir)] /\ dirs \subseteq Dir
    BY <2>1 DEF Init
  <2> QED
    BY <1>1, <1>2, <2>2 DEF Init, TypeOK, State, EndState, SomeFile
<1>4. SelectedInv
  BY <1>1, StatusesType DEF Init, SelectedInv, SelectedPackages
<1> QED
  BY <1>3, <1>4 DEF TypeInv

LEMMA TypeNext == TypeInv /\ [Next]_vars => TypeInv'
<1> SUFFICES ASSUME TypeInv, [Next]_vars PROVE TypeInv'
  OBVIOUS
<1> USE DEF TypeInv, TypeOK, SelectedInv, SelectedPackages, vars, statVars, fsVars, mfVars,
            packageVars, unpackVars, removeVars, dirVars, fileVars, sessionVars, SomeFile,
            NoFault, Fault, Throw, ThrowPre, Progress, Verdict
<1>1. CASE PreUnpackCheckFile
  BY <1>1, ExceptionStateType DEF PreUnpackCheckFile, State, MidState, PreState, ForwardState,
                                  FinalState, UnwindState, EndState
<1>2. CASE PreUnpackCheckEmptyDir
  BY <1>2, ExceptionStateType DEF PreUnpackCheckEmptyDir, State, MidState, PreState, ForwardState,
                                  FinalState, UnwindState, EndState
<1>3. CASE PreUnpackSelectPackage
  <2>1. state' \in State
    BY <1>3, ExceptionStateType DEF PreUnpackSelectPackage, State
  <2>2. curstat' \in [Package -> Status]
    BY <1>3, StatusExcept, StatusValues DEF PreUnpackSelectPackage
  <2>3. /\ mfDst' \in [Package -> SUBSET (File \cup Dir)]
        /\ mfTmp' \in [Package -> SUBSET (File \cup Dir)]
    BY <1>3, ContentsType DEF PreUnpackSelectPackage, UseModule, ReplaceModule, UnpackAsUsual
  <2>4. moduleVersion' \in [Package -> Version \cup {0}]
    <3>1. ASSUME NEW p \in Package, NEW v, ModuleOnSystem(p, v)
          PROVE  FoundVersion(p) \in Version
      BY <3>1, UnpackAssumption DEF ModuleOnSystem, FoundVersion, FileData
    <3> QED
      BY <1>3, <3>1 DEF PreUnpackSelectPackage, UseModule, ReplaceModule, UnpackAsUsual
  <2>5. filesToUnpack' \subseteq File \cup Dir
    BY <1>3, ContentsType DEF PreUnpackSelectPackage, UseModule, ReplaceModule, UnpackAsUsual
  <2>6. /\ packagesToUnpack' \subseteq packagesToUnpack
        /\ packagesPreUnpacked' \subseteq packagesPreUnpacked \cup packagesToUnpack
        /\ packagesToRemove' \subseteq Package /\ existingModulePackages' \subseteq Package
        /\ packagesCannotProcess' \subseteq Package
        /\ pkgname' \in Package \cup {NoPackage}
        /\ filesToUnpack' # {} => pkgname' \in SelectedPackages
        /\ filesThatConflict' \subseteq File
    BY <1>3 DEF PreUnpackSelectPackage, UseModule, ReplaceModule, UnpackAsUsual
  <2>7. faults' \in Nat /\ failed' \subseteq Faults
    BY <1>3 DEF PreUnpackSelectPackage
  <2>8. UNCHANGED <<disk, sessionVars, fsVars, mfBak, packagesBeingUnpacked, packagesBeingRemoved,
                    filesBeingUnpacked, filesUnpacked, filesToRemove, filesBeingRemoved, dirVars>>
    BY <1>3 DEF PreUnpackSelectPackage
  <2> QED
    BY <2>1, <2>2, <2>3, <2>4, <2>5, <2>6, <2>7, <2>8
<1>4. CASE PreUnpackDone
  BY <1>4, ExceptionStateType DEF PreUnpackDone, State, MidState, PreState, ForwardState,
                                  FinalState, UnwindState, EndState
<1>5. CASE PreRemoveSelectPackage
  <2>1. curstat' \in [Package -> Status]
    <3>1. ASSUME NEW p \in Package, NEW s \in PkgState, curstat' = [curstat EXCEPT ![p].state = s]
          PROVE  curstat' \in [Package -> Status]
      BY <3>1, StatusExcept
    <3> QED
      BY <1>5, <3>1, StatusValues DEF PreRemoveSelectPackage, MarkedForRemoval
  <2>2. /\ filesToRemove' \subseteq File /\ filesThatConflict' \subseteq File
        /\ dirsToRemove' \subseteq Dir
    BY <1>5 DEF PreRemoveSelectPackage, FilesToGo, DirsToGo
  <2> QED
    BY <1>5, <2>1, <2>2 DEF PreRemoveSelectPackage
<1>6. CASE PreRemoveDone
  <2>1. state' \in State
    BY <1>6, ExceptionStateType DEF PreRemoveDone, State, MidState, ForwardState
  <2>2. UNCHANGED <<pkgname, fsVars, mfDst, mfBak, packagesToUnpack, packagesPreUnpacked,
                    packagesBeingUnpacked, packagesToRemove, packagesBeingRemoved,
                    packagesCannotProcess, moduleVersion, fileVars, sessionVars>>
    BY <1>6 DEF PreRemoveDone
  <2>3. curstat' \in [Package -> Status] /\ disk' \in [Package -> Status]
    BY <1>6 DEF PreRemoveDone, CommitStatus
  <2>4. /\ mfTmp' \in [Package -> SUBSET (File \cup Dir)]
        /\ existingModulePackages' \subseteq Package
    BY <1>6 DEF PreRemoveDone
  <2>5. faults' \in Nat /\ failed' \subseteq Faults
    BY <1>6 DEF PreRemoveDone
  <2> QED
    BY <2>1, <2>2, <2>3, <2>4, <2>5
<1>7. CASE CopyPostRemove
  BY <1>7, ExceptionStateType DEF CopyPostRemove, State, MidState, PreState, ForwardState,
                                  FinalState, UnwindState, EndState
<1>8. CASE RunPreRemoveTriggers
  BY <1>8, ExceptionStateType DEF RunPreRemoveTriggers, State, MidState, PreState, ForwardState,
                                  FinalState, UnwindState, EndState
<1>9. CASE RemoveFilesReplacedByDirs
  BY <1>9, ExceptionStateType DEF RemoveFilesReplacedByDirs, State, MidState, PreState,
                                  ForwardState, FinalState, UnwindState, EndState
<1>10. CASE UnpackFile
  <2>1. state' \in State
    BY <1>10, ExceptionStateType DEF UnpackFile, State
  <2>2. UNCHANGED <<pkgname, disk, dst, bak, dirs, mfVars, packageVars, filesUnpacked, removeVars,
                    emptyDirsToCreate, dirsToRemove, dirsRemoved, dirsCreated, sessionVars>>
    BY <1>10 DEF UnpackFile
  <2>3. curstat' \in [Package -> Status] /\ faults' \in Nat /\ failed' \subseteq Faults
    BY <1>10 DEF UnpackFile
  <2>4. tmp' \in SomeFile
    BY <1>10, NewFile DEF UnpackFile
  <2>5. /\ filesToUnpack' \subseteq filesToUnpack
        /\ filesBeingUnpacked' \subseteq File /\ emptyDirsToCheck' \subseteq Dir
    BY <1>10 DEF UnpackFile
  <2> QED
    BY <2>1, <2>2, <2>3, <2>4, <2>5
<1>11. CASE UnpackSelectPackage
  <2>1. state' \in State
    BY <1>11, ExceptionStateType DEF UnpackSelectPackage, State
  <2>2. UNCHANGED <<disk, dirs, packagesToUnpack, packagesToRemove, packagesBeingRemoved,
                    packagesCannotProcess, existingModulePackages, moduleVersion,
                    filesBeingUnpacked, filesUnpacked, removeVars, dirVars, sessionVars>>
    BY <1>11 DEF UnpackSelectPackage
  <2>3. curstat' \in [Package -> Status] /\ faults' \in Nat /\ failed' \subseteq Faults
    <3>1. ASSUME NEW f, NEW overwrite, NEW k, ReplaceFileFails(f, overwrite, k)
          PROVE  faults' \in Nat /\ failed' \subseteq Faults
      <4>1. NoFault \/ Fault(k)
        BY <3>1, ReplaceFailsOutcome
      <4> QED
        BY <4>1
    <3> QED
      BY <1>11, <3>1, SMTT(60) DEF UnpackSelectPackage, BackupStays
  <2>4. dst' \in SomeFile /\ bak' \in SomeFile
    <3> HIDE DEF SomeFile
    <3>1. ASSUME NEW f \in File, NEW overwrite, NEW k, ReplaceFileFails(f, overwrite, k)
          PROVE  dst' \in SomeFile /\ bak' \in SomeFile
      BY <3>1, ReplaceFailsType
    <3>2. ASSUME NEW p \in packagesPreUnpacked, NEW overwrite,
                 dst' = [dst EXCEPT ![ControlFile[p]] =
                           [owner |-> p, version |-> selstat[p].version]],
                 bak' \in {bak, BackUp(ControlFile[p], overwrite).bak}
          PROVE  dst' \in SomeFile /\ bak' \in SomeFile
      BY <3>2, ControlFileType, BackUpType, NewFile DEF SomeFile
    <3>3. PICK p \in packagesPreUnpacked :
            \/ UNCHANGED <<dst, bak>>
            \/ \E k : ReplaceFileFails(ControlFile[p], prevstat[p].state >= removed, k)
            \/ /\ dst' = [dst EXCEPT ![ControlFile[p]] =
                             [owner |-> p, version |-> selstat[p].version]]
               /\ bak' \in {bak, BackUp(ControlFile[p], prevstat[p].state >= removed).bak}
      BY <1>11, Zenon DEF UnpackSelectPackage, BackupStays
    <3> QED
      BY <3>1, <3>2, <3>3, ControlFileType
  <2>5. tmp' \in SomeFile
    BY <1>11, NewFile, ControlFileType DEF UnpackSelectPackage
  <2>6. /\ mfDst' \in [Package -> SUBSET (File \cup Dir)]
        /\ mfTmp' \in [Package -> SUBSET (File \cup Dir)]
        /\ mfBak' \in [Package -> SUBSET (File \cup Dir)]
    <3>1. ASSUME NEW p \in SelectedPackages
          PROVE  Merged(p, selstat[p].version) \subseteq File \cup Dir
      BY <3>1, ContentsType DEF Merged, ReadManifest
    <3>2. mfDst' \in [Package -> SUBSET (File \cup Dir)]
      BY <1>11, <3>1 DEF UnpackSelectPackage
    <3>3. mfTmp' \in [Package -> SUBSET (File \cup Dir)]
      BY <1>11, <3>1, ContentsType DEF UnpackSelectPackage
    <3>4. mfBak' \in [Package -> SUBSET (File \cup Dir)]
      BY <1>11, SMTT(60) DEF UnpackSelectPackage, ManifestLeft
    <3> QED
      BY <3>2, <3>3, <3>4
  <2>7. /\ filesToUnpack' \subseteq File \cup Dir
        /\ pkgname' \in SelectedPackages
    BY <1>11, ContentsType DEF UnpackSelectPackage
  <2>8. /\ packagesPreUnpacked' \subseteq packagesPreUnpacked
        /\ packagesBeingUnpacked' \subseteq packagesBeingUnpacked \cup packagesPreUnpacked
    BY <1>11 DEF UnpackSelectPackage
  <2> QED
    BY <2>1, <2>2, <2>3, <2>4, <2>5, <2>6, <2>7, <2>8
<1>12. CASE UnpackDone
  BY <1>12, ExceptionStateType DEF UnpackDone, State, MidState, PreState, ForwardState, FinalState,
                                   UnwindState, EndState
<1>13. CASE RunPreInstallTriggers
  BY <1>13, ExceptionStateType DEF RunPreInstallTriggers, State, MidState, PreState, ForwardState,
                                   FinalState, UnwindState, EndState
<1>14. CASE ReplaceFile
  <2>1. state' \in State
    BY <1>14, ExceptionStateType DEF ReplaceFile, State
  <2>2. UNCHANGED <<pkgname, disk, dirs, mfVars, packageVars, filesToUnpack, filesThatConflict,
                    dirVars, sessionVars>>
    BY <1>14 DEF ReplaceFile
  <2>3. curstat' \in [Package -> Status] /\ faults' \in Nat /\ failed' \subseteq Faults
    <3>1. ASSUME NEW f, NEW overwrite, NEW k, ReplaceFileFails(f, overwrite, k)
          PROVE  faults' \in Nat /\ failed' \subseteq Faults
      <4>1. NoFault \/ Fault(k)
        BY <3>1, ReplaceFailsOutcome
      <4> QED
        BY <4>1
    <3> QED
      BY <1>14, <3>1 DEF ReplaceFile, BackupStays
  <2>4. dst' \in SomeFile /\ bak' \in SomeFile
    <3> HIDE DEF SomeFile
    <3>1. ASSUME NEW f \in filesBeingUnpacked, NEW overwrite,
                 NEW k, ReplaceFileFails(f, overwrite, k)
          PROVE  dst' \in SomeFile /\ bak' \in SomeFile
      BY <3>1, ReplaceFailsType
    <3>2. ASSUME NEW f \in filesBeingUnpacked, NEW overwrite,
                 dst' = [dst EXCEPT ![f] = tmp[f]], bak' \in {bak, BackUp(f, overwrite).bak}
          PROVE  dst' \in SomeFile /\ bak' \in SomeFile
      BY <3>2, BackUpType DEF SomeFile
    <3> QED
      BY <1>14, <3>1, <3>2 DEF ReplaceFile, BackupStays
  <2>5. tmp' \in SomeFile
    BY <1>14 DEF ReplaceFile
  <2>6. /\ filesBeingRemoved' \subseteq File /\ filesToRemove' \subseteq File
        /\ filesUnpacked' \subseteq File /\ filesBeingUnpacked' \subseteq File
    BY <1>14 DEF ReplaceFile
  <2> QED
    BY <2>1, <2>2, <2>3, <2>4, <2>5, <2>6
<1>15. CASE ReplaceCheckEmptyDir
  BY <1>15, ExceptionStateType DEF ReplaceCheckEmptyDir, State, MidState, PreState, ForwardState,
                                   FinalState, UnwindState, EndState
<1>16. CASE ReplaceDone
  BY <1>16, ExceptionStateType DEF ReplaceDone, State, MidState, PreState, ForwardState,
                                   FinalState, UnwindState, EndState
<1>17. CASE RemoveFile
  <2>1. dst' \in SomeFile /\ bak' \in SomeFile
    BY <1>17 DEF RemoveFile, BackupStays
  <2>2. faults' \in Nat /\ failed' \subseteq Faults
    BY <1>17 DEF RemoveFile, BackupStays
  <2> QED
    BY <1>17, <2>1, <2>2 DEF RemoveFile
<1>18. CASE RemoveDir
  BY <1>18, ExceptionStateType DEF RemoveDir, State, MidState, PreState, ForwardState, FinalState,
                                   UnwindState, EndState
<1>19. CASE RemoveDone
  BY <1>19, ExceptionStateType DEF RemoveDone, State, MidState, PreState, ForwardState, FinalState,
                                   UnwindState, EndState
<1>20. CASE PostRemoveFile
  <2>1. bak' \in SomeFile
    BY <1>20 DEF PostRemoveFile, BackupStays
  <2>2. faults' \in Nat /\ failed' \subseteq Faults
    BY <1>20 DEF PostRemoveFile, BackupStays
  <2> QED
    BY <1>20, <2>1, <2>2 DEF PostRemoveFile
<1>21. CASE PostRemovePackage
  <2>1. curstat' \in [Package -> Status]
    <3>1. ASSUME NEW p \in Package, NEW s \in PkgState, curstat' = [curstat EXCEPT ![p].state = s]
          PROVE  curstat' \in [Package -> Status]
      BY <3>1, StatusExcept
    <3> QED
      BY <1>21, <3>1, StatusValues DEF PostRemovePackage
  <2>2. dst' \in SomeFile /\ bak' \in SomeFile
    <3>1. ASSUME NEW p \in Package, RemovePackageFiles(p)
          PROVE  dst' \in SomeFile /\ bak' \in SomeFile
      BY <3>1, RemovalOutcome, ControlFileType
    <3> QED
      BY <1>21, <3>1 DEF PostRemovePackage
  <2>3. /\ mfDst' \in [Package -> SUBSET (File \cup Dir)]
        /\ mfTmp' \in [Package -> SUBSET (File \cup Dir)]
        /\ mfBak' \in [Package -> SUBSET (File \cup Dir)]
        /\ faults' \in Nat /\ failed' \subseteq Faults
    <3>1. ASSUME NEW p \in Package, RemovePackageFiles(p)
          PROVE  /\ mfDst' \in [Package -> SUBSET (File \cup Dir)]
                 /\ mfTmp' \in [Package -> SUBSET (File \cup Dir)]
                 /\ mfBak' \in [Package -> SUBSET (File \cup Dir)]
                 /\ faults' \in Nat /\ failed' \subseteq Faults
      BY <3>1, RemovalOutcome
    <3> QED
      BY <1>21, <3>1 DEF PostRemovePackage
  <2>4. /\ packagesBeingRemoved' \subseteq packagesBeingRemoved
        /\ UNCHANGED <<state, pkgname, disk, tmp, dirs, packagesToUnpack, packagesPreUnpacked,
                       packagesBeingUnpacked, packagesToRemove, packagesCannotProcess,
                       existingModulePackages, moduleVersion, fileVars, sessionVars>>
    BY <1>21 DEF PostRemovePackage
  <2> QED
    BY <2>1, <2>2, <2>3, <2>4
<1>22. CASE PostRemoveDone
  BY <1>22, ExceptionStateType DEF PostRemoveDone, State, MidState, PreState, ForwardState,
                                   FinalState, UnwindState, EndState
<1>23. CASE CreateEmptyDir
  BY <1>23, ExceptionStateType DEF CreateEmptyDir, State, MidState, PreState, ForwardState,
                                   FinalState, UnwindState, EndState
<1>24. CASE CreateEmptyDirsDone
  BY <1>24, ExceptionStateType DEF CreateEmptyDirsDone, State, MidState, PreState, ForwardState,
                                   FinalState, UnwindState, EndState
<1>25. CASE PostUnpackPackage
  <2>1. state' \in State
    BY <1>25, ExceptionStateType DEF PostUnpackPackage, State
  <2>2. UNCHANGED <<pkgname, disk, dst, tmp, dirs, packagesToUnpack, packagesPreUnpacked,
                    packagesToRemove, packagesBeingRemoved, packagesCannotProcess,
                    existingModulePackages, moduleVersion, fileVars, sessionVars>>
    BY <1>25 DEF PostUnpackPackage
  <2>3. curstat' \in [Package -> Status]
    <3>1. ASSUME NEW p \in Package, NEW s \in PkgState, curstat' = [curstat EXCEPT ![p].state = s]
          PROVE  curstat' \in [Package -> Status]
      BY <3>1, StatusExcept
    <3> QED
      BY <1>25, <3>1, StatusValues DEF PostUnpackPackage
  <2>4. bak' \in SomeFile
    BY <1>25, ControlFileType DEF PostUnpackPackage
  <2>5. /\ mfDst' \in [Package -> SUBSET (File \cup Dir)]
        /\ mfTmp' \in [Package -> SUBSET (File \cup Dir)]
        /\ mfBak' \in [Package -> SUBSET (File \cup Dir)]
    BY <1>25 DEF PostUnpackPackage, ManifestLeft
  <2>6. /\ faults' \in Nat /\ failed' \subseteq Faults
        /\ packagesBeingUnpacked' \subseteq packagesBeingUnpacked
    BY <1>25 DEF PostUnpackPackage
  <2> QED
    BY <2>1, <2>2, <2>3, <2>4, <2>5, <2>6
<1>26. CASE PostUnpackDone
  <2>1. state' \in State
    BY <1>26, ExceptionStateType DEF PostUnpackDone, State, EndState
  <2>2. UNCHANGED <<pkgname, fsVars, mfBak, packagesToUnpack, packagesPreUnpacked,
                    packagesBeingUnpacked, packagesToRemove, packagesBeingRemoved,
                    packagesCannotProcess, moduleVersion, fileVars, sessionVars>>
    BY <1>26 DEF PostUnpackDone
  <2>3. curstat' \in [Package -> Status]
    <3>1. ASSUME NEW moved, NEW updated, UpdateExistingModules(moved, updated)
          PROVE  curstat' \in [Package -> Status]
      BY <3>1, StatusValues DEF UpdateExistingModules
    <3> QED
      BY <1>26, <3>1 DEF PostUnpackDone
  <2>4. disk' \in [Package -> Status]
    BY <1>26, <2>3 DEF PostUnpackDone, CommitStatus
  <2>5. /\ mfDst' \in [Package -> SUBSET (File \cup Dir)]
        /\ mfTmp' \in [Package -> SUBSET (File \cup Dir)]
        /\ existingModulePackages' \subseteq Package
    <3>1. ASSUME NEW moved, NEW updated, UpdateExistingModules(moved, updated)
          PROVE  /\ mfDst' \in [Package -> SUBSET (File \cup Dir)]
                 /\ mfTmp' \in [Package -> SUBSET (File \cup Dir)]
                 /\ existingModulePackages' \subseteq Package
      BY <3>1 DEF UpdateExistingModules
    <3> QED
      BY <1>26, <3>1 DEF PostUnpackDone
  <2>6. faults' \in Nat /\ failed' \subseteq Faults
    BY <1>26 DEF PostUnpackDone
  <2> QED
    BY <2>1, <2>2, <2>3, <2>4, <2>5, <2>6
<1>27. CASE UnwindCreateEmptyDir
  BY <1>27, ExceptionStateType DEF UnwindCreateEmptyDir, State, MidState, PreState, ForwardState,
                                   FinalState, UnwindState, EndState
<1>28. CASE UnwindCreateEmptyDirsDone
  BY <1>28, ExceptionStateType DEF UnwindCreateEmptyDirsDone, State, MidState, PreState,
                                   ForwardState, FinalState, UnwindState, EndState
<1>29. CASE UnwindReplaceFile
  <2>1. state' \in State
    BY <1>29, ExceptionStateType DEF UnwindReplaceFile, RestoreFileFails, State
  <2>2. dst' \in SomeFile /\ bak' \in SomeFile
    BY <1>29 DEF UnwindReplaceFile, RestoreFile, RestoreFileFails
  <2>3. curstat' \in [Package -> Status] /\ faults' \in Nat /\ failed' \subseteq Faults
    BY <1>29 DEF UnwindReplaceFile, RestoreFile, RestoreFileFails
  <2>4. filesBeingRemoved' \subseteq File /\ filesUnpacked' \subseteq File
    BY <1>29 DEF UnwindReplaceFile
  <2>5. UNCHANGED <<disk, sessionVars>>
    BY <1>29 DEF UnwindReplaceFile, RestoreFileFails
  <2> QED
    BY <1>29, <2>1, <2>2, <2>3, <2>4, <2>5 DEF UnwindReplaceFile
<1>30. CASE UnwindReplaceDone
  BY <1>30, ExceptionStateType DEF UnwindReplaceDone, State, MidState, PreState, ForwardState,
                                   FinalState, UnwindState, EndState
<1>31. CASE UnwindRemoveDir
  BY <1>31, ExceptionStateType DEF UnwindRemoveDir, State, MidState, PreState, ForwardState,
                                   FinalState, UnwindState, EndState
<1>32. CASE UnwindRemoveDone
  BY <1>32, ExceptionStateType DEF UnwindRemoveDone, State, MidState, PreState, ForwardState,
                                   FinalState, UnwindState, EndState
<1>33. CASE UnwindPreInstallTriggers
  BY <1>33, ExceptionStateType DEF UnwindPreInstallTriggers, State, MidState, PreState,
                                   ForwardState, FinalState, UnwindState, EndState
<1>34. CASE UnwindUnpackFile
  BY <1>34, ExceptionStateType DEF UnwindUnpackFile, State, MidState, PreState, ForwardState,
                                   FinalState, UnwindState, EndState
<1>35. CASE UnwindUnpackPackage
  <2>1. state' \in State
    BY <1>35, ExceptionStateType DEF UnwindUnpackPackage, RestoreFileFails, State
  <2>2. dst' \in SomeFile /\ bak' \in SomeFile
    BY <1>35, ControlFileType DEF UnwindUnpackPackage, RestoreFile, RestoreFileFails
  <2>3. curstat' \in [Package -> Status] /\ faults' \in Nat /\ failed' \subseteq Faults
    BY <1>35 DEF UnwindUnpackPackage, RestoreFile, RestoreFileFails
  <2>4. /\ packagesPreUnpacked' \subseteq packagesPreUnpacked \cup packagesBeingUnpacked
        /\ packagesBeingUnpacked' \subseteq packagesBeingUnpacked
    BY <1>35 DEF UnwindUnpackPackage
  <2>5. UNCHANGED <<disk, sessionVars>>
    BY <1>35 DEF UnwindUnpackPackage, RestoreFileFails
  <2> QED
    BY <1>35, <2>1, <2>2, <2>3, <2>4, <2>5 DEF UnwindUnpackPackage
<1>36. CASE UnwindUnpackDone
  BY <1>36, ExceptionStateType DEF UnwindUnpackDone, State, MidState, PreState, ForwardState,
                                   FinalState, UnwindState, EndState
<1>37. CASE UnwindRemoveFilesReplacedByDirs
  BY <1>37, ExceptionStateType DEF UnwindRemoveFilesReplacedByDirs, State, MidState, PreState,
                                   ForwardState, FinalState, UnwindState, EndState
<1>38. CASE UnwindPreRemoveTriggers
  BY <1>38, ExceptionStateType DEF UnwindPreRemoveTriggers, State, MidState, PreState,
                                   ForwardState, FinalState, UnwindState, EndState
<1>39. CASE UnwindCopyPostRemove
  BY <1>39, ExceptionStateType DEF UnwindCopyPostRemove, State, MidState, PreState, ForwardState,
                                   FinalState, UnwindState, EndState
<1>40. CASE UnwindPreRemovePackage
  <2>1. curstat' \in [Package -> Status]
    BY <1>40, StatusExcept DEF UnwindPreRemovePackage, Restored
  <2> QED
    BY <1>40, <2>1 DEF UnwindPreRemovePackage
<1>41. CASE UnwindPreRemoveDone
  BY <1>41, ExceptionStateType DEF UnwindPreRemoveDone, State, MidState, PreState, ForwardState,
                                   FinalState, UnwindState, EndState
<1>42. CASE UnwindPreUnpackPackage
  <2>1. curstat' \in [Package -> Status]
    BY <1>42, StatusExcept, StatusValues DEF UnwindPreUnpackPackage
  <2> QED
    BY <1>42, <2>1 DEF UnwindPreUnpackPackage
<1>43. CASE UnwindPreUnpackDone
  <2>1. state' \in State
    BY <1>43, ExceptionStateType DEF UnwindPreUnpackDone, State, EndState
  <2>2. disk' \in [Package -> Status]
    BY <1>43 DEF UnwindPreUnpackDone, CommitStatus
  <2>3. curstat' \in [Package -> Status] /\ UNCHANGED sessionVars
    BY <1>43 DEF UnwindPreUnpackDone
  <2> QED
    BY <1>43, <2>1, <2>2, <2>3 DEF UnwindPreUnpackDone
<1>44. CASE Begin
  <2>1. /\ selstat' \in [Package -> Status]
        /\ \A p \in Package : selstat'[p].state >= unpacked => selstat'[p].version \in Version
    BY <1>44, StatusesType DEF Begin, Select
  <2>2. packagesToUnpack' \subseteq SelectedPackages' /\ packagesToRemove' \subseteq Package
    BY <1>44 DEF Begin, NewUnpack, UnpackReq
  <2>3. state' \in State /\ sessions' \in Nat
    BY <1>44 DEF Begin, Select, NewUnpack, State, PreState
  <2>4. moduleVersion' \in [Package -> Version \cup {0}]
    BY <1>44 DEF Begin, Select, NewUnpack, EmptySets
  <2>5. UNCHANGED <<statVars, fsVars, mfVars, faults, failed>>
    BY <1>44 DEF Begin, NewUnpack
  <2>6. TypeOK'
    BY <1>44, <2>1, <2>2, <2>3, <2>4, <2>5 DEF Begin, Select, NewUnpack, EmptySets
  <2>7. SelectedInv'
    BY <1>44, <2>1, <2>2 DEF Begin, Select, NewUnpack, EmptySets
  <2> QED
    BY <2>6, <2>7
<1>45. CASE Finish
  <2>1. TypeOK'
    BY <1>45 DEF Finish, NoSession, EmptySets, State, EndState
  <2>2. SelectedInv'
    BY <1>45 DEF Finish, NoSession, EmptySets
  <2> QED
    BY <2>1, <2>2
<1>46. CASE Crash
  <2>1. TypeOK'
    BY <1>46 DEF Crash, NoSession, EmptySets, State, EndState
  <2>2. SelectedInv'
    BY <1>46 DEF Crash, NoSession, EmptySets
  <2> QED
    BY <2>1, <2>2
<1>47. CASE UNCHANGED vars
  BY <1>47
<1> QED
  BY <1>1, <1>2, <1>3, <1>4, <1>5, <1>6, <1>7, <1>8, <1>9, <1>10, <1>11, <1>12, <1>13, <1>14,
     <1>15, <1>16, <1>17, <1>18, <1>19, <1>20, <1>21, <1>22, <1>23, <1>24, <1>25, <1>26, <1>27,
     <1>28, <1>29, <1>30, <1>31, <1>32, <1>33, <1>34, <1>35, <1>36, <1>37, <1>38, <1>39, <1>40,
     <1>41, <1>42, <1>43, <1>44, <1>45, <1>46, <1>47
     DEF Next, Poll, PrePoll, ForwardPoll, FinalPoll, UnwindPoll

LEMMA TypeSpec == Spec => []TypeInv
  BY TypeInit, TypeNext, PTL DEF Spec

\* Type correctness (TypeOK): whatever fails and in whatever order the sets are
\* processed, they only ever hold packages, files or directories, the status
\* table holds statuses, and the handler leads to a state of the machine.
THEOREM TypeCorrect == Spec => []TypeOK
<1>1. TypeInv => TypeOK
  BY DEF TypeInv
<1> QED
  BY <1>1, TypeSpec, PTL

-------------------------------------------------------------------------------

\* What pre_unpack and pre_remove have put into the sets is half-unpacked in
\* memory, for the commit at the end of pre_remove to write.
HalfUnpackedInMemory ==
  state \in PreState =>
    /\ packagesBeingUnpacked = {}
    /\ \A p \in packagesPreUnpacked \cup packagesBeingRemoved : curstat[p].state = half_unpacked

HalfInv == TypeInv /\ HalfUnpackedInMemory /\ HalfUnpackedOnDisk

LEMMA HalfInit == Init => HalfInv
  BY TypeInit DEF Init, HalfInv, HalfUnpackedInMemory, HalfUnpackedOnDisk, PreState, MidState,
                  ForwardState, FinalState, UnwindState

\* No poll after pre_remove adds a package to the sets; the status file is
\* written again only at the end.
LEMMA HalfNext == HalfInv /\ [Next]_vars => HalfInv'
<1> SUFFICES ASSUME HalfInv, [Next]_vars
             PROVE  HalfUnpackedInMemory' /\ HalfUnpackedOnDisk'
  BY TypeNext DEF HalfInv
<1> USE DEF HalfInv, HalfUnpackedInMemory, HalfUnpackedOnDisk, vars, statVars,
            packageVars, Throw, ThrowPre, Progress, Verdict,
            ExceptionState, State, PreState, MidState, ForwardState, FinalState, UnwindState,
            EndState
<1>1. CASE PreUnpackCheckFile
  BY <1>1 DEF PreUnpackCheckFile
<1>2. CASE PreUnpackCheckEmptyDir
  BY <1>2 DEF PreUnpackCheckEmptyDir
<1>3. CASE PreUnpackSelectPackage
  <2>1. \A q \in Package : curstat'[q] = curstat[q] \/ curstat'[q].state = half_unpacked \/ state' = "fail"
    BY <1>3 DEF PreUnpackSelectPackage, TypeInv, TypeOK
  <2>2. ASSUME NEW p \in packagesToUnpack, state' = "pre_unpack",
               curstat' = [curstat EXCEPT ![p] = [state |-> half_unpacked, version |-> selstat[p].version]]
        PROVE  curstat'[p].state = half_unpacked
    BY <2>2 DEF TypeInv, TypeOK
  <2> QED
    BY <1>3, <2>1, <2>2 DEF PreUnpackSelectPackage, UseModule, ReplaceModule, UnpackAsUsual,
                            TypeInv, TypeOK
<1>4. CASE PreUnpackDone
  BY <1>4 DEF PreUnpackDone
<1>5. CASE PreRemoveSelectPackage
  <2>1. ASSUME NEW p \in packagesToRemove, curstat' = MarkedForRemoval(p)
        PROVE  /\ curstat'[p].state = half_unpacked
               /\ \A q \in Package : q # p => curstat'[q] = curstat[q]
    BY <2>1 DEF MarkedForRemoval, TypeInv, TypeOK, Status
  <2> QED
    BY <1>5, <2>1 DEF PreRemoveSelectPackage, TypeInv, TypeOK
<1>6. CASE PreRemoveDone
  BY <1>6 DEF PreRemoveDone, CommitStatus
<1>7. CASE CopyPostRemove
  BY <1>7 DEF CopyPostRemove
<1>8. CASE RunPreRemoveTriggers
  BY <1>8 DEF RunPreRemoveTriggers
<1>9. CASE RemoveFilesReplacedByDirs
  BY <1>9 DEF RemoveFilesReplacedByDirs
<1>10. CASE UnpackFile
  BY <1>10 DEF UnpackFile
<1>11. CASE UnpackSelectPackage
  BY <1>11 DEF UnpackSelectPackage
<1>12. CASE UnpackDone
  BY <1>12 DEF UnpackDone
<1>13. CASE RunPreInstallTriggers
  BY <1>13 DEF RunPreInstallTriggers
<1>14. CASE ReplaceFile
  BY <1>14 DEF ReplaceFile
<1>15. CASE ReplaceCheckEmptyDir
  BY <1>15 DEF ReplaceCheckEmptyDir
<1>16. CASE ReplaceDone
  BY <1>16 DEF ReplaceDone
<1>17. CASE RemoveFile
  BY <1>17 DEF RemoveFile
<1>18. CASE RemoveDir
  BY <1>18 DEF RemoveDir
<1>19. CASE RemoveDone
  BY <1>19 DEF RemoveDone
<1>20. CASE PostRemoveFile
  BY <1>20 DEF PostRemoveFile
<1>21. CASE PostRemovePackage
  BY <1>21 DEF PostRemovePackage
<1>22. CASE PostRemoveDone
  BY <1>22 DEF PostRemoveDone
<1>23. CASE CreateEmptyDir
  BY <1>23 DEF CreateEmptyDir
<1>24. CASE CreateEmptyDirsDone
  BY <1>24 DEF CreateEmptyDirsDone
<1>25. CASE PostUnpackPackage
  BY <1>25 DEF PostUnpackPackage
<1>26. CASE PostUnpackDone
  BY <1>26 DEF PostUnpackDone, UpdateExistingModules
<1>27. CASE UnwindCreateEmptyDir
  BY <1>27 DEF UnwindCreateEmptyDir
<1>28. CASE UnwindCreateEmptyDirsDone
  BY <1>28 DEF UnwindCreateEmptyDirsDone
<1>29. CASE UnwindReplaceFile
  BY <1>29 DEF UnwindReplaceFile, RestoreFileFails
<1>30. CASE UnwindReplaceDone
  BY <1>30 DEF UnwindReplaceDone
<1>31. CASE UnwindRemoveDir
  BY <1>31 DEF UnwindRemoveDir
<1>32. CASE UnwindRemoveDone
  BY <1>32 DEF UnwindRemoveDone
<1>33. CASE UnwindPreInstallTriggers
  BY <1>33 DEF UnwindPreInstallTriggers
<1>34. CASE UnwindUnpackFile
  BY <1>34 DEF UnwindUnpackFile
<1>35. CASE UnwindUnpackPackage
  BY <1>35 DEF UnwindUnpackPackage, RestoreFileFails
<1>36. CASE UnwindUnpackDone
  BY <1>36 DEF UnwindUnpackDone
<1>37. CASE UnwindRemoveFilesReplacedByDirs
  BY <1>37 DEF UnwindRemoveFilesReplacedByDirs
<1>38. CASE UnwindPreRemoveTriggers
  BY <1>38 DEF UnwindPreRemoveTriggers
<1>39. CASE UnwindCopyPostRemove
  BY <1>39 DEF UnwindCopyPostRemove
<1>40. CASE UnwindPreRemovePackage
  BY <1>40 DEF UnwindPreRemovePackage
<1>41. CASE UnwindPreRemoveDone
  BY <1>41 DEF UnwindPreRemoveDone
<1>42. CASE UnwindPreUnpackPackage
  BY <1>42 DEF UnwindPreUnpackPackage
<1>43. CASE UnwindPreUnpackDone
  BY <1>43 DEF UnwindPreUnpackDone
<1>44. CASE Begin
  BY <1>44 DEF Begin, Select, NewUnpack, EmptySets
<1>45. CASE Finish
  BY <1>45 DEF Finish, NoSession, EmptySets
<1>46. CASE Crash
  BY <1>46 DEF Crash, NoSession, EmptySets
<1>47. CASE UNCHANGED vars
  BY <1>47
<1> QED
  BY <1>1, <1>2, <1>3, <1>4, <1>5, <1>6, <1>7, <1>8, <1>9, <1>10, <1>11, <1>12, <1>13, <1>14,
     <1>15, <1>16, <1>17, <1>18, <1>19, <1>20, <1>21, <1>22, <1>23, <1>24, <1>25, <1>26, <1>27,
     <1>28, <1>29, <1>30, <1>31, <1>32, <1>33, <1>34, <1>35, <1>36, <1>37, <1>38, <1>39, <1>40,
     <1>41, <1>42, <1>43, <1>44, <1>45, <1>46, <1>47
     DEF Next, Poll, PrePoll, ForwardPoll, FinalPoll, UnwindPoll

\* From the first change on the disc until the final commit, the packages in
\* the session are half-unpacked in the status file (HalfUnpackedOnDisk): a
\* machine that stops there does not start again with a package on record as
\* installed, or as gone, whose files have been moved.
THEOREM HalfUnpacked == Spec => []HalfUnpackedOnDisk
<1>1. HalfInv => HalfUnpackedOnDisk
  BY DEF HalfInv
<1> QED
  BY <1>1, HalfInit, HalfNext, PTL DEF Spec

-------------------------------------------------------------------------------
\* The control files are dealt with on their own: no other set has them.
ControlsApart ==
  \A p \in Package :
    /\ ControlFile[p] \notin filesToUnpack \cup filesBeingUnpacked \cup filesUnpacked \cup filesToRemove
    /\ \A q \in Package : ControlFile[p] \notin mfDst[q] \cup mfTmp[q] \cup mfBak[q]

FinalCommitted == state \in FinalState => committed

\* What may be unwound: a file that was there is in its backup.
BackedUp ==
  ~committed =>
    /\ \A f \in filesUnpacked : orig[f] \in {NoFile, bak[f]}
    /\ \A p \in packagesBeingUnpacked : orig[ControlFile[p]] \in {NoFile, bak[ControlFile[p]]}

\* On the way forward, the files that have not been dealt with yet are at their
\* destinations.
Changed == filesUnpacked \cup filesBeingRemoved
Untouched(f) == f \notin Changed /\ \A p \in packagesBeingUnpacked : f # ControlFile[p]

InPlace ==
  state \in PreState \cup ForwardState =>
    /\ \A f \in File : Untouched(f) => dst[f] = orig[f]
    /\ (filesBeingUnpacked \cup filesToRemove) \cap Changed = {}
    /\ packagesPreUnpacked \cap packagesBeingUnpacked = {}
    /\ state \notin {"replace", "remove"} => Changed = {}
    /\ state \in PreState => packagesBeingUnpacked = {}
    /\ state = "remove" => filesBeingUnpacked = {}

RecoverInv ==
  TypeInv /\ ControlsApart /\ FinalCommitted /\ BackedUp /\ InPlace /\ FilesRecoverable

LEMMA ControlApartFromContents ==
  \A p, q \in Package, v \in Version : ControlFile[p] \notin Contents[q][v]
  BY UnpackAssumption

LEMMA RecoverInit == Init => RecoverInv
<1> SUFFICES ASSUME Init PROVE RecoverInv
  OBVIOUS
<1>1. TypeInv
  BY TypeInit
<1>2. \A p \in Package : curstat[p].state = installed => curstat[p].version \in Version
  BY StatusesType DEF Init, installed, unpacked
<1>3. ControlsApart
  BY <1>2, ControlApartFromContents DEF Init, ControlsApart
<1> QED
  BY <1>1, <1>3 DEF Init, RecoverInv, FinalCommitted, BackedUp, InPlace, FilesRecoverable,
                    PreState, ForwardState, FinalState

LEMMA RecoverNext == RecoverInv /\ [Next]_vars => RecoverInv'
<1> SUFFICES ASSUME RecoverInv, [Next]_vars
             PROVE  (ControlsApart /\ FinalCommitted /\ BackedUp /\ InPlace /\ FilesRecoverable)'
  BY TypeNext DEF RecoverInv
<1> USE ControlApartFromContents
    DEF RecoverInv, ControlsApart, FinalCommitted, BackedUp, InPlace, Untouched, Changed,
        FilesRecoverable, vars, statVars, fsVars, mfVars, packageVars, unpackVars, removeVars,
        dirVars, fileVars, sessionVars, Throw, ThrowPre, Progress, Verdict,
        ExceptionState, State, PreState, MidState, ForwardState, FinalState, UnwindState, EndState
<1>1. CASE PreUnpackCheckFile
  BY <1>1 DEF PreUnpackCheckFile
<1>2. CASE PreUnpackCheckEmptyDir
  BY <1>2 DEF PreUnpackCheckEmptyDir
<1>3. CASE PreUnpackSelectPackage
  <2>1. ASSUME NEW p \in packagesToUnpack
        PROVE  \A q \in Package : ControlFile[q] \notin Contents[p][selstat[p].version]
    BY <2>1 DEF TypeInv, TypeOK, SelectedInv, SelectedPackages
  <2>2. \A p \in Package : ControlFile[p] \notin filesToUnpack'
    BY <1>3, <2>1 DEF PreUnpackSelectPackage, UseModule, ReplaceModule, UnpackAsUsual
  <2>3. \A p, q \in Package : ControlFile[p] \notin mfDst'[q] \cup mfTmp'[q]
    BY <1>3, <2>1 DEF PreUnpackSelectPackage, UseModule, ReplaceModule, UnpackAsUsual, TypeInv,
                      TypeOK
  <2>4. UNCHANGED <<dst, bak, orig, committed, mfBak, packagesBeingUnpacked, filesBeingUnpacked,
                    filesUnpacked, filesToRemove, filesBeingRemoved>>
    BY <1>3 DEF PreUnpackSelectPackage
  <2>5. state = "pre_unpack" /\ state' \in {"pre_unpack", "fail"}
    BY <1>3 DEF PreUnpackSelectPackage
  <2> QED
    BY <2>2, <2>3, <2>4, <2>5
<1>4. CASE PreUnpackDone
  BY <1>4 DEF PreUnpackDone
<1>5. CASE PreRemoveSelectPackage
  <2>1. \A p \in Package : ControlFile[p] \notin filesToRemove'
    BY <1>5 DEF PreRemoveSelectPackage, ReadManifest, FilesToGo, TypeInv, TypeOK
  <2>2. UNCHANGED <<state, dst, bak, orig, committed, mfVars, packagesPreUnpacked,
                    packagesBeingUnpacked, unpackVars, filesBeingRemoved>>
    BY <1>5 DEF PreRemoveSelectPackage
  <2>3. state = "pre_remove"
    BY <1>5 DEF PreRemoveSelectPackage
  <2> QED
    BY <2>1, <2>2, <2>3
<1>6. CASE PreRemoveDone
  BY <1>6 DEF PreRemoveDone, CommitStatus
<1>7. CASE CopyPostRemove
  BY <1>7 DEF CopyPostRemove
<1>8. CASE RunPreRemoveTriggers
  BY <1>8 DEF RunPreRemoveTriggers
<1>9. CASE RemoveFilesReplacedByDirs
  BY <1>9 DEF RemoveFilesReplacedByDirs
<1>10. CASE UnpackFile
  BY <1>10 DEF UnpackFile
<1>11. CASE UnpackSelectPackage
  <2>1. /\ UNCHANGED <<orig, committed, filesBeingUnpacked, filesUnpacked, removeVars>>
        /\ state = "unpack" /\ state' \in {"unpack", "unwind_unpack"} /\ Changed = {}
    BY <1>11 DEF UnpackSelectPackage
  <2>2. PICK p \in packagesPreUnpacked :
          LET c == ControlFile[p]  overwrite == prevstat[p].state >= removed IN
          \/ /\ state' = "unwind_unpack"
             /\ UNCHANGED <<dst, bak, packagesPreUnpacked, packagesBeingUnpacked>>
          \/ /\ \E k : ReplaceFileFails(c, overwrite, k)
             /\ state' = "unwind_unpack"
             /\ UNCHANGED <<packagesPreUnpacked, packagesBeingUnpacked>>
          \/ /\ dst' = [dst EXCEPT ![c] = [owner |-> p, version |-> selstat[p].version]]
             /\ \/ Replaceable(c, overwrite) /\ bak' = BackUp(c, overwrite).bak
                \/ dst[c] = NoFile /\ UNCHANGED bak
             /\ \/ /\ state' = "unwind_unpack"
                   /\ UNCHANGED <<packagesPreUnpacked, packagesBeingUnpacked>>
                \/ /\ packagesBeingUnpacked' = packagesBeingUnpacked \cup {p}
                   /\ packagesPreUnpacked' = packagesPreUnpacked \ {p}
    BY <1>11, SMTT(60) DEF UnpackSelectPackage, BackupStays
  <2>3. /\ p \in Package /\ ControlFile[p] \in File
        /\ p \notin packagesBeingUnpacked
        /\ \A q \in Package : q # p => ControlFile[q] # ControlFile[p] /\ ControlFile[q] \in File
    BY <2>1, UnpackAssumption DEF TypeInv, TypeOK
  <2>4. dst[ControlFile[p]] = orig[ControlFile[p]]
    BY <2>1, <2>3 DEF TypeInv, TypeOK
  <2>5. \A g \in File : g # ControlFile[p] => dst'[g] = dst[g] /\ bak'[g] = bak[g]
    BY <2>2, <2>3, ReplaceFailsOutcome DEF TypeInv, TypeOK, SomeFile, BackUp
  <2>6. /\ orig[ControlFile[p]] \in {NoFile, dst'[ControlFile[p]], bak'[ControlFile[p]]}
        /\ p \in packagesBeingUnpacked' => orig[ControlFile[p]] \in {NoFile, bak'[ControlFile[p]]}
    BY <2>2, <2>3, <2>4, ReplaceFailsOutcome DEF TypeInv, TypeOK, SomeFile, BackUp, Replaceable
  <2>7. /\ packagesBeingUnpacked' \subseteq packagesBeingUnpacked \cup {p}
        /\ packagesPreUnpacked' \subseteq packagesPreUnpacked
        /\ packagesPreUnpacked' \cap packagesBeingUnpacked' = {}
        /\ state' = "unpack" => p \in packagesBeingUnpacked' /\ packagesBeingUnpacked \subseteq packagesBeingUnpacked'
    BY <2>1, <2>2, <2>3
  <2>8. ControlsApart'
    <3>1. ASSUME NEW q \in packagesPreUnpacked
          PROVE  /\ q \in Package
                 /\ \A r \in Package : /\ ControlFile[r] \notin Contents[q][selstat[q].version]
                                       /\ ControlFile[r] \notin Merged(q, selstat[q].version)
      BY <3>1 DEF TypeInv, TypeOK, SelectedInv, SelectedPackages, Merged, ReadManifest
    <3>2. PICK q \in packagesPreUnpacked :
            LET v == selstat[q].version IN
            /\ filesToUnpack' \in {filesToUnpack, Contents[q][v]}
            /\ mfDst' \in {mfDst, [mfDst EXCEPT ![q] = {}], [mfDst EXCEPT ![q] = Merged(q, v)]}
            /\ mfTmp' \in {mfTmp, [mfTmp EXCEPT ![q] = Merged(q, v)], [mfTmp EXCEPT ![q] = Contents[q][v]]}
            /\ mfBak' \in {mfBak, [mfBak EXCEPT ![q] = {}], [mfBak EXCEPT ![q] = mfDst[q]],
                          [mfBak EXCEPT ![q] = mfBak[q]]}
      BY <1>11, SMTT(60) DEF UnpackSelectPackage, ManifestLeft
    <3>3. \A r, x \in Package : ControlFile[r] \notin mfDst'[x]
      BY <3>1, <3>2 DEF TypeInv, TypeOK
    <3>4. \A r, x \in Package : ControlFile[r] \notin mfTmp'[x]
      BY <3>1, <3>2 DEF TypeInv, TypeOK
    <3>5. \A r, x \in Package : ControlFile[r] \notin mfBak'[x]
      BY <3>1, <3>2 DEF TypeInv, TypeOK
    <3> QED
      BY <2>1, <3>1, <3>2, <3>3, <3>4, <3>5
  <2>9. BackedUp'
    BY <2>1, <2>3, <2>5, <2>6, <2>7 DEF TypeInv, TypeOK
  <2>10. InPlace'
    BY <2>1, <2>3, <2>5, <2>7
  <2>11. FilesRecoverable' /\ FinalCommitted'
    BY <2>1, <2>3, <2>5, <2>6
  <2> QED
    BY <2>8, <2>9, <2>10, <2>11
<1>12. CASE UnpackDone
  BY <1>12 DEF UnpackDone
<1>13. CASE RunPreInstallTriggers
  BY <1>13 DEF RunPreInstallTriggers
<1>14. CASE ReplaceFile
  <2>1. UNCHANGED <<orig, committed, mfVars, packageVars, filesToUnpack>> /\ state = "replace"
    BY <1>14 DEF ReplaceFile
  <2>2. PICK f \in filesBeingUnpacked :
          LET overwrite == f \in filesToRemove IN
          \/ /\ dst' = [dst EXCEPT ![f] = tmp[f]]
             /\ \/ Replaceable(f, overwrite) /\ bak' = BackUp(f, overwrite).bak
                \/ dst[f] = NoFile /\ UNCHANGED bak
             /\ filesBeingRemoved' = IF overwrite THEN filesBeingRemoved \cup {f} ELSE filesBeingRemoved
             /\ filesToRemove' = filesToRemove \ {f}
             /\ filesUnpacked' = filesUnpacked \cup {f}
             /\ filesBeingUnpacked' = filesBeingUnpacked \ {f}
             /\ state' = state
          \/ /\ \E k : ReplaceFileFails(f, overwrite, k)
             /\ state' = "unwind_replace"
             /\ UNCHANGED <<filesBeingRemoved, filesToRemove, filesUnpacked, filesBeingUnpacked>>
    BY <1>14, SMTT(60) DEF ReplaceFile, BackupStays
  <2>3. /\ f \in File /\ f \notin Changed
        /\ \A p \in Package : f # ControlFile[p]
    BY <2>1 DEF TypeInv, TypeOK
  <2>4. dst[f] = orig[f]
    BY <2>1, <2>3 DEF TypeInv, TypeOK
  <2>5. \A g \in File : g # f => dst'[g] = dst[g] /\ bak'[g] = bak[g]
    BY <2>2, <2>3, ReplaceFailsOutcome DEF TypeInv, TypeOK, SomeFile, BackUp
  <2>6. CASE state' = state
    <3>1. orig[f] \in {NoFile, bak'[f]}
      BY <2>1, <2>2, <2>3, <2>4, <2>6 DEF TypeInv, TypeOK, SomeFile, BackUp, Replaceable
    <3>2. /\ filesToRemove' = filesToRemove \ {f}
          /\ filesUnpacked' = filesUnpacked \cup {f}
          /\ filesBeingUnpacked' = filesBeingUnpacked \ {f}
          /\ filesBeingRemoved' \in {filesBeingRemoved, filesBeingRemoved \cup {f}}
      BY <2>1, <2>2, <2>6
    <3> QED
      BY <2>1, <2>3, <2>5, <2>6, <3>1, <3>2, ControlFileType DEF TypeInv, TypeOK
  <2>7. CASE state' = "unwind_replace"
    <3>1. orig[f] \in {dst'[f], bak'[f]}
      BY <2>1, <2>2, <2>3, <2>4, <2>7, ReplaceFailsOutcome DEF TypeInv, TypeOK, SomeFile, BackUp
    <3>2. UNCHANGED <<filesBeingRemoved, filesToRemove, filesUnpacked, filesBeingUnpacked>>
      BY <2>1, <2>2, <2>7
    <3> QED
      BY <2>1, <2>3, <2>5, <2>7, <3>1, <3>2, ControlFileType DEF TypeInv, TypeOK
  <2> QED
    BY <2>2, <2>6, <2>7
<1>15. CASE ReplaceCheckEmptyDir
  BY <1>15 DEF ReplaceCheckEmptyDir
<1>16. CASE ReplaceDone
  BY <1>16 DEF ReplaceDone
<1>17. CASE RemoveFile
  <2>1. PICK f \in filesToRemove :
          /\ \/ dst' = [dst EXCEPT ![f] = NoFile] /\ bak' = [bak EXCEPT ![f] = dst[f]]
             \/ bak' \in {bak, [bak EXCEPT ![f] = NoFile]} /\ dst' = dst
          /\ filesBeingRemoved' = filesBeingRemoved \cup {f}
          /\ filesToRemove' = filesToRemove \ {f}
    BY <1>17 DEF RemoveFile, BackupStays
  <2>2. UNCHANGED <<state, orig, committed, mfVars, packageVars, unpackVars>> /\ state = "remove"
    BY <1>17 DEF RemoveFile
  <2>3. f \in File /\ f \notin Changed /\ \A p \in Package : f # ControlFile[p]
    BY <2>2 DEF TypeInv, TypeOK
  <2>4. dst[f] = orig[f]
    BY <2>2, <2>3 DEF TypeInv, TypeOK
  <2>5. /\ dst'[f] = orig[f] \/ bak'[f] = orig[f]
        /\ \A g \in File : g # f => dst'[g] = dst[g] /\ bak'[g] = bak[g]
    BY <2>1, <2>3, <2>4 DEF TypeInv, TypeOK, SomeFile
  <2>6. ControlsApart' /\ FinalCommitted'
    BY <2>1, <2>2
  <2>7. BackedUp'
    BY <2>2, <2>3, <2>5, ControlFileType DEF TypeInv, TypeOK
  <2>8. InPlace'
    <3>1. \A g \in File : Untouched(g)' => g # f /\ Untouched(g)
      BY <2>1, <2>2
    <3>2. (filesBeingUnpacked' \cup filesToRemove') \cap Changed' = {}
      BY <2>1, <2>2, <2>3
    <3> QED
      BY <2>2, <2>5, <3>1, <3>2
  <2>9. FilesRecoverable'
    BY <2>2, <2>3, <2>5
  <2> QED
    BY <2>6, <2>7, <2>8, <2>9
<1>18. CASE RemoveDir
  BY <1>18 DEF RemoveDir
<1>19. CASE RemoveDone
  BY <1>19 DEF RemoveDone
<1>20. CASE PostRemoveFile
  BY <1>20 DEF PostRemoveFile
<1>21. CASE PostRemovePackage
  <2>1. \A p, q \in Package : ControlFile[p] \notin mfDst'[q] \cup mfTmp'[q] \cup mfBak'[q]
    <3>1. ASSUME NEW r \in Package, RemovePackageFiles(r)
          PROVE  \A p, q \in Package : ControlFile[p] \notin mfDst'[q] \cup mfTmp'[q] \cup mfBak'[q]
      BY <3>1, RemovalOutcome DEF TypeInv, TypeOK
    <3> QED
      BY <1>21, <3>1 DEF PostRemovePackage, TypeInv, TypeOK
  <2>2. UNCHANGED <<state, orig, committed, unpackVars, removeVars>>
    BY <1>21 DEF PostRemovePackage
  <2>3. state = "post_remove"
    BY <1>21 DEF PostRemovePackage
  <2> QED
    BY <2>1, <2>2, <2>3
<1>22. CASE PostRemoveDone
  BY <1>22 DEF PostRemoveDone
<1>23. CASE CreateEmptyDir
  <2>1. UNCHANGED <<dst, bak, orig, committed, mfVars, packagesBeingUnpacked, unpackVars,
                    removeVars>>
    BY <1>23 DEF CreateEmptyDir
  <2>2. committed /\ state' \in {"create_empty_dirs", "unwind_create_empty_dirs"}
    BY <1>23 DEF CreateEmptyDir
  <2> QED
    BY <2>1, <2>2
<1>24. CASE CreateEmptyDirsDone
  BY <1>24 DEF CreateEmptyDirsDone
<1>25. CASE PostUnpackPackage
  <2>1. \A p, q \in Package : ControlFile[p] \notin mfDst'[q] \cup mfTmp'[q] \cup mfBak'[q]
    <3>1. PICK p \in packagesBeingUnpacked :
            /\ mfDst' \in {mfDst, [mfDst EXCEPT ![p] = {}], [mfDst EXCEPT ![p] = mfTmp[p]]}
            /\ mfTmp' \in {mfTmp, [mfTmp EXCEPT ![p] = {}]}
            /\ mfBak' \in {mfBak, [mfBak EXCEPT ![p] = {}], [mfBak EXCEPT ![p] = mfDst[p]],
                          [mfBak EXCEPT ![p] = mfBak[p]]}
      BY <1>25 DEF PostUnpackPackage, ManifestLeft
    <3> QED
      BY <3>1 DEF TypeInv, TypeOK
  <2>2. UNCHANGED <<orig, committed, unpackVars, removeVars>>
    BY <1>25 DEF PostUnpackPackage
  <2>3. committed /\ state' \in {"post_unpack", "fail"}
    BY <1>25 DEF PostUnpackPackage
  <2> QED
    BY <2>1, <2>2, <2>3
<1>26. CASE PostUnpackDone
  BY <1>26 DEF PostUnpackDone, UpdateExistingModules
<1>27. CASE UnwindCreateEmptyDir
  BY <1>27 DEF UnwindCreateEmptyDir
<1>28. CASE UnwindCreateEmptyDirsDone
  BY <1>28 DEF UnwindCreateEmptyDirsDone
<1>29. CASE UnwindReplaceFile
  <2>1. /\ UNCHANGED <<orig, committed, mfVars, packageVars, filesToUnpack, filesBeingUnpacked,
                       filesToRemove>>
        /\ state' \in {"unwind_replace", "fail"}
    BY <1>29 DEF UnwindReplaceFile, RestoreFileFails
  <2>2. PICK f \in filesUnpacked :
          /\ filesUnpacked' \subseteq filesUnpacked
          /\ \/ RestoreFile(f, f \in filesBeingRemoved) /\ f \notin filesUnpacked'
             \/ dst' \in {dst, [dst EXCEPT ![f] = NoFile]} /\ bak' = bak
    BY <1>29 DEF UnwindReplaceFile, RestoreFileFails
  <2>3. f \in File /\ \A p \in Package : f # ControlFile[p]
    BY DEF TypeInv, TypeOK
  <2>4. \A g \in File : g # f => dst'[g] = dst[g] /\ bak'[g] = bak[g]
    BY <2>2, <2>3 DEF RestoreFile, TypeInv, TypeOK, SomeFile
  <2>5. /\ ~committed => orig[f] \in {NoFile, dst'[f], bak'[f]}
        /\ ~committed /\ f \in filesUnpacked' => orig[f] \in {NoFile, bak'[f]}
    BY <2>2, <2>3 DEF RestoreFile, TypeInv, TypeOK, SomeFile
  <2>6. BackedUp'
    BY <2>1, <2>2, <2>3, <2>4, <2>5, ControlFileType DEF TypeInv, TypeOK
  <2>7. FilesRecoverable'
    BY <2>1, <2>3, <2>4, <2>5
  <2>8. ControlsApart' /\ FinalCommitted' /\ InPlace'
    BY <2>1, <2>2
  <2> QED
    BY <2>6, <2>7, <2>8
<1>30. CASE UnwindReplaceDone
  BY <1>30 DEF UnwindReplaceDone
<1>31. CASE UnwindRemoveDir
  BY <1>31 DEF UnwindRemoveDir
<1>32. CASE UnwindRemoveDone
  BY <1>32 DEF UnwindRemoveDone
<1>33. CASE UnwindPreInstallTriggers
  BY <1>33 DEF UnwindPreInstallTriggers
<1>34. CASE UnwindUnpackFile
  BY <1>34 DEF UnwindUnpackFile
<1>35. CASE UnwindUnpackPackage
  <2>1. UNCHANGED <<orig, committed, mfVars, fileVars>> /\ state' \in {"unwind_unpack", "fail"}
    BY <1>35 DEF UnwindUnpackPackage, RestoreFileFails
  <2>2. PICK p \in packagesBeingUnpacked :
          /\ packagesBeingUnpacked' \subseteq packagesBeingUnpacked
          /\ \/ \E overwrite : RestoreFile(ControlFile[p], overwrite) /\ p \notin packagesBeingUnpacked'
             \/ dst' \in {dst, [dst EXCEPT ![ControlFile[p]] = NoFile]} /\ bak' = bak
    BY <1>35 DEF UnwindUnpackPackage, RestoreFileFails
  <2>3. p \in Package /\ ControlFile[p] \in File /\ ControlFile[p] \notin filesUnpacked
    BY ControlFileType DEF TypeInv, TypeOK
  <2>4. \A g \in File : g # ControlFile[p] => dst'[g] = dst[g] /\ bak'[g] = bak[g]
    BY <2>2, <2>3 DEF RestoreFile, TypeInv, TypeOK, SomeFile
  <2>5. ~committed =>
          /\ orig[ControlFile[p]] \in {NoFile, dst'[ControlFile[p]], bak'[ControlFile[p]]}
          /\ p \in packagesBeingUnpacked' => orig[ControlFile[p]] \in {NoFile, bak'[ControlFile[p]]}
    BY <2>2, <2>3 DEF RestoreFile, TypeInv, TypeOK, SomeFile
  <2>6. \A q \in Package : q # p => ControlFile[q] # ControlFile[p] /\ ControlFile[q] \in File
    BY <2>3, UnpackAssumption
  <2>7. BackedUp'
    BY <2>1, <2>2, <2>3, <2>4, <2>5, <2>6 DEF TypeInv, TypeOK
  <2>8. FilesRecoverable'
    BY <2>1, <2>3, <2>4, <2>5
  <2>9. ControlsApart' /\ FinalCommitted' /\ InPlace'
    BY <2>1
  <2> QED
    BY <2>7, <2>8, <2>9
<1>36. CASE UnwindUnpackDone
  BY <1>36 DEF UnwindUnpackDone
<1>37. CASE UnwindRemoveFilesReplacedByDirs
  BY <1>37 DEF UnwindRemoveFilesReplacedByDirs
<1>38. CASE UnwindPreRemoveTriggers
  BY <1>38 DEF UnwindPreRemoveTriggers
<1>39. CASE UnwindCopyPostRemove
  BY <1>39 DEF UnwindCopyPostRemove
<1>40. CASE UnwindPreRemovePackage
  BY <1>40 DEF UnwindPreRemovePackage
<1>41. CASE UnwindPreRemoveDone
  BY <1>41 DEF UnwindPreRemoveDone
<1>42. CASE UnwindPreUnpackPackage
  BY <1>42 DEF UnwindPreUnpackPackage
<1>43. CASE UnwindPreUnpackDone
  BY <1>43 DEF UnwindPreUnpackDone
<1>44. CASE Begin
  BY <1>44 DEF Begin, Select, NewUnpack, EmptySets
<1>45. CASE Finish
  BY <1>45 DEF Finish, NoSession, EmptySets
<1>46. CASE Crash
  BY <1>46 DEF Crash, NoSession, EmptySets
<1>47. CASE UNCHANGED vars
  BY <1>47
<1> QED
  BY <1>1, <1>2, <1>3, <1>4, <1>5, <1>6, <1>7, <1>8, <1>9, <1>10, <1>11, <1>12, <1>13, <1>14,
     <1>15, <1>16, <1>17, <1>18, <1>19, <1>20, <1>21, <1>22, <1>23, <1>24, <1>25, <1>26, <1>27,
     <1>28, <1>29, <1>30, <1>31, <1>32, <1>33, <1>34, <1>35, <1>36, <1>37, <1>38, <1>39, <1>40,
     <1>41, <1>42, <1>43, <1>44, <1>45, <1>46, <1>47
     DEF Next, Poll, PrePoll, ForwardPoll, FinalPoll, UnwindPoll

\* Nothing is lost before the point of no return (FilesRecoverable): whatever
\* fails, wherever the machine stops and whatever earlier sessions have left, a
\* file that was on the disc when the session began is at its destination or in
\* its backup.
THEOREM Recoverable == Spec => []FilesRecoverable
<1>1. RecoverInv => FilesRecoverable
  BY DEF RecoverInv
<1> QED
  BY <1>1, RecoverInit, RecoverNext, PTL DEF Spec
===============================================================================
