-------------------------------- MODULE Unpack --------------------------------
(***************************************************************************)
(* The unpack thread (unpack.h, unpack.cc): it takes a set of packages     *)
(* from their current to their selected status by extracting files beside  *)
(* their destinations, moving the old files to backups and the new files   *)
(* into place, and deletes the backups at the end.  On an error before the *)
(* point of no return it works backwards through the states it has gone    *)
(* through.                                                                *)
(*                                                                         *)
(* One action is one branch of unpack::_poll(): one file, one package, or  *)
(* the move to the next state.  A std::exception thrown in it ends the     *)
(* poll and is dealt with in the same poll by the handler in               *)
(* unpack::poll() (Throw).  The front end polls until done or fail and     *)
(* begins another session; the machine may stop between two polls, and     *)
(* then only the files on disc are left.                                   *)
(*                                                                         *)
(* Abstractions.  A file is named by its destination; its temporary copy   *)
(* (~RiscPkg++) and its backup (~RiscPkg--) are tmp and bak of the same    *)
(* name.  The sets are processed in string order by the code, in any order *)
(* here.  A commit of the status table is one step, as TableFile shows it  *)
(* is.  A path is either always a file or always a directory, so nothing   *)
(* is ever replaced by a directory of its name.  The triggers of a state   *)
(* are one verdict.  Progress counters and messages are left out.          *)
(* Operations of two kinds do not fail in one poll, but any number of      *)
(* deletes may: force_delete() and soft_delete() swallow their errors, and *)
(* leave what they cannot delete.                                          *)
(*                                                                         *)
(* A definition A_B just before A is a faulty variant of A: with it in the *)
(* place of A, one of the properties below is violated.                    *)
(***************************************************************************)
EXTENDS PkgStatus, FiniteSets

CONSTANTS
  Package,
  File,          \* destination pathnames of files
  Dir,           \* destination pathnames of empty directories
  ControlFile,   \* [Package -> File]: where RiscPkg.Control goes
  Contents,      \* [Package -> [Version -> SUBSET (File \cup Dir)]]: the zip files, less RiscPkg.Control
  ModuleFile,    \* [Package -> File \cup {NoFile}]: the module of a package with just a module
  Unsupported,   \* the <<package, version>> pairs whose standards version cannot be processed
  StrayFile,     \* destinations that may hold a file of unknown origin at first
  Initial,       \* the package statuses to start from, of consistent systems
  Selections,    \* the selected statuses the front end asks for
  Foreign,       \* the owner of a file that is not a package's
  NoFile,        \* no object of that name
  NoPackage,     \* the empty _pkgname
  Faults,        \* the operations that may fail in this instance
  MaxFaults,     \* bound: [session -> how many fail up to its end, crashes included]
  MaxSessions    \* bound: how many unpack operations are begun

FaultKind == {"zip", "extract", "control", "activate", "replace", "commit", "copy",
              "trigger", "mkdir", "restore", "module", "remove", "delete", "crash",
              "paths", "download"}   \* the last two in Commit

\* What a file holds: it is from a version of a package, or of unknown origin.
FileData == [owner : Package \cup {Foreign}, version : Version]
SomeFile == [File -> FileData \cup {NoFile}]

ASSUME UnpackAssumption ==
  /\ File \cap Dir = {}
  /\ ControlFile \in [Package -> File]
  /\ \A p, q \in Package : p # q => ControlFile[p] # ControlFile[q]
  /\ Contents \in [Package -> [Version -> SUBSET (File \cup Dir)]]
  /\ \A p, q \in Package, v \in Version : ControlFile[p] \notin Contents[q][v]
  /\ ModuleFile \in [Package -> File \cup {NoFile}]
  /\ Unsupported \subseteq Package \X (Version \cup {0})
  /\ StrayFile \subseteq File
  /\ Initial \subseteq [Package -> [state : {not_present, removed}, version : Version \cup {0}]
                                   \cup [state : {installed}, version : Version]]
  /\ Selections \subseteq [Package -> [state : {not_present, removed}, version : Version \cup {0}]
                                   \cup [state : {installed}, version : Version]]
  /\ Foreign \notin Package /\ NoPackage \notin Package
  /\ NoFile \notin File \cup Dir \cup FileData
  /\ Faults \subseteq FaultKind
  /\ MaxSessions \in Nat /\ MaxFaults \in [1..MaxSessions -> Nat]

\* What consistent packages are, for the theorems that need them to be.  The
\* conflict check of pre_unpack looks at the disc only, so it does not see that
\* two packages that are unpacked at once have a file in common.
FilesOf(p, v) == File \cap Contents[p][v]

\* No two packages have a file in common.
Apart == \A p, q \in Package, v, w \in Version : p # q => FilesOf(p, v) \cap FilesOf(q, w) = {}

\* No two packages that are installed at first have, ...
SystemsConsistent ==
  \A st \in Initial, p, q \in Package :
    p # q /\ st[p].state = installed /\ st[q].state = installed =>
      FilesOf(p, st[p].version) \cap FilesOf(q, st[q].version) = {}

\* ... nor two that the first session is to unpack.
SelectionsConsistent ==
  \A st \in Initial, sel \in Selections, p, q \in Package :
    p # q /\ UnpackReq(st[p], sel[p]) /\ UnpackReq(st[q], sel[q]) =>
      FilesOf(p, sel[p].version) \cap FilesOf(q, sel[q].version) = {}

\* The module of a package with just a module is in each of its versions, and no
\* other package has a file of such a package.
ModulesOwn ==
  \A p \in Package : ModuleFile[p] # NoFile =>
    /\ \A v \in Version : ModuleFile[p] \in Contents[p][v]
    /\ \A q \in Package \ {p}, v, w \in Version : FilesOf(p, v) \cap FilesOf(q, w) = {}

Consistent == SystemsConsistent /\ SelectionsConsistent /\ ModulesOwn

VARIABLES
  state,                  \* _state, or "idle" when there is no unpack object
  pkgname,                \* _pkgname while it says whose _files_to_unpack are
  curstat,                \* pkgbase::curstat() in memory
  disk,                   \* the status file of curstat
  selstat,                \* pkgbase::selstat()
  prevstat,               \* pkgbase::prevstat(): curstat when the commit began
  dst,                    \* the files at their destinations
  tmp,                    \* the files in ~RiscPkg++
  bak,                    \* the files in ~RiscPkg--
  dirs,                   \* the empty directories
  mfDst,                  \* Info.<package>.Files; no file and an empty file are the same
  mfTmp,                  \* Info.<package>.Files++
  mfBak,                  \* Info.<package>.Files--
  packagesToUnpack,
  packagesPreUnpacked,
  packagesBeingUnpacked,
  packagesToRemove,
  packagesBeingRemoved,
  packagesCannotProcess,
  existingModulePackages,
  moduleVersion,          \* the version in Info.<package>.Control++, read by its own session only
  filesToUnpack,          \* files and empty directories of pkgname
  filesBeingUnpacked,
  filesUnpacked,
  filesToRemove,
  filesBeingRemoved,
  filesThatConflict,
  emptyDirsToCheck,
  emptyDirsToCreate,
  dirsToRemove,
  dirsRemoved,
  dirsCreated,
  faults,                 \* how many operations have failed
  failed,                 \* history: the kinds of operation that have
  sessions,               \* how many sessions have begun
  orig,                   \* history: dst when the session began
  committed               \* history: the session has passed the point of no return

statVars    == <<curstat, disk>>
fsVars      == <<dst, tmp, bak, dirs>>
mfVars      == <<mfDst, mfTmp, mfBak>>
packageVars == <<packagesToUnpack, packagesPreUnpacked, packagesBeingUnpacked,
                 packagesToRemove, packagesBeingRemoved, packagesCannotProcess,
                 existingModulePackages, moduleVersion>>
unpackVars  == <<filesToUnpack, filesBeingUnpacked, filesUnpacked>>
removeVars  == <<filesToRemove, filesBeingRemoved, filesThatConflict>>
dirVars     == <<emptyDirsToCheck, emptyDirsToCreate, dirsToRemove, dirsRemoved, dirsCreated>>
fileVars    == <<unpackVars, removeVars, dirVars>>
sessionVars == <<sessions, orig, committed, selstat, prevstat>>

vars == <<state, pkgname, statVars, fsVars, mfVars, packageVars, fileVars,
          faults, failed, sessionVars>>

\* state_type, with "idle" added.
PreState     == {"pre_unpack", "pre_remove"}
ForwardState == {"copy_post_remove", "run_pre_remove_triggers",
                 "remove_files_replaced_by_dirs", "unpack",
                 "run_pre_install_triggers", "replace", "remove"}
FinalState   == {"post_remove", "create_empty_dirs", "post_unpack"}
UnwindState  == {"unwind_create_empty_dirs", "unwind_replace", "unwind_remove",
                 "unwind_pre_install_triggers", "unwind_unpack",
                 "unwind_remove_files_replaced_by_dirs",
                 "unwind_pre_remove_triggers", "unwind_copy_post_remove",
                 "unwind_pre_remove", "unwind_pre_unpack"}
EndState     == {"idle", "done", "fail"}
MidState     == ForwardState \cup FinalState \cup UnwindState
State        == PreState \cup MidState \cup EndState

-------------------------------------------------------------------------------
(* What goes wrong, and the handler of unpack::poll().                     *)

NoFault == UNCHANGED <<faults, failed>>
Fault(k) == /\ k \in Faults /\ faults < MaxFaults[sessions]
            /\ faults' = faults + 1 /\ failed' = failed \cup {k}

\* The state the handler goes to from the state the exception was thrown in.
ExceptionState_SkipsReplace ==
  [s \in State |->
     CASE s = "remove_files_replaced_by_dirs" -> "unwind_remove_files_replaced_by_dirs"
       [] s \in {"unpack", "replace", "remove"} -> "unwind_unpack"
       [] s = "run_pre_remove_triggers"       -> "unwind_pre_remove_triggers"
       [] s = "run_pre_install_triggers"      -> "unwind_pre_install_triggers"
       [] s = "create_empty_dirs"             -> "unwind_create_empty_dirs"
       [] OTHER                               -> "fail"]
ExceptionState ==
  [s \in State |->
     CASE s = "remove_files_replaced_by_dirs" -> "unwind_remove_files_replaced_by_dirs"
       [] s = "unpack"                        -> "unwind_unpack"
       [] s \in {"replace", "remove"}         -> "unwind_replace"
       [] s = "run_pre_remove_triggers"       -> "unwind_pre_remove_triggers"
       [] s = "run_pre_install_triggers"      -> "unwind_pre_install_triggers"
       [] s = "create_empty_dirs"             -> "unwind_create_empty_dirs"
       [] OTHER                               -> "fail"]

\* Roll the status table back and move to the unwind state.
Throw == /\ state' = ExceptionState[state]
         /\ curstat' = disk
         /\ UNCHANGED <<disk, sessionVars>>

\* In pre_unpack and pre_remove the handler deletes what was prepared for
\* existing modules as well.
ThrowPre == /\ Throw
            /\ \E left \in SUBSET existingModulePackages :
                 /\ left # {} => "delete" \in Faults
                 /\ mfTmp' = [p \in Package |-> IF p \in existingModulePackages \ left
                                                THEN {} ELSE mfTmp[p]]
            /\ existingModulePackages' = {}

\* A commit of the status table.
CommitStatus_Skipped == UNCHANGED disk
CommitStatus == disk' = curstat'

\* The move to the next state, with nothing else done.
Progress(s) == /\ state' = s
               /\ NoFault
               /\ UNCHANGED <<pkgname, statVars, fsVars, mfVars, packageVars, fileVars, sessionVars>>

-------------------------------------------------------------------------------
(* Beginning and ending a session.                                         *)

\* The file at f on a system with statuses st, where file g of unknown origin
\* has version stray[g], and none if that is 0.
FileAt(f, st, stray) ==
  LET owners == {p \in Package : /\ st[p].state = installed
                                 /\ f \in Contents[p][st[p].version] \cup {ControlFile[p]}}
  IN IF owners # {}
     THEN LET p == CHOOSE p \in owners : TRUE IN [owner |-> p, version |-> st[p].version]
     ELSE IF f \in StrayFile /\ stray[f] # 0
          THEN [owner |-> Foreign, version |-> stray[f]]
          ELSE NoFile

Init ==
  /\ curstat \in Initial
  /\ \E stray \in [StrayFile -> Version \cup {0}] :
        dst = [f \in File |-> FileAt(f, curstat, stray)]
  /\ LET installedContents(p) ==
           IF curstat[p].state = installed THEN Contents[p][curstat[p].version] ELSE {}
     IN /\ mfDst = [p \in Package |-> installedContents(p)]
        /\ dirs = Dir \cap UNION {installedContents(p) : p \in Package}
  /\ state = "idle" /\ pkgname = NoPackage
  /\ disk = curstat /\ selstat = curstat /\ prevstat = curstat
  /\ tmp = [f \in File |-> NoFile] /\ bak = tmp
  /\ mfTmp = [p \in Package |-> {}] /\ mfBak = mfTmp
  /\ packagesToUnpack = {} /\ packagesPreUnpacked = {} /\ packagesBeingUnpacked = {}
  /\ packagesToRemove = {} /\ packagesBeingRemoved = {}
  /\ packagesCannotProcess = {} /\ existingModulePackages = {}
  /\ moduleVersion = [p \in Package |-> 0]
  /\ filesToUnpack = {} /\ filesBeingUnpacked = {} /\ filesUnpacked = {}
  /\ filesToRemove = {} /\ filesBeingRemoved = {} /\ filesThatConflict = {}
  /\ emptyDirsToCheck = {} /\ emptyDirsToCreate = {}
  /\ dirsToRemove = {} /\ dirsRemoved = {} /\ dirsCreated = {}
  /\ faults = 0 /\ failed = {} /\ sessions = 0 /\ orig = dst /\ committed = FALSE

\* The working sets of a new unpack object, but for the two the constructor fills.
EmptySets ==
  /\ pkgname' = NoPackage
  /\ packagesPreUnpacked' = {} /\ packagesBeingUnpacked' = {} /\ packagesBeingRemoved' = {}
  /\ packagesCannotProcess' = {} /\ existingModulePackages' = {}
  /\ moduleVersion' = [p \in Package |-> 0]
  /\ filesToUnpack' = {} /\ filesBeingUnpacked' = {} /\ filesUnpacked' = {}
  /\ filesToRemove' = {} /\ filesBeingRemoved' = {} /\ filesThatConflict' = {}
  /\ emptyDirsToCheck' = {} /\ emptyDirsToCreate' = {}
  /\ dirsToRemove' = {} /\ dirsRemoved' = {} /\ dirsCreated' = {}

\* unpack::unpack(), with the selected and previous statuses in place.
NewUnpack ==
  /\ state' = "pre_unpack"
  /\ packagesToUnpack' = {p \in Package : UnpackReq(curstat[p], selstat'[p])}
  /\ packagesToRemove' = {p \in Package : RemoveReq(curstat[p], selstat'[p])}
  /\ EmptySets
  /\ orig' = dst /\ committed' = FALSE
  /\ NoFault
  /\ UNCHANGED <<statVars, fsVars, mfVars>>

\* The front end selects what it wants and commit::commit() saves the current
\* statuses.
Select == selstat' \in Selections /\ prevstat' = curstat /\ sessions' = sessions + 1

CanBegin == sessions < MaxSessions /\ faults <= MaxFaults[sessions + 1]

Begin == state = "idle" /\ CanBegin /\ Select /\ NewUnpack

\* The unpack object is destroyed.
NoSession == /\ state' = "idle"
             /\ packagesToUnpack' = {} /\ packagesToRemove' = {}
             /\ EmptySets
             /\ UNCHANGED <<disk, fsVars, mfVars, sessionVars>>

Finish == state \in {"done", "fail"} /\ NoSession /\ NoFault /\ UNCHANGED curstat

\* The machine stops between two polls: what is in memory is lost, and the
\* status table is read again when the program next starts.
Crash == state # "idle" /\ NoSession /\ Fault("crash") /\ curstat' = disk

-------------------------------------------------------------------------------
(* pre_unpack: which files will be unpacked, and which are in the way.     *)

PreUnpackCheckFile ==
  /\ state = "pre_unpack"
  /\ \E f \in filesToUnpack :
       /\ filesToUnpack' = filesToUnpack \ {f}
       /\ IF f \in Dir
          THEN /\ emptyDirsToCreate' = emptyDirsToCreate \cup {f}
               /\ UNCHANGED filesThatConflict
          ELSE /\ filesThatConflict' = IF dst[f] # NoFile THEN filesThatConflict \cup {f}
                                                          ELSE filesThatConflict
               /\ UNCHANGED emptyDirsToCreate
  /\ NoFault
  /\ UNCHANGED <<state, pkgname, statVars, fsVars, mfVars, packageVars, filesBeingUnpacked,
                 filesUnpacked, filesToRemove, filesBeingRemoved, emptyDirsToCheck,
                 dirsToRemove, dirsRemoved, dirsCreated, sessionVars>>

\* No file has the name of a directory, so a directory never conflicts.
PreUnpackCheckEmptyDir ==
  /\ state = "pre_unpack" /\ filesToUnpack = {}
  /\ \E d \in emptyDirsToCreate : emptyDirsToCreate' = emptyDirsToCreate \ {d}
  /\ NoFault
  /\ UNCHANGED <<state, pkgname, statVars, fsVars, mfVars, packageVars, unpackVars, removeVars,
                 emptyDirsToCheck, dirsToRemove, dirsRemoved, dirsCreated, sessionVars>>

\* already_installed(): the module of p is on the system, in a version that
\* will do or in an older one.
ModuleOnSystem(p, v) ==
  /\ ModuleFile[p] # NoFile /\ ModuleFile[p] \in Contents[p][v]
  /\ dst[ModuleFile[p]] # NoFile

ModuleIsOlder_Never(p, v) == FALSE
ModuleIsOlder(p, v) == dst[ModuleFile[p]].version < v

FoundVersion_AsSelected(p) == selstat[p].version
FoundVersion(p) == dst[ModuleFile[p]].version

\* The module found serves as the package: nothing is unpacked or removed, and
\* the new Info files are written beside the old ones.
UseModule(p, v) ==
  /\ filesThatConflict' = filesThatConflict \ {ModuleFile[p]}
  /\ packagesToRemove' = packagesToRemove \ {p}
  /\ existingModulePackages' = existingModulePackages \cup {p}
  /\ moduleVersion' = [moduleVersion EXCEPT ![p] = FoundVersion(p)]
  /\ mfTmp' = [mfTmp EXCEPT ![p] = Contents[p][v]]
  /\ UNCHANGED <<mfDst, filesToUnpack, packagesPreUnpacked>>

\* An older module is treated as a package to remove, unless the package is
\* installed: the status tested is the one just inserted.  The manifest is
\* written at once, for pre_remove to find.
ReplaceModule(p, v) ==
  /\ IF curstat'[p].state = installed
     THEN UNCHANGED <<packagesToRemove, mfDst>>
     ELSE /\ packagesToRemove' = packagesToRemove \cup {p}
          /\ mfDst' = [mfDst EXCEPT ![p] = Contents[p][v]]
  /\ filesToUnpack' = Contents[p][v]
  /\ packagesPreUnpacked' = packagesPreUnpacked \cup {p}
  /\ UNCHANGED <<filesThatConflict, existingModulePackages, moduleVersion, mfTmp>>

UnpackAsUsual(p, v) ==
  /\ filesToUnpack' = Contents[p][v]
  /\ packagesPreUnpacked' = packagesPreUnpacked \cup {p}
  /\ UNCHANGED <<filesThatConflict, existingModulePackages, moduleVersion, packagesToRemove,
                 mfDst, mfTmp>>

PreUnpackSelectPackage ==
  /\ state = "pre_unpack" /\ filesToUnpack = {} /\ emptyDirsToCreate = {}
  /\ \E p \in packagesToUnpack :
       LET v == selstat[p].version IN
       \/ \* the zip file cannot be opened
          /\ Fault("zip") /\ ThrowPre
          /\ UNCHANGED <<pkgname, fsVars, mfDst, mfBak, packagesToUnpack, packagesPreUnpacked,
                         packagesBeingUnpacked, packagesToRemove, packagesBeingRemoved,
                         packagesCannotProcess, moduleVersion, fileVars>>
       \/ /\ pkgname' = p
          /\ curstat' = [curstat EXCEPT ![p] = [state |-> half_unpacked, version |-> v]]
          /\ packagesCannotProcess' = packagesCannotProcess \cup
                                        (IF <<p, v>> \in Unsupported THEN {p} ELSE {})
          /\ IF ModuleOnSystem(p, v)
             THEN IF ModuleIsOlder(p, v) THEN ReplaceModule(p, v) ELSE UseModule(p, v)
             ELSE UnpackAsUsual(p, v)
          /\ packagesToUnpack' = packagesToUnpack \ {p}
          /\ NoFault
          /\ UNCHANGED <<state, disk, fsVars, mfBak, packagesBeingUnpacked, packagesBeingRemoved,
                         filesBeingUnpacked, filesUnpacked, filesToRemove, filesBeingRemoved,
                         dirVars, sessionVars>>

PreUnpackDone ==
  /\ state = "pre_unpack"
  /\ filesToUnpack = {} /\ emptyDirsToCreate = {} /\ packagesToUnpack = {}
  /\ Progress("pre_remove")

-------------------------------------------------------------------------------
(* pre_remove: which files and directories will go, and the decision.      *)

ReadManifest(p) == mfDst[p] \cup mfBak[p]

\* The part of a manifest that is on the disc.
FilesToGo(mf) == {f \in mf \cap File : dst[f] # NoFile}
DirsToGo_Files(mf) == mf
DirsToGo(mf)  == mf \cap dirs

MarkedForRemoval_Not(p) == curstat
MarkedForRemoval(p) == [curstat EXCEPT ![p].state = half_unpacked]

PreRemoveSelectPackage ==
  /\ state = "pre_remove"
  /\ \E p \in packagesToRemove :
       LET mf == ReadManifest(p) IN
       /\ curstat' = MarkedForRemoval(p)
       /\ packagesCannotProcess' = packagesCannotProcess \cup
            (IF <<p, curstat[p].version>> \in Unsupported THEN {p} ELSE {})
       /\ filesThatConflict' = filesThatConflict \ mf
       /\ filesToRemove' = filesToRemove \cup FilesToGo(mf)
       /\ dirsToRemove' = dirsToRemove \cup DirsToGo(mf)
       /\ packagesBeingRemoved' = packagesBeingRemoved \cup {p}
       /\ packagesToRemove' = packagesToRemove \ {p}
  /\ NoFault
  /\ UNCHANGED <<state, pkgname, disk, fsVars, mfVars, packagesToUnpack, packagesPreUnpacked,
                 packagesBeingUnpacked, existingModulePackages, moduleVersion, unpackVars,
                 filesBeingRemoved,
                 emptyDirsToCheck, emptyDirsToCreate, dirsRemoved, dirsCreated, sessionVars>>

\* Nothing on the disc has changed so far.  Either the session fails or the
\* packages in it are on record as half-unpacked.
PreRemoveDone ==
  /\ state = "pre_remove" /\ packagesToRemove = {}
  /\ \/ /\ packagesCannotProcess = {} /\ filesThatConflict = {}
        /\ UNCHANGED curstat /\ CommitStatus
        /\ state' = "copy_post_remove"
        /\ NoFault
        /\ UNCHANGED <<mfTmp, existingModulePackages, sessionVars>>
     \/ \* cannot_process, file_conflict
        /\ packagesCannotProcess # {} \/ filesThatConflict # {}
        /\ NoFault /\ ThrowPre
     \/ Fault("commit") /\ ThrowPre
  /\ UNCHANGED <<pkgname, fsVars, mfDst, mfBak, packagesToUnpack, packagesPreUnpacked,
                 packagesBeingUnpacked, packagesToRemove, packagesBeingRemoved,
                 packagesCannotProcess, moduleVersion, fileVars>>

-------------------------------------------------------------------------------
(* The triggers: the verdict on all those of a state.  A failure is        *)
(* reported, not thrown.                                                   *)

Verdict(s, success, failure, k) ==
  /\ state = s
  /\ \/ Progress(success)
     \/ /\ state' = failure
        /\ Fault(k)
        /\ UNCHANGED <<pkgname, statVars, fsVars, mfVars, packageVars, fileVars, sessionVars>>

CopyPostRemove == Verdict("copy_post_remove", "run_pre_remove_triggers",
                          "unwind_copy_post_remove", "copy")
RunPreRemoveTriggers == Verdict("run_pre_remove_triggers", "remove_files_replaced_by_dirs",
                                "unwind_pre_remove_triggers", "trigger")
RunPreInstallTriggers == Verdict("run_pre_install_triggers", "replace",
                                 "unwind_pre_install_triggers", "trigger")

RemoveFilesReplacedByDirs == state = "remove_files_replaced_by_dirs" /\ Progress("unpack")

-------------------------------------------------------------------------------
(* unpack: the new files go beside their destinations; the control file    *)
(* and the manifest of a package are replaced when it is selected.         *)

UnpackFile ==
  /\ state = "unpack"
  /\ \E f \in filesToUnpack :
       \/ /\ f \in Dir
          /\ emptyDirsToCheck' = emptyDirsToCheck \cup {f}
          /\ filesToUnpack' = filesToUnpack \ {f}
          /\ NoFault
          /\ UNCHANGED <<state, statVars, tmp, filesBeingUnpacked, sessionVars>>
       \/ /\ f \in File
          /\ tmp' = [tmp EXCEPT ![f] = [owner |-> pkgname, version |-> selstat[pkgname].version]]
          /\ filesBeingUnpacked' = filesBeingUnpacked \cup {f}
          /\ filesToUnpack' = filesToUnpack \ {f}
          /\ NoFault
          /\ UNCHANGED <<state, statVars, emptyDirsToCheck, sessionVars>>
       \/ \* thrown before the file is noted, which may be there in part
          /\ f \in File
          /\ Fault("extract") /\ Throw
          /\ tmp' \in {tmp, [tmp EXCEPT ![f] = [owner   |-> pkgname,
                                                version |-> selstat[pkgname].version]]}
          /\ UNCHANGED <<filesToUnpack, filesBeingUnpacked, emptyDirsToCheck>>
  /\ UNCHANGED <<pkgname, dst, bak, dirs, mfVars, packageVars, filesUnpacked, removeVars,
                 emptyDirsToCreate, dirsToRemove, dirsRemoved, dirsCreated>>

\* replace_file(): what is at f goes to its backup if it may be overwritten.
\* force_move() does not replace what is left there.
BackUp_Deletes(f, overwrite) ==
  [dst |-> IF overwrite THEN [dst EXCEPT ![f] = NoFile] ELSE dst, bak |-> [bak EXCEPT ![f] = NoFile]]
BackUp(f, overwrite) ==
  IF overwrite THEN [dst |-> [dst EXCEPT ![f] = NoFile], bak |-> [bak EXCEPT ![f] = dst[f]]]
               ELSE [dst |-> dst, bak |-> [bak EXCEPT ![f] = NoFile]]

Merged_NewOnly(p, v) == Contents[p][v]
Merged(p, v) == Contents[p][v] \cup ReadManifest(p)

Replaceable(f, overwrite) == overwrite \/ dst[f] = NoFile

\* A backup cannot be deleted.  It is in the way of a new one.
BackupStays(f) == bak[f] # NoFile /\ Fault("delete") /\ UNCHANGED bak

\* An existing file that may not be overwritten is an error, and anything else
\* may be.  The backup may have been made before that; the old one has gone, or is
\* in the way.
ReplaceFileFails(f, overwrite, k) ==
  /\ IF Replaceable(f, overwrite) THEN Fault(k) ELSE NoFault
  /\ \E done \in {BackUp(f, overwrite), BackUp(f, FALSE), [dst |-> dst, bak |-> bak]} :
       dst' = done.dst /\ bak' = done.bak

\* What activate_manifest() leaves in the backup when it cannot be deleted.
ManifestLeft(p) == IF mfDst[p] # {} THEN mfDst[p] ELSE mfBak[p]

UnpackSelectPackage ==
  /\ state = "unpack" /\ filesToUnpack = {}
  /\ \E p \in packagesPreUnpacked :
       LET v         == selstat[p].version
           new       == [owner |-> p, version |-> v]
           c         == ControlFile[p]
           overwrite == prevstat[p].state >= removed
           merged    == Merged(p, v)
       IN
       /\ pkgname' = p
       /\ \/ \* the zip file cannot be opened
             /\ Fault("zip") /\ Throw
             /\ UNCHANGED <<dst, tmp, bak, mfVars, packagesPreUnpacked, packagesBeingUnpacked,
                            filesToUnpack>>
          \/ \* the control file is not extracted
             /\ Fault("extract") /\ Throw
             /\ tmp' \in {tmp, [tmp EXCEPT ![c] = new]}
             /\ UNCHANGED <<dst, bak, mfVars, packagesPreUnpacked, packagesBeingUnpacked,
                            filesToUnpack>>
          \/ \* the control file is not replaced
             /\ ReplaceFileFails(c, overwrite, "control")
             /\ Throw
             /\ tmp' = [tmp EXCEPT ![c] = new]
             /\ UNCHANGED <<mfVars, packagesPreUnpacked, packagesBeingUnpacked, filesToUnpack>>
          \/ /\ dst' = [dst EXCEPT ![c] = new]
             /\ tmp' = [tmp EXCEPT ![c] = NoFile]
             /\ filesToUnpack' = Contents[p][v]
             /\ \/ \* the merged manifest is not activated
                   /\ Replaceable(c, overwrite) /\ bak' = BackUp(c, overwrite).bak
                   /\ Fault("activate") /\ Throw
                   /\ mfTmp' = [mfTmp EXCEPT ![p] = merged]
                   /\ \/ UNCHANGED <<mfDst, mfBak>>
                      \/ /\ mfDst[p] # {}
                         /\ mfBak' = [mfBak EXCEPT ![p] = mfDst[p]]
                         /\ mfDst' = [mfDst EXCEPT ![p] = {}]
                   /\ UNCHANGED <<packagesPreUnpacked, packagesBeingUnpacked>>
                \/ /\ mfDst' = [mfDst EXCEPT ![p] = merged]
                   /\ mfTmp' = [mfTmp EXCEPT ![p] = Contents[p][v]]
                   /\ packagesBeingUnpacked' = packagesBeingUnpacked \cup {p}
                   /\ packagesPreUnpacked' = packagesPreUnpacked \ {p}
                   /\ \/ /\ Replaceable(c, overwrite) /\ bak' = BackUp(c, overwrite).bak
                         /\ \/ mfBak' = [mfBak EXCEPT ![p] = {}] /\ NoFault
                            \/ /\ ManifestLeft(p) # {} /\ Fault("delete")
                               /\ mfBak' = [mfBak EXCEPT ![p] = ManifestLeft(p)]
                      \/ /\ dst[c] = NoFile /\ BackupStays(c)
                         /\ mfBak' \in {[mfBak EXCEPT ![p] = {}], [mfBak EXCEPT ![p] = ManifestLeft(p)]}
                   /\ UNCHANGED <<state, statVars, sessionVars>>
  /\ UNCHANGED <<dirs, packagesToUnpack, packagesToRemove, packagesBeingRemoved,
                 packagesCannotProcess, existingModulePackages, moduleVersion, filesBeingUnpacked,
                 filesUnpacked, removeVars, dirVars>>

UnpackDone ==
  /\ state = "unpack" /\ filesToUnpack = {} /\ packagesPreUnpacked = {}
  /\ Progress("run_pre_install_triggers")

-------------------------------------------------------------------------------
(* replace and remove: old files to backups, new files into place.         *)

ReplaceFile ==
  /\ state = "replace"
  /\ \E f \in filesBeingUnpacked :
       LET overwrite == f \in filesToRemove IN
       \/ /\ \/ Replaceable(f, overwrite) /\ bak' = BackUp(f, overwrite).bak /\ NoFault
             \/ dst[f] = NoFile /\ BackupStays(f)
          /\ dst' = [dst EXCEPT ![f] = tmp[f]]
          /\ tmp' = [tmp EXCEPT ![f] = NoFile]
          /\ filesBeingRemoved' = IF overwrite THEN filesBeingRemoved \cup {f} ELSE filesBeingRemoved
          /\ filesToRemove' = filesToRemove \ {f}
          /\ filesUnpacked' = filesUnpacked \cup {f}
          /\ filesBeingUnpacked' = filesBeingUnpacked \ {f}
          /\ UNCHANGED <<state, statVars, sessionVars>>
       \/ \* f is noted in neither set, whether or not it has been backed up
          /\ ReplaceFileFails(f, overwrite, "replace")
          /\ Throw
          /\ UNCHANGED <<tmp, filesBeingRemoved, filesToRemove, filesUnpacked, filesBeingUnpacked>>
  /\ UNCHANGED <<pkgname, dirs, mfVars, packageVars, filesToUnpack, filesThatConflict, dirVars>>

ReplaceCheckEmptyDir ==
  /\ state = "replace" /\ filesBeingUnpacked = {}
  /\ \E d \in emptyDirsToCheck :
       /\ emptyDirsToCheck' = emptyDirsToCheck \ {d}
       /\ IF d \in dirsToRemove
          THEN dirsToRemove' = dirsToRemove \ {d} /\ UNCHANGED emptyDirsToCreate
          ELSE emptyDirsToCreate' = emptyDirsToCreate \cup {d} /\ UNCHANGED dirsToRemove
  /\ NoFault
  /\ UNCHANGED <<state, pkgname, statVars, fsVars, mfVars, packageVars, unpackVars, removeVars,
                 dirsRemoved, dirsCreated, sessionVars>>

ReplaceDone ==
  /\ state = "replace" /\ filesBeingUnpacked = {} /\ emptyDirsToCheck = {}
  /\ Progress("remove")

\* A move that fails is taken to mean that there is no file, though an old backup
\* may be in its way.
RemoveFile ==
  /\ state = "remove"
  /\ \E f \in filesToRemove :
       /\ \/ dst' = [dst EXCEPT ![f] = NoFile] /\ bak' = [bak EXCEPT ![f] = dst[f]] /\ NoFault
          \/ bak' = [bak EXCEPT ![f] = NoFile] /\ Fault("remove") /\ UNCHANGED dst
          \/ BackupStays(f) /\ UNCHANGED dst
       /\ filesBeingRemoved' = filesBeingRemoved \cup {f}
       /\ filesToRemove' = filesToRemove \ {f}
  /\ UNCHANGED <<state, pkgname, statVars, tmp, dirs, mfVars, packageVars, unpackVars,
                 filesThatConflict, dirVars, sessionVars>>

RemoveDir_Again ==
  /\ state = "remove" /\ filesToRemove = {}
  /\ \E d \in dirsToRemove : dirs' = dirs \ {d} /\ dirsRemoved' = dirsRemoved \cup {d}
  /\ NoFault
  /\ UNCHANGED <<state, pkgname, statVars, dst, tmp, bak, mfVars, packageVars, unpackVars,
                 removeVars, emptyDirsToCheck, emptyDirsToCreate, dirsToRemove, dirsCreated,
                 sessionVars>>
RemoveDir ==
  /\ state = "remove" /\ filesToRemove = {}
  /\ \E d \in dirsToRemove :
       /\ \/ dirs' = dirs \ {d} /\ NoFault
          \/ UNCHANGED dirs /\ Fault("delete")
       /\ dirsRemoved' = dirsRemoved \cup {d}
       /\ dirsToRemove' = dirsToRemove \ {d}
  /\ UNCHANGED <<state, pkgname, statVars, dst, tmp, bak, mfVars, packageVars, unpackVars,
                 removeVars, emptyDirsToCheck, emptyDirsToCreate, dirsCreated, sessionVars>>

\* The point of no return.
RemoveDone ==
  /\ state = "remove" /\ filesToRemove = {} /\ dirsToRemove = {}
  /\ state' = "post_remove" /\ committed' = TRUE
  /\ NoFault
  /\ UNCHANGED <<pkgname, statVars, fsVars, mfVars, packageVars, fileVars, sessions, orig,
                 selstat, prevstat>>

-------------------------------------------------------------------------------
(* post_remove, create_empty_dirs and post_unpack: backups are deleted and *)
(* the packages reach their new states.                                    *)

PostRemoveFile ==
  /\ state = "post_remove"
  /\ \E f \in filesBeingRemoved :
       /\ \/ bak' = [bak EXCEPT ![f] = NoFile] /\ NoFault
          \/ BackupStays(f)
       /\ filesBeingRemoved' = filesBeingRemoved \ {f}
  /\ UNCHANGED <<state, pkgname, statVars, dst, tmp, dirs, mfVars, packageVars, unpackVars,
                 filesToRemove, filesThatConflict, dirVars, sessionVars>>

\* The manifests and the control file of p are deleted, but for those manifests
\* that are in "left"; "control" is what becomes of the control file.
PackageFilesRemoved(p, left, control) ==
  /\ mfDst' = [mfDst EXCEPT ![p] = IF "dst" \in left THEN mfDst[p] ELSE {}]
  /\ mfTmp' = [mfTmp EXCEPT ![p] = IF "tmp" \in left THEN mfTmp[p] ELSE {}]
  /\ mfBak' = [mfBak EXCEPT ![p] = IF "bak" \in left THEN mfBak[p] ELSE {}]
  /\ dst' = [dst EXCEPT ![ControlFile[p]] = control.dst]
  /\ bak' = [bak EXCEPT ![ControlFile[p]] = control.bak]

\* The control file is moved to its backup, unless the move fails or an old backup
\* stays in its way, and the backup is deleted, if it can be.
RemovePackageFiles(p) ==
  LET c    == ControlFile[p]
      gone == [dst |-> NoFile, bak |-> NoFile]
      kept == [dst |-> dst[c], bak |-> NoFile]
  IN \/ PackageFilesRemoved(p, {}, gone) /\ NoFault
     \/ PackageFilesRemoved(p, {}, kept) /\ Fault("remove")
     \/ /\ \E left \in SUBSET {"dst", "tmp", "bak"},
              control \in {gone, [dst |-> NoFile, bak |-> dst[c]]} \cup
                          (IF bak[c] # NoFile THEN {kept, [dst |-> dst[c], bak |-> bak[c]]} ELSE {}) :
              PackageFilesRemoved(p, left, control)
        /\ mfDst'[p] \cup mfTmp'[p] \cup mfBak'[p] # {} \/ dst'[c] # NoFile \/ bak'[c] # NoFile
        /\ Fault("delete")

PostRemovePackage ==
  /\ state = "post_remove" /\ filesBeingRemoved = {}
  /\ \E p \in packagesBeingRemoved :
       /\ packagesBeingRemoved' = packagesBeingRemoved \ {p}
       /\ \/ /\ p \in packagesBeingUnpacked
             /\ UNCHANGED <<curstat, dst, bak, mfVars>> /\ NoFault
          \/ /\ p \notin packagesBeingUnpacked
             /\ curstat' = [curstat EXCEPT ![p].state = removed]
             /\ RemovePackageFiles(p)
  /\ UNCHANGED <<state, pkgname, disk, tmp, dirs, packagesToUnpack, packagesPreUnpacked,
                 packagesBeingUnpacked, packagesToRemove, packagesCannotProcess,
                 existingModulePackages, moduleVersion, fileVars, sessionVars>>

PostRemoveDone ==
  /\ state = "post_remove" /\ filesBeingRemoved = {} /\ packagesBeingRemoved = {}
  /\ Progress("create_empty_dirs")

CreateEmptyDir ==
  /\ state = "create_empty_dirs"
  /\ \E d \in emptyDirsToCreate :
       \/ /\ dirs' = dirs \cup {d}
          /\ dirsCreated' = dirsCreated \cup {d}
          /\ emptyDirsToCreate' = emptyDirsToCreate \ {d}
          /\ NoFault
          /\ UNCHANGED <<state, statVars, sessionVars>>
       \/ Fault("mkdir") /\ Throw /\ UNCHANGED <<dirs, dirsCreated, emptyDirsToCreate>>
  /\ UNCHANGED <<pkgname, dst, tmp, bak, mfVars, packageVars, unpackVars, removeVars,
                 emptyDirsToCheck, dirsToRemove, dirsRemoved>>

CreateEmptyDirsDone ==
  /\ state = "create_empty_dirs" /\ emptyDirsToCreate = {}
  /\ Progress("post_unpack")

PostUnpackPackage ==
  /\ state = "post_unpack"
  /\ \E p \in packagesBeingUnpacked :
       LET overwrite == prevstat[p].state >= removed
           cleared   == IF overwrite THEN [bak EXCEPT ![ControlFile[p]] = NoFile] ELSE bak
           noBackup  == [mfBak EXCEPT ![p] = {}]
       IN
       \/ /\ mfDst' = [mfDst EXCEPT ![p] = mfTmp[p]]
          /\ mfTmp' = [mfTmp EXCEPT ![p] = {}]
          /\ \/ bak' = cleared /\ mfBak' = noBackup /\ NoFault
             \/ /\ bak' \in {cleared, bak}
                /\ mfBak' \in {noBackup, [mfBak EXCEPT ![p] = ManifestLeft(p)]}
                /\ <<bak', mfBak'>> # <<cleared, noBackup>>
                /\ Fault("delete")
          /\ curstat' = [curstat EXCEPT ![p].state = unpacked]
          /\ packagesBeingUnpacked' = packagesBeingUnpacked \ {p}
          /\ UNCHANGED <<state, disk, sessionVars>>
       \/ /\ bak' = cleared
          /\ Fault("activate") /\ Throw
          /\ \/ UNCHANGED <<mfDst, mfBak>>
             \/ /\ mfDst[p] # {}
                /\ mfBak' = [mfBak EXCEPT ![p] = mfDst[p]]
                /\ mfDst' = [mfDst EXCEPT ![p] = {}]
          /\ UNCHANGED <<mfTmp, packagesBeingUnpacked>>
  /\ UNCHANGED <<pkgname, dst, tmp, dirs, packagesToUnpack, packagesPreUnpacked, packagesToRemove,
                 packagesBeingRemoved, packagesCannotProcess, existingModulePackages,
                 moduleVersion, fileVars>>

\* update_existing_modules(): the manifests of "moved" are moved into place, and
\* the packages of "updated" become installed in the version of their module.
UpdateExistingModules(moved, updated) ==
  /\ mfDst' = [p \in Package |-> IF p \in moved THEN mfTmp[p] ELSE mfDst[p]]
  /\ mfTmp' = [p \in Package |-> IF p \in moved THEN {} ELSE mfTmp[p]]
  /\ curstat' = [p \in Package |-> IF p \in updated
                                   THEN [state |-> installed, version |-> moduleVersion[p]]
                                   ELSE curstat[p]]
  /\ existingModulePackages' = {}

PostUnpackDone ==
  /\ state = "post_unpack" /\ packagesBeingUnpacked = {}
  /\ \/ /\ UpdateExistingModules(existingModulePackages, existingModulePackages)
        /\ NoFault
        /\ CommitStatus /\ state' = "done"
     \/ \* an exception for one module is caught, and the others are updated
        /\ Fault("module")
        /\ \E moved, updated \in SUBSET existingModulePackages :
             /\ updated \subseteq moved /\ updated # existingModulePackages
             /\ UpdateExistingModules(moved, updated)
        /\ CommitStatus /\ state' = "done"
     \/ \* the status table cannot be written after the modules have been updated
        \* (that both fail is left out)
        /\ Fault("commit")
        /\ mfDst' = [p \in Package |-> IF p \in existingModulePackages THEN mfTmp[p] ELSE mfDst[p]]
        /\ mfTmp' = [p \in Package |-> IF p \in existingModulePackages THEN {} ELSE mfTmp[p]]
        /\ existingModulePackages' = {}
        /\ Throw
  /\ UNCHANGED <<pkgname, fsVars, mfBak, packagesToUnpack, packagesPreUnpacked,
                 packagesBeingUnpacked, packagesToRemove, packagesBeingRemoved,
                 packagesCannotProcess, moduleVersion, fileVars, sessionVars>>

-------------------------------------------------------------------------------
(* Backing out.                                                            *)

UnwindCreateEmptyDir ==
  /\ state = "unwind_create_empty_dirs"
  /\ \E d \in dirsCreated :
       /\ \/ dirs' = dirs \ {d} /\ NoFault
          \/ UNCHANGED dirs /\ Fault("delete")
       /\ dirsCreated' = dirsCreated \ {d}
  /\ UNCHANGED <<state, pkgname, statVars, dst, tmp, bak, mfVars, packageVars, unpackVars,
                 removeVars, emptyDirsToCheck, emptyDirsToCreate, dirsToRemove, dirsRemoved,
                 sessionVars>>

UnwindCreateEmptyDirsDone ==
  /\ state = "unwind_create_empty_dirs" /\ dirsCreated = {}
  /\ Progress("unwind_replace")

\* unwind_replace_file(): the backup is restored if there should be one and
\* there is one; otherwise the file is deleted, or stays if it cannot be.
RestoreFile(f, overwrite) ==
  \/ /\ overwrite /\ bak[f] # NoFile
     /\ dst' = [dst EXCEPT ![f] = bak[f]] /\ bak' = [bak EXCEPT ![f] = NoFile] /\ NoFault
  \/ overwrite /\ bak[f] = NoFile /\ UNCHANGED <<dst, bak>> /\ NoFault
  \/ ~overwrite /\ dst' = [dst EXCEPT ![f] = NoFile] /\ UNCHANGED bak /\ NoFault
  \/ ~overwrite /\ Fault("delete") /\ UNCHANGED <<dst, bak>>

\* The new file has been deleted or not when the move back fails.
RestoreFileFails(f, overwrite) ==
  /\ overwrite /\ bak[f] # NoFile
  /\ Fault("restore") /\ Throw
  /\ dst' \in {dst, [dst EXCEPT ![f] = NoFile]}
  /\ UNCHANGED bak

UnwindReplaceFile ==
  /\ state = "unwind_replace"
  /\ \E f \in filesUnpacked :
       LET overwrite == f \in filesBeingRemoved IN
       \/ /\ RestoreFile(f, overwrite)
          /\ filesBeingRemoved' = filesBeingRemoved \ {f}
          /\ filesUnpacked' = filesUnpacked \ {f}
          /\ UNCHANGED <<state, statVars, sessionVars>>
       \/ RestoreFileFails(f, overwrite) /\ UNCHANGED <<filesBeingRemoved, filesUnpacked>>
  /\ UNCHANGED <<pkgname, tmp, dirs, mfVars, packageVars, filesToUnpack, filesBeingUnpacked,
                 filesToRemove, filesThatConflict, dirVars>>

UnwindReplaceDone ==
  /\ state = "unwind_replace" /\ filesUnpacked = {}
  /\ Progress("unwind_remove")

\* filesBeingRemoved is empty in unwind_remove: its files have been replaced,
\* or their backups deleted.  (A file replaced by a directory would be in it.)
UnwindRemoveDir ==
  /\ state = "unwind_remove"
  /\ \E d \in dirsRemoved :
       \/ /\ dirs' = dirs \cup {d} /\ dirsRemoved' = dirsRemoved \ {d}
          /\ NoFault
          /\ UNCHANGED <<state, statVars, sessionVars>>
       \/ Fault("mkdir") /\ Throw /\ UNCHANGED <<dirs, dirsRemoved>>
  /\ UNCHANGED <<pkgname, dst, tmp, bak, mfVars, packageVars, unpackVars, removeVars,
                 emptyDirsToCheck, emptyDirsToCreate, dirsToRemove, dirsCreated>>

UnwindRemoveDone ==
  /\ state = "unwind_remove" /\ filesBeingRemoved = {} /\ dirsRemoved = {}
  /\ Progress("unwind_pre_install_triggers")

UnwindPreInstallTriggers == state = "unwind_pre_install_triggers" /\ Progress("unwind_unpack")

UnwindUnpackFile ==
  /\ state = "unwind_unpack"
  /\ \E f \in filesBeingUnpacked :
       /\ \/ tmp' = [tmp EXCEPT ![f] = NoFile] /\ NoFault
          \/ UNCHANGED tmp /\ Fault("delete")
       /\ filesBeingUnpacked' = filesBeingUnpacked \ {f}
  /\ UNCHANGED <<state, pkgname, statVars, dst, bak, dirs, mfVars, packageVars, filesToUnpack,
                 filesUnpacked, removeVars, dirVars, sessionVars>>

\* The control file is restored; the merged manifest stays.
UnwindUnpackPackage ==
  /\ state = "unwind_unpack" /\ filesBeingUnpacked = {}
  /\ \E p \in packagesBeingUnpacked :
       LET overwrite == prevstat[p].state >= removed IN
       \/ /\ RestoreFile(ControlFile[p], overwrite)
          /\ packagesPreUnpacked' = packagesPreUnpacked \cup {p}
          /\ packagesBeingUnpacked' = packagesBeingUnpacked \ {p}
          /\ UNCHANGED <<state, statVars, sessionVars>>
       \/ /\ RestoreFileFails(ControlFile[p], overwrite)
          /\ UNCHANGED <<packagesPreUnpacked, packagesBeingUnpacked>>
  /\ UNCHANGED <<pkgname, tmp, dirs, mfVars, packagesToUnpack, packagesToRemove,
                 packagesBeingRemoved, packagesCannotProcess, existingModulePackages,
                 moduleVersion, fileVars>>

UnwindUnpackDone ==
  /\ state = "unwind_unpack" /\ filesBeingUnpacked = {} /\ packagesBeingUnpacked = {}
  /\ Progress("unwind_remove_files_replaced_by_dirs")

UnwindRemoveFilesReplacedByDirs ==
  state = "unwind_remove_files_replaced_by_dirs" /\ Progress("unwind_pre_remove_triggers")
UnwindPreRemoveTriggers ==
  state = "unwind_pre_remove_triggers" /\ Progress("unwind_copy_post_remove")
UnwindCopyPostRemove ==
  state = "unwind_copy_post_remove" /\ Progress("unwind_pre_remove")

Restored_StateOnly(p) == [curstat EXCEPT ![p].state = prevstat[p].state]
Restored(p) == [curstat EXCEPT ![p] = prevstat[p]]

UnwindPreRemovePackage ==
  /\ state = "unwind_pre_remove"
  /\ \E p \in packagesBeingRemoved :
       /\ curstat' = IF prevstat[p].state >= unpacked THEN Restored(p) ELSE curstat
       /\ packagesBeingRemoved' = packagesBeingRemoved \ {p}
  /\ NoFault
  /\ UNCHANGED <<state, pkgname, disk, fsVars, mfVars, packagesToUnpack, packagesPreUnpacked,
                 packagesBeingUnpacked, packagesToRemove, packagesCannotProcess,
                 existingModulePackages, moduleVersion, fileVars, sessionVars>>

UnwindPreRemoveDone ==
  /\ state = "unwind_pre_remove" /\ packagesBeingRemoved = {}
  /\ Progress("unwind_pre_unpack")

UnwindPreUnpackPackage ==
  /\ state = "unwind_pre_unpack"
  /\ \E p \in packagesPreUnpacked :
       /\ curstat' = IF prevstat[p].state <= removed
                     THEN [curstat EXCEPT ![p].state = removed] ELSE curstat
       /\ packagesPreUnpacked' = packagesPreUnpacked \ {p}
  /\ NoFault
  /\ UNCHANGED <<state, pkgname, disk, fsVars, mfVars, packagesToUnpack, packagesBeingUnpacked,
                 packagesToRemove, packagesBeingRemoved, packagesCannotProcess,
                 existingModulePackages, moduleVersion, fileVars, sessionVars>>

UnwindPreUnpackDone ==
  /\ state = "unwind_pre_unpack" /\ packagesPreUnpacked = {}
  /\ \/ /\ UNCHANGED curstat /\ CommitStatus
        /\ state' = "fail"
        /\ NoFault
        /\ UNCHANGED sessionVars
     \/ Fault("commit") /\ Throw
  /\ UNCHANGED <<pkgname, fsVars, mfVars, packageVars, fileVars>>

-------------------------------------------------------------------------------
PrePoll     == PreUnpackCheckFile \/ PreUnpackCheckEmptyDir \/ PreUnpackSelectPackage
                 \/ PreUnpackDone \/ PreRemoveSelectPackage \/ PreRemoveDone
ForwardPoll == CopyPostRemove \/ RunPreRemoveTriggers \/ RemoveFilesReplacedByDirs
                 \/ UnpackFile \/ UnpackSelectPackage \/ UnpackDone \/ RunPreInstallTriggers
                 \/ ReplaceFile \/ ReplaceCheckEmptyDir \/ ReplaceDone
                 \/ RemoveFile \/ RemoveDir \/ RemoveDone
FinalPoll   == PostRemoveFile \/ PostRemovePackage \/ PostRemoveDone
                 \/ CreateEmptyDir \/ CreateEmptyDirsDone
                 \/ PostUnpackPackage \/ PostUnpackDone
UnwindPoll  == UnwindCreateEmptyDir \/ UnwindCreateEmptyDirsDone
                 \/ UnwindReplaceFile \/ UnwindReplaceDone
                 \/ UnwindRemoveDir \/ UnwindRemoveDone
                 \/ UnwindPreInstallTriggers \/ UnwindUnpackFile \/ UnwindUnpackPackage
                 \/ UnwindUnpackDone \/ UnwindRemoveFilesReplacedByDirs
                 \/ UnwindPreRemoveTriggers \/ UnwindCopyPostRemove
                 \/ UnwindPreRemovePackage \/ UnwindPreRemoveDone
                 \/ UnwindPreUnpackPackage \/ UnwindPreUnpackDone

\* unpack::_poll().  It does nothing in done and fail.
Poll == PrePoll \/ ForwardPoll \/ FinalPoll \/ UnwindPoll

Next == Begin \/ Poll \/ Finish \/ Crash

\* The front end goes on polling until the operation has ended.
Spec == Init /\ [][Next]_vars /\ WF_vars(Poll)

-------------------------------------------------------------------------------
(* Properties.                                                             *)

\* Every variable has its type; the working sets hold packages, files or
\* directories as the comments of unpack.h say.
TypeOK ==
  /\ state \in State /\ pkgname \in Package \cup {NoPackage}
  /\ curstat \in [Package -> Status] /\ disk \in [Package -> Status]
  /\ selstat \in [Package -> Status] /\ prevstat \in [Package -> Status]
  /\ dst \in SomeFile /\ tmp \in SomeFile /\ bak \in SomeFile /\ dirs \subseteq Dir
  /\ mfDst \in [Package -> SUBSET (File \cup Dir)]
  /\ mfTmp \in [Package -> SUBSET (File \cup Dir)]
  /\ mfBak \in [Package -> SUBSET (File \cup Dir)]
  /\ packagesToUnpack \subseteq Package /\ packagesPreUnpacked \subseteq Package
  /\ packagesBeingUnpacked \subseteq Package /\ packagesToRemove \subseteq Package
  /\ packagesBeingRemoved \subseteq Package /\ packagesCannotProcess \subseteq Package
  /\ existingModulePackages \subseteq Package
  /\ moduleVersion \in [Package -> Version \cup {0}]
  /\ filesToUnpack \subseteq File \cup Dir
  /\ filesBeingUnpacked \subseteq File /\ filesUnpacked \subseteq File
  /\ filesToRemove \subseteq File /\ filesBeingRemoved \subseteq File
  /\ filesThatConflict \subseteq File
  /\ emptyDirsToCheck \subseteq Dir /\ emptyDirsToCreate \subseteq Dir
  /\ dirsToRemove \subseteq Dir /\ dirsRemoved \subseteq Dir /\ dirsCreated \subseteq Dir
  /\ faults \in Nat /\ failed \subseteq Faults /\ sessions \in Nat
  /\ orig \in SomeFile /\ committed \in BOOLEAN

\* Nothing is lost before the point of no return: a file that was on the disc
\* when the session began is at its destination or in its backup, whatever has
\* failed, and after a crash.
FilesRecoverable ==
  ~committed => \A f \in File : orig[f] # NoFile => orig[f] \in {dst[f], bak[f]}

\* A package the status file says is unpacked or installed has all its files in
\* place, in its version, at every moment and so after a crash at any moment;
\* unless moving a new file into place or making a directory has failed.  Of a
\* package with just a module that is the module, which may be from elsewhere.
InstalledIntact ==
  failed \cap {"replace", "mkdir"} = {} =>
    \A p \in Package : disk[p].state >= unpacked =>
      IF ModuleFile[p] \in Contents[p][disk[p].version]
      THEN /\ dst[ModuleFile[p]] # NoFile
           /\ dst[ModuleFile[p]].version = disk[p].version
      ELSE \A f \in File \cap Contents[p][disk[p].version] :
             dst[f] = [owner |-> p, version |-> disk[p].version]

\* A file that came with a package can be got rid of: the status file says
\* there is something to remove, and a manifest that pre_remove reads has it;
\* unless moving an old file away or deleting one has failed.
NoOrphans ==
  failed \cap {"remove", "delete"} = {} =>
    \A f \in File, p \in Package :
      dst[f] # NoFile /\ dst[f].owner = p /\ f # ControlFile[p] =>
        disk[p].state > removed /\ f \in ReadManifest(p)

\* From the first change on the disc until the final commit, the packages that
\* are being changed are half-unpacked in the status file.
HalfUnpackedOnDisk ==
  state \in MidState =>
    \A p \in packagesPreUnpacked \cup packagesBeingUnpacked \cup packagesBeingRemoved :
      disk[p].state = half_unpacked

\* When the unwinding reaches the statuses, the files are as they were.
UnwoundStatus == state \in {"unwind_pre_remove", "unwind_pre_unpack"}
PackageFile == File \ {ControlFile[p] : p \in Package}

FilesAsBefore == UnwoundStatus => \A f \in PackageFile : dst[f] = orig[f]

\* When the unwinding of a session reaches the statuses, no file that was there
\* has changed but one that could not be replaced, and that one is in its backup; and
\* no file is there that was not, but one that could not be deleted.
FilesBackedOut ==
  UnwoundStatus /\ ~committed =>
    LET changed == {f \in PackageFile : dst[f] # orig[f]}
        lost    == {f \in changed : orig[f] # NoFile}
    IN /\ lost # {} => "replace" \in failed
       /\ \A f, g \in lost : f = g
       /\ \A f \in lost : dst[f] = NoFile /\ bak[f] = orig[f]
       /\ changed # lost => "delete" \in failed

\* The packages that a module found on the machine serves as.
Served == {p \in Package : moduleVersion[p] # 0}

\* A session that fails before the point of no return leaves every package as
\* it was before, in the status file too: those that were unpacked or better in
\* their state and version, those that were not, removed; unless the status
\* file cannot be written or a backup cannot be restored.  (Not so for a package
\* that a module was to serve as: it stays half-unpacked.)
StatusBackedOut ==
  state = "fail" /\ ~committed /\ failed \cap {"commit", "restore"} = {} =>
    \A p \in Package \ Served :
      /\ prevstat[p].state >= unpacked => disk[p] = prevstat[p]
      /\ prevstat[p].state <= removed => disk[p].state <= removed

\* A session that ends well has left every package as it was selected, with the
\* manifest of the version that has been unpacked, or without one if it could be
\* deleted; but for those that a module serves as, which ModuleServes is about.
DoneAsSelected ==
  state = "done" =>
    \A p \in Package \ Served :
      IF selstat[p].state = installed
      THEN /\ disk[p].state >= unpacked /\ disk[p].version = selstat[p].version
           /\ disk[p] # prevstat[p] => mfDst[p] = Contents[p][selstat[p].version]
      ELSE /\ disk[p].state <= removed
           /\ prevstat[p].state > removed /\ "delete" \notin failed => ReadManifest(p) = {}

\* A session that ends well leaves a package with just a module in the selected
\* version, or in a later one that was found on the machine; unless the
\* database could not be updated for it.
ModuleServes ==
  state = "done" /\ "module" \notin failed =>
    \A p \in Package :
      ModuleFile[p] # NoFile /\ selstat[p].state = installed =>
        disk[p].state >= unpacked /\ disk[p].version >= selstat[p].version

\* What the source says where the files are in place: "This is the point of no
\* return."  From there on the session is never backed out.
PointOfNoReturn == committed => state \notin UnwindState

\* A session that has begun ends, whatever fails in it.
SessionEnds == state \notin EndState ~> state \in EndState

\* When nothing fails any more, the packages on the system can be removed,
\* whatever earlier sessions and crashes have left.
RemovalSucceeds ==
  /\ state = "pre_unpack" /\ faults = MaxFaults[sessions]
  /\ \A p \in Package : selstat[p].state <= removed
  ~> state = "done" /\ \A p \in Package : disk[p].state <= removed
===============================================================================
