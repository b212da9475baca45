--------------------------------- MODULE Commit --------------------------------
(***************************************************************************)
(* A whole operation (commit.h, commit.cc): the packages are downloaded    *)
(* where there is no valid archive in the cache, unpacked by an unpack     *)
(* object with its triggers, configured, purged, and their last triggers   *)
(* run.                                                                    *)
(*                                                                         *)
(* An action is a poll of the commit object, a poll of the unpack object,  *)
(* or a call from outside: the end of a transfer or of a trigger.  A poll  *)
(* of Unpack that has to do with triggers is given here in its single      *)
(* steps; every other one is Unpack's.                                     *)
(*                                                                         *)
(* The operation is on all packages.  Changing component paths, system     *)
(* variables, sprites and boot files are steps that leave alone all that   *)
(* is modelled, and the first may fail.                                    *)
(***************************************************************************)
EXTENDS Unpack, Triggers

CONSTANT NoDownload

VARIABLES
  commitState,          \* commit::_state, or "none" when there is no commit object
  packagesToProcess,
  packagesToDownload,
  packagesReady,        \* commit::_packages_to_unpack
  packagesToConfigure,
  packagesToPurge,
  dload,                \* the transfer: [pkg, state]
  cached                \* the packages whose archive in the cache would be verified

commitSets == <<packagesToProcess, packagesToDownload, packagesReady, packagesToConfigure,
                packagesToPurge>>
commitVars == <<commitState, commitSets, dload, cached>>
allVars    == <<vars, triggerVars, commitVars>>

ASSUME CommitAssumption ==
  /\ \A s \in {PreInstallScript, PostInstallScript, PreRemoveScript, PostRemoveScript} :
       s \in [Package -> File]
  /\ NoDownload \notin Package

\* What the triggers of packages are, for the theorems that need them to be so.  The
\* triggers of a package are among its control files, so a package with just a module
\* could have some; none has.
ModulesHaveNoTriggers ==
  \A p \in Package, v \in Version : ModuleFile[p] # NoFile => Scripts(p) \cap Contents[p][v] = {}

\* Every version of a package has the same triggers.
SameScripts ==
  \A p \in Package, v, w \in Version : Scripts(p) \cap Contents[p][v] = Scripts(p) \cap Contents[p][w]

CommitInit ==
  /\ Init /\ TriggersInit
  /\ commitState = "none"
  /\ packagesToProcess = {} /\ packagesToDownload = {} /\ packagesReady = {}
  /\ packagesToConfigure = {} /\ packagesToPurge = {}
  /\ dload = NoDownload /\ cached = {}

\* The commit object goes to state s, and that is all.
Goto(s) == commitState' = s /\ UNCHANGED <<vars, triggerVars, commitSets, dload, cached>>

-------------------------------------------------------------------------------
(* Up to the unpacking.                                                    *)

\* commit::commit().  The cache holds what earlier operations have left there.  (The
\* bound on the faults of a session is one of those before it too.)
CommitBegin ==
  /\ commitState = "none" /\ CanBegin
  /\ commitState' = "paths"
  /\ Select
  /\ packagesToProcess' = Package
  /\ packagesToDownload' = {} /\ packagesReady' = {}
  /\ packagesToConfigure' = {} /\ packagesToPurge' = {}
  /\ dload' = NoDownload
  /\ cached' \in SUBSET Package
  /\ ran' = <<>>
  /\ UNCHANGED <<state, pkgname, statVars, fsVars, mfVars, packageVars, fileVars, faults, failed,
                 orig, committed, queueVars, unwindVars, copyVars, trigger>>

\* The component paths are changed, or cannot be.
Paths ==
  /\ commitState = "paths"
  /\ \/ Goto("pre_download")
     \/ /\ Fault("paths")
        /\ commitState' = "fail"
        /\ UNCHANGED <<state, pkgname, statVars, fsVars, mfVars, packageVars, fileVars, sessionVars,
                       triggerVars, commitSets, dload, cached>>

PreDownloadPackage ==
  /\ commitState = "pre_download"
  /\ \E p \in packagesToProcess :
       /\ packagesToProcess' = packagesToProcess \ {p}
       /\ IF UnpackReq(curstat[p], selstat[p]) /\ p \notin cached
          THEN packagesToDownload' = packagesToDownload \cup {p} /\ UNCHANGED packagesReady
          ELSE packagesReady' = packagesReady \cup {p} /\ UNCHANGED packagesToDownload
  /\ UNCHANGED <<vars, triggerVars, commitState, packagesToConfigure, packagesToPurge, dload, cached>>

PreDownloadDone == commitState = "pre_download" /\ packagesToProcess = {} /\ Goto("download")

\* The archive in the cache is overwritten as the transfer goes on.
DownloadPackage ==
  /\ commitState = "download" /\ dload = NoDownload
  /\ \E p \in packagesToDownload :
       /\ dload' = [pkg |-> p, state |-> "download"]
       /\ cached' = cached \ {p}
  /\ UNCHANGED <<vars, triggerVars, commitState, commitSets>>

\* From outside: the whole archive has come, or something else, or nothing.
DownloadEnds ==
  /\ dload # NoDownload /\ dload.state = "download"
  /\ \/ /\ dload' = [dload EXCEPT !.state = "done"]
        /\ cached' = cached \cup {dload.pkg}
        /\ NoFault
     \/ /\ \E s \in {"done", "fail"} : dload' = [dload EXCEPT !.state = s]
        /\ Fault("download")
        /\ UNCHANGED cached
  /\ UNCHANGED <<state, pkgname, statVars, fsVars, mfVars, packageVars, fileVars, sessionVars,
                 triggerVars, commitState, commitSets>>

Downloaded_Unverified(p) == TRUE
Downloaded(p) == p \in cached

\* A package is ready when its archive has been verified.
DownloadDone ==
  /\ commitState = "download" /\ dload # NoDownload /\ dload.state # "download"
  /\ dload' = NoDownload
  /\ IF dload.state = "done" /\ Downloaded(dload.pkg)
     THEN /\ packagesReady' = packagesReady \cup {dload.pkg}
          /\ packagesToDownload' = packagesToDownload \ {dload.pkg}
          /\ UNCHANGED commitState
     ELSE /\ commitState' = "fail"
          /\ UNCHANGED <<packagesReady, packagesToDownload>>
  /\ UNCHANGED <<vars, triggerVars, packagesToProcess, packagesToConfigure, packagesToPurge, cached>>

DownloadsDone ==
  /\ commitState = "download" /\ dload = NoDownload /\ packagesToDownload = {}
  /\ Goto("unpack")

-------------------------------------------------------------------------------
(* Unpacking.                                                              *)

UnpackBegin ==
  /\ commitState = "unpack" /\ state = "idle"
  /\ UNCHANGED <<sessions, selstat, prevstat, triggerVars, commitVars>>
  /\ NewUnpack

\* The triggers go to the commit object.
UnpackEnded_NotDetached ==
  /\ commitState = "unpack" /\ state = "done"
  /\ Finish
  /\ commitState' = "configure"
  /\ packagesToConfigure' = packagesReady /\ packagesReady' = packagesToConfigure
  /\ DropTriggers
  /\ UNCHANGED <<packagesToProcess, packagesToDownload, packagesToPurge, dload, cached>>
UnpackEnded ==
  /\ commitState = "unpack" /\ state = "done"
  /\ Finish
  /\ commitState' = "configure"
  /\ packagesToConfigure' = packagesReady /\ packagesReady' = packagesToConfigure
  /\ UNCHANGED <<triggerVars, packagesToProcess, packagesToDownload, packagesToPurge, dload, cached>>

UnpackFailed ==
  /\ commitState = "unpack" /\ state = "fail"
  /\ Finish
  /\ commitState' = "fail"
  /\ DropTriggers
  /\ UNCHANGED <<commitSets, dload, cached>>

\* The version of the script that the trigger would find.
VersionOf(o) == IF o = NoFile THEN 0 ELSE o.version
Found(action, p) ==
  CASE action = "pre_remove"        -> VersionOf(dst[PreRemoveScript[p]])
    [] action = "pre_install"       -> VersionOf(tmp[PreInstallScript[p]])
    [] action = "post_install"      -> VersionOf(dst[PostInstallScript[p]])
    [] action = "abort_pre_remove"  -> VersionOf(dst[PostInstallScript[p]])
    [] action = "abort_pre_install" -> VersionOf(tmp[PostRemoveScript[p]])
    [] action = "post_remove"       ->
         LET copies == {c \in saved : c.file = PostRemoveScript[p]}
         IN IF copies = {} THEN 0 ELSE (CHOOSE c \in copies : TRUE).version

\* The packages whose files are noted to be unpacked and removed in this step.
SelectToUnpack ==
  /\ PreUnpackSelectPackage
  /\ \/ packagesPreUnpacked' = packagesPreUnpacked /\ UNCHANGED triggerVars
     \/ \E p \in packagesPreUnpacked' \ packagesPreUnpacked :
          AddInstallTriggers(p, Contents[p][selstat[p].version])

SelectToRemove ==
  /\ PreRemoveSelectPackage
  /\ \E p \in packagesBeingRemoved' \ packagesBeingRemoved : AddRemoveTriggers(p, ReadManifest(p))

SaveTrigger ==
  /\ state = "copy_post_remove"
  /\ \E f \in postRemoveFilesToCopy :
       \/ dst[f] # NoFile /\ CopyPostRemoveFile(f, dst[f].version) /\ UNCHANGED vars
       \/ dst[f] # NoFile /\ CopyPostRemoveFileFails(f, TRUE)
            /\ CopyPostRemove /\ state' = "unwind_copy_post_remove"
       \/ \* a copy that cannot be deleted is in the way of the new one
          /\ CopyPostRemoveFileFails(f, FALSE) /\ \E c \in saved : c.file = f
          /\ state' = "unwind_copy_post_remove" /\ Fault("delete")
          /\ UNCHANGED <<pkgname, statVars, fsVars, mfVars, packageVars, fileVars, sessionVars>>
       \/ dst[f] = NoFile /\ CopyPostRemoveFileFails(f, TRUE) /\ Progress("unwind_copy_post_remove")

SaveTriggersDone ==
  /\ postRemoveFilesToCopy = {}
  /\ CopyPostRemove /\ state' = "run_pre_remove_triggers"
  /\ UNCHANGED triggerVars

\* The end of a trigger that may make the session fail.
TriggerSucceeded(s) ==
  /\ state = s /\ Finished /\ trigger.state = "success"
  /\ DropTrigger /\ UNCHANGED vars
TriggerFailed(s, Run, failure) ==
  /\ state = s /\ Finished /\ trigger.state = "error"
  /\ DropTrigger
  /\ IF ran[Len(ran)].version = 0 THEN Progress(failure) ELSE Run /\ state' = failure

PreRemoveTrigger ==
  \/ /\ state = "run_pre_remove_triggers" /\ trigger = NoTrigger
     /\ \E p \in preRemove : NextPreRemove(p, Found("pre_remove", p))
     /\ UNCHANGED vars
  \/ TriggerSucceeded("run_pre_remove_triggers")
  \/ TriggerFailed("run_pre_remove_triggers", RunPreRemoveTriggers, "unwind_pre_remove_triggers")

PreRemoveTriggersDone ==
  /\ trigger = NoTrigger /\ preRemove = {}
  /\ RunPreRemoveTriggers /\ state' = "remove_files_replaced_by_dirs"
  /\ UNCHANGED triggerVars

PreInstallTrigger ==
  \/ /\ state = "run_pre_install_triggers" /\ trigger = NoTrigger
     /\ \E p \in preInstall : NextPreInstall(p, Found("pre_install", p))
     /\ UNCHANGED vars
  \/ TriggerSucceeded("run_pre_install_triggers")
  \/ TriggerFailed("run_pre_install_triggers", RunPreInstallTriggers, "unwind_pre_install_triggers")

PreInstallTriggersDone ==
  /\ trigger = NoTrigger /\ preInstall = {}
  /\ RunPreInstallTriggers /\ state' = "replace"
  /\ UNCHANGED triggerVars

\* In the unwinding, how a trigger ends makes no difference.
UnwindPreInstallTrigger ==
  /\ state = "unwind_pre_install_triggers"
  /\ \/ Finished /\ DropTrigger
     \/ trigger = NoTrigger
          /\ \E p \in preInstallUnwind : NextPreInstallUnwind(p, Found("abort_pre_install", p))
  /\ UNCHANGED vars

UnwindPreInstallTriggersDone ==
  /\ trigger = NoTrigger /\ preInstallUnwind = {}
  /\ UnwindPreInstallTriggers
  /\ UNCHANGED triggerVars

UnwindPreRemoveTrigger ==
  /\ state = "unwind_pre_remove_triggers"
  /\ \/ Finished /\ DropTrigger
     \/ trigger = NoTrigger
          /\ \E p \in preRemoveUnwind : NextPreRemoveUnwind(p, Found("abort_pre_remove", p))
  /\ UNCHANGED vars

UnwindPreRemoveTriggersDone ==
  /\ trigger = NoTrigger /\ preRemoveUnwind = {}
  /\ UnwindPreRemoveTriggers
  /\ UNCHANGED triggerVars

\* A copy is deleted, or noted no more though it cannot be.
RemoveCopy ==
  /\ \E f \in postRemoveFiles :
       \/ RemovePostRemoveFile(f, TRUE) /\ NoFault
       \/ RemovePostRemoveFile(f, FALSE) /\ Fault("delete")
  /\ UNCHANGED <<state, pkgname, statVars, fsVars, mfVars, packageVars, fileVars, sessionVars>>

UnwindSaveTrigger == state = "unwind_copy_post_remove" /\ RemoveCopy

UnwindSaveTriggersDone_Early == UnwindCopyPostRemove /\ UNCHANGED triggerVars
UnwindSaveTriggersDone ==
  /\ postRemoveFiles = {}
  /\ UnwindCopyPostRemove
  /\ UNCHANGED triggerVars

\* The polls that have nothing to do with triggers.
FilePoll ==
  /\ \/ PreUnpackCheckFile \/ PreUnpackCheckEmptyDir \/ PreUnpackDone \/ PreRemoveDone
     \/ RemoveFilesReplacedByDirs \/ UnpackFile \/ UnpackSelectPackage \/ UnpackDone
     \/ ReplaceFile \/ ReplaceCheckEmptyDir \/ ReplaceDone
     \/ RemoveFile \/ RemoveDir \/ RemoveDone
     \/ FinalPoll
     \/ UnwindCreateEmptyDir \/ UnwindCreateEmptyDirsDone
     \/ UnwindReplaceFile \/ UnwindReplaceDone \/ UnwindRemoveDir \/ UnwindRemoveDone
     \/ UnwindUnpackFile \/ UnwindUnpackPackage \/ UnwindUnpackDone
     \/ UnwindRemoveFilesReplacedByDirs
     \/ UnwindPreRemovePackage \/ UnwindPreRemoveDone
     \/ UnwindPreUnpackPackage \/ UnwindPreUnpackDone
  /\ UNCHANGED triggerVars

UnpackPoll ==
  /\ \/ FilePoll \/ SelectToUnpack \/ SelectToRemove
     \/ SaveTrigger \/ SaveTriggersDone
     \/ PreRemoveTrigger \/ PreRemoveTriggersDone
     \/ PreInstallTrigger \/ PreInstallTriggersDone
     \/ UnwindPreInstallTrigger \/ UnwindPreInstallTriggersDone
     \/ UnwindPreRemoveTrigger \/ UnwindPreRemoveTriggersDone
     \/ UnwindSaveTrigger \/ UnwindSaveTriggersDone
  /\ UNCHANGED commitVars

-------------------------------------------------------------------------------
(* After the unpacking.                                                    *)

\* What unpack and pre-unpack leave in _curstat is changed, not the disc.
Mark(p, s) == [curstat EXCEPT ![p].state = s]

ConfigurePackage ==
  /\ commitState = "configure"
  /\ \E p \in packagesToConfigure :
       /\ curstat' = IF ConfigReq(curstat[p], selstat[p]) /\ ~UnpackReq(curstat[p], selstat[p])
                     THEN Mark(p, installed) ELSE curstat
       /\ packagesToPurge' = packagesToPurge \cup {p}
       /\ packagesToConfigure' = packagesToConfigure \ {p}
  /\ NoFault
  /\ UNCHANGED <<state, pkgname, disk, fsVars, mfVars, packageVars, fileVars, sessionVars,
                 triggerVars, commitState, packagesToProcess, packagesToDownload, packagesReady,
                 dload, cached>>

PurgePackage ==
  /\ commitState = "purge"
  /\ \E p \in packagesToPurge :
       /\ curstat' = IF PurgeReq(curstat[p], selstat[p]) /\ ~RemoveReq(curstat[p], selstat[p])
                     THEN Mark(p, not_present) ELSE curstat
       /\ packagesToPurge' = packagesToPurge \ {p}
  /\ NoFault
  /\ UNCHANGED <<state, pkgname, disk, fsVars, mfVars, packageVars, fileVars, sessionVars,
                 triggerVars, commitState, packagesToProcess, packagesToDownload, packagesReady,
                 packagesToConfigure, dload, cached>>

\* Nothing catches the exception of a status table that cannot be written: the
\* poll ends with it, and the next one tries again.
SaveStatus(from, to) ==
  /\ commitState = from
  /\ \/ UNCHANGED curstat /\ CommitStatus /\ NoFault /\ commitState' = to
     \/ Fault("commit") /\ UNCHANGED <<statVars, commitState>>
  /\ UNCHANGED <<state, pkgname, fsVars, mfVars, packageVars, fileVars, sessionVars, triggerVars,
                 commitSets, dload, cached>>

ConfigureDone == packagesToConfigure = {} /\ SaveStatus("configure", "purge")
PurgeDone_Unsaved == packagesToPurge = {} /\ commitState = "purge" /\ Goto("update_sysvars")
PurgeDone     == packagesToPurge = {} /\ SaveStatus("purge", "update_sysvars")

\* System variables, sprites and boot files.
UpdateSystem ==
  \E step \in {<<"update_sysvars", "update_sprites">>, <<"update_sprites", "update_boot_options">>,
               <<"update_boot_options", "boot_files">>, <<"boot_files", "run_files">>,
               <<"run_files", "add_files_to_apps">>,
               <<"add_files_to_apps", "post_remove_triggers">>} :
    commitState = step[1] /\ Goto(step[2])

\* A post trigger that fails is a warning.
PostTriggerEnded_Well == Finished /\ trigger.state = "success"
PostTriggerEnded == Finished

PostTrigger ==
  /\ \/ commitState \in {"post_remove_triggers", "post_install_triggers"}
          /\ PostTriggerEnded /\ DropTrigger
     \/ /\ commitState = "post_remove_triggers" /\ trigger = NoTrigger
        /\ \E p \in postRemove : NextPostRemove(p, Found("post_remove", p))
     \/ /\ commitState = "post_install_triggers" /\ trigger = NoTrigger
        /\ \E p \in postInstall : NextPostInstall(p, Found("post_install", p))
  /\ UNCHANGED <<vars, commitVars>>

PostTriggersDone ==
  /\ trigger = NoTrigger
  /\ \/ commitState = "post_remove_triggers" /\ postRemove = {} /\ Goto("post_install_triggers")
     \/ commitState = "post_install_triggers" /\ postInstall = {} /\ Goto("cleanup_triggers")

CleanupTrigger == commitState = "cleanup_triggers" /\ RemoveCopy /\ UNCHANGED commitVars

CleanupTriggersDone == commitState = "cleanup_triggers" /\ postRemoveFiles = {} /\ Goto("done")

\* The front end deletes the object.
CommitFinish ==
  /\ commitState \in {"done", "fail"}
  /\ commitState' = "none"
  /\ DropTriggers
  /\ UNCHANGED <<vars, commitSets, dload, cached>>

CommitCrash ==
  /\ commitState # "none" /\ commitState' = "none"
  /\ NoSession /\ Fault("crash") /\ curstat' = disk
  /\ DropTriggers
  /\ UNCHANGED <<commitSets, dload, cached>>

TriggerCallback ==
  /\ TriggerEnds(state \notin UnwindState => "trigger" \in Faults /\ faults < MaxFaults[sessions])
  /\ UNCHANGED <<vars, commitVars>>

CommitPoll ==
  \/ Paths \/ PreDownloadPackage \/ PreDownloadDone
  \/ DownloadPackage \/ DownloadDone \/ DownloadsDone
  \/ UnpackBegin \/ UnpackEnded \/ UnpackFailed
  \/ ConfigurePackage \/ ConfigureDone \/ PurgePackage \/ PurgeDone
  \/ UpdateSystem \/ PostTrigger \/ PostTriggersDone \/ CleanupTrigger \/ CleanupTriggersDone

CommitNext == CommitBegin \/ CommitPoll \/ UnpackPoll \/ CommitFinish \/ CommitCrash
                \/ DownloadEnds \/ TriggerCallback

\* The front end polls both objects, transfers time out and triggers end.
CommitSpec ==
  /\ CommitInit /\ [][CommitNext]_allVars
  /\ WF_allVars(CommitPoll) /\ WF_allVars(UnpackPoll)
  /\ WF_allVars(DownloadEnds) /\ WF_allVars(TriggerCallback)

-------------------------------------------------------------------------------
(* Properties.                                                             *)

\* The sets of the operation and of its triggers hold what their comments say,
\* and a package is in one of the operation's sets at a time.
CommitTypeOK ==
  /\ commitState \in {"none", "paths", "pre_download", "download", "unpack", "configure", "purge",
                      "update_sysvars", "update_sprites", "update_boot_options", "boot_files",
                      "run_files", "add_files_to_apps", "post_remove_triggers",
                      "post_install_triggers", "cleanup_triggers", "done", "fail"}
  /\ LET sets == <<packagesToProcess, packagesToDownload, packagesReady, packagesToConfigure,
                   packagesToPurge>>
     IN \A i \in DOMAIN sets :
          /\ sets[i] \subseteq Package
          /\ \A j \in DOMAIN sets \ {i} : sets[i] \cap sets[j] = {}
  /\ cached \subseteq Package
  /\ dload \in [pkg : Package, state : {"download", "done", "fail"}] \cup {NoDownload}
  /\ preInstall \cup postInstall \cup preRemove \cup postRemove \cup hasInstallUnwind
       \cup hasRemoveUnwind \cup preInstallUnwind \cup preRemoveUnwind \subseteq Package
  /\ postRemoveFilesToCopy \cup postRemoveFiles \subseteq File
  /\ saved \subseteq [file : File, version : Version]
  /\ trigger = NoTrigger \/ trigger.pkg \in Package
  /\ \A i \in DOMAIN ran : ran[i].pkg \in Package /\ ran[i].version \in Version \cup {0}

Ran(action) == {ran[i].pkg : i \in {j \in DOMAIN ran : ran[j].action = action}}

\* Of these, the packages whose script was found.
Undone(action) == {ran[i].pkg : i \in {j \in DOMAIN ran : ran[j].action = action /\ ran[j].version # 0}}

\* Only verified archives are opened: the cache has the archive of every package
\* that is being unpacked, whatever the transfers have brought.
VerifiedArchives ==
  state \in PreState \cup ForwardState =>
    packagesPreUnpacked \cup packagesBeingUnpacked \subseteq cached

\* No trigger is run twice in an operation, and they are run in an order in
\* which each finds the system it expects: pre-remove before pre-install, then
\* either post-remove before post-install or, backwards, the unwinding of
\* pre-install before that of pre-remove.
TriggerOrder ==
  LET rank == [pre_remove |-> 1, pre_install |-> 2, post_remove |-> 3, post_install |-> 4,
               abort_pre_install |-> 5, abort_pre_remove |-> 6]
      aborts == {"abort_pre_install", "abort_pre_remove"}
      posts  == {"post_remove", "post_install"}
  IN \A i, j \in DOMAIN ran : i < j =>
       /\ rank[ran[i].action] <= rank[ran[j].action]
       /\ ran[i].action = ran[j].action => ran[i].pkg # ran[j].pkg
       /\ ~(ran[i].action \in posts /\ ran[j].action \in aborts)

\* The package was not on its way between two states when the operation began,
\* as a crash or a failed unwinding can leave it.
Settled(p) == prevstat[p].state \in {not_present, removed, installed}

\* Every trigger finds its script, in the version it is run for: that of the
\* package before for removing and for going back, that of the selected package
\* for installing; unless moving a file into place or making a directory has
\* failed.
TriggersFindScripts ==
  failed \cap {"replace", "mkdir"} = {} =>
    \A i \in DOMAIN ran :
      LET r == ran[i]
      IN Settled(r.pkg) =>
         r.version = IF r.action \in {"pre_remove", "post_remove", "abort_pre_remove"}
                        THEN prevstat[r.pkg].version ELSE selstat[r.pkg].version

\* When the unpacking has failed before the point of no return and been unwound, the
\* post-remove triggers of the same archives have been asked to undo the pre-install
\* triggers that were run, and the post-install triggers of the packages that were there
\* to undo both kinds, and no others; and they have undone them, as their scripts were
\* found.  (Their scripts may not be found when a file could not be moved into place: that
\* of an archive may have been moved there before, and has been deleted by then.)
TriggersUnwound ==
  state = "fail" /\ ~committed /\ failed \cap {"restore", "mkdir"} = {} =>
    \A p \in Package : Settled(p) =>
      /\ p \in Ran("abort_pre_install") <=>
           p \in Ran("pre_install") /\ PostRemoveScript[p] \in Contents[p][selstat[p].version]
      /\ p \in Ran("abort_pre_remove") <=>
           /\ p \in Ran("pre_remove") \cup Ran("pre_install")
           /\ prevstat[p].state = installed
           /\ PostInstallScript[p] \in Contents[p][prevstat[p].version]
      /\ "replace" \notin failed =>
           \A action \in {"abort_pre_install", "abort_pre_remove"} :
             p \in Ran(action) => p \in Undone(action)

\* An operation that ends well has run the post-remove trigger of every package
\* that it has removed and the post-install trigger of every one it has
\* installed.  (Not so for a package that was on its way: unpacked before a
\* crash, it is configured by the next operation and its trigger is never run.)
PostTriggersRun ==
  commitState = "done" =>
    \A p \in Package : disk[p] # prevstat[p] /\ Settled(p) =>
      /\ prevstat[p].state = installed =>
           (p \in Ran("post_remove") <=> PostRemoveScript[p] \in Contents[p][prevstat[p].version])
      /\ disk[p].state = installed =>
           (p \in Ran("post_install") <=> PostInstallScript[p] \in Contents[p][disk[p].version])

\* Copies of trigger files are gone when the first operation has ended, unless it
\* failed in the unwinding or after the point of no return.  (Later ones find what an
\* operation that was cut off has left, and leave it; a copy that cannot be deleted stays
\* as well.)
CopiesRemoved ==
  /\ sessions = 1 /\ "delete" \notin failed
  /\ \/ commitState = "done"
     \/ commitState = "fail" /\ ~committed /\ failed \cap {"restore", "mkdir"} = {}
  => saved = {}

\* An operation that ends well leaves every package as selected, on the disc:
\* installed in the selected version, removed, or gone altogether.  A package with
\* just a module may be served by a later one that was found on the machine, unless
\* the database could not be updated for it.
CommitDone ==
  commitState = "done" =>
    \A p \in Package :
      IF selstat[p].state # installed
      THEN disk[p].state = selstat[p].state \/ prevstat[p].state = not_present
      ELSE IF ModuleFile[p] = NoFile
      THEN disk[p] = selstat[p]
      ELSE "module" \notin failed =>
             disk[p].state = installed /\ disk[p].version >= selstat[p].version

\* An operation ends, whatever fails in it.
CommitEnds == commitState \notin {"none", "done", "fail"} ~> commitState \in {"none", "done", "fail"}
===============================================================================
