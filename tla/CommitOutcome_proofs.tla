-------------------------- MODULE CommitOutcome_proofs -------------------------
(***************************************************************************)
(* For every set of packages, any cache, any transfers, failures and       *)
(* crashes: how a whole operation leaves the packages and the copies of    *)
(* their triggers.                                                         *)
(***************************************************************************)
EXTENDS Commit_proofs, UnpackOutcome_proofs

\* The states after the last change of a status.
Late == {"update_sysvars", "update_sprites", "update_boot_options", "boot_files", "run_files",
         "add_files_to_apps", "post_remove_triggers", "post_install_triggers", "cleanup_triggers",
         "done"}

\* Between two sessions the working sets are empty, and the status file says what
\* the table in memory says, but while packages are configured and purged.
BetweenSessions ==
  state = "idle" =>
    /\ packagesToUnpack = {} /\ packagesPreUnpacked = {} /\ packagesBeingUnpacked = {}
    /\ filesToUnpack = {}
    /\ commitState \notin {"configure", "purge"} => curstat = disk

\* An operation that has begun has the statuses as they were, and every package
\* is ready when the unpacking begins.
Beginning ==
  /\ commitState \in Before /\ state = "idle" => prevstat = curstat /\ selstat \in Selections
  /\ commitState = "unpack" => Package \subseteq packagesReady

\* A package that a module serves as.
ByModule(p) ==
  /\ ModuleFile[p] # NoFile
  /\ \/ "module" \in failed
     \/ curstat[p].state = installed /\ curstat[p].version >= selstat[p].version

\* What the unpacking has left of a package, and what follows.
Unpacked(p) ==
  IF selstat[p].state = installed
  THEN \/ curstat[p].state >= unpacked /\ curstat[p].version = selstat[p].version
       \/ ByModule(p)
  ELSE /\ curstat[p].state <= removed
       /\ curstat[p].state = removed \/ not_present \in {selstat[p].state, prevstat[p].state}
Configured(p) ==
  selstat[p].state = installed =>
    \/ curstat[p].state = installed /\ curstat[p].version = selstat[p].version
    \/ ByModule(p)
Purged(p) == selstat[p].state = not_present => curstat[p].state = not_present

Finishing ==
  /\ commitState \in {"configure", "purge"} \cup Late =>
       \A p \in Package :
         /\ Unpacked(p)
         /\ p \notin packagesToConfigure => Configured(p)
         /\ p \notin packagesToConfigure \cup packagesToPurge => Purged(p)
  /\ commitState \in {"purge"} \cup Late => packagesToConfigure = {}
  /\ commitState \in Late => packagesToPurge = {}

\* The sets of an operation hold packages.
OperationOn ==
  /\ packagesToProcess \subseteq Package /\ packagesToDownload \subseteq Package
  /\ packagesReady \subseteq Package /\ packagesToConfigure \subseteq Package
  /\ packagesToPurge \subseteq Package
  /\ dload # NoDownload => dload.pkg \in Package

CommitInv ==
  VerifiedInv /\ OperationOn /\ TypeInv /\ SessionInv /\ BetweenSessions /\ Beginning /\ Finishing

\* The states of an unpack object in which no copies have been made, or all that
\* have been made are gone.
NoCopies == PreState \cup {"idle", "unwind_pre_remove", "unwind_pre_unpack"}
BackedOutWell == ~committed /\ failed \cap {"restore", "mkdir"} = {}

\* In the first operation every copy is noted, until the triggers are dropped, but for
\* one that cannot be deleted.
CopiesInv ==
  /\ sessions = 0 => saved = {} /\ commitState = "none"
  /\ \/ commitState \in {"none", "done"}
     \/ commitState \in Before /\ state \in NoCopies
     \/ state = "fail" /\ BackedOutWell
     => postRemoveFiles = {}
  /\ sessions = 1 /\ "delete" \notin failed /\ commitState \notin {"none", "fail"}
       => \A c \in saved : c.file \in postRemoveFiles
  /\ sessions = 1 /\ "delete" \notin failed /\ commitState = "fail" /\ BackedOutWell => saved = {}

-------------------------------------------------------------------------------
(* The unpack object in the steps of Commit. *)

\* The steps that leave the unpack object and the statuses alone.
Still ==
  /\ UNCHANGED <<state, pkgname, statVars, fsVars, mfVars, packageVars, fileVars, sessionVars>>
  /\ NoFault \/ \E k \in Faults : Fault(k)

\* A trigger that cannot be found, or copied because an old copy is in the way, fails the
\* session in the poll that finds it so.
NotFound ==
  /\ \E step \in {<<"copy_post_remove", "unwind_copy_post_remove">>,
                  <<"run_pre_remove_triggers", "unwind_pre_remove_triggers">>,
                  <<"run_pre_install_triggers", "unwind_pre_install_triggers">>} :
       state = step[1] /\ state' = step[2]
  /\ UNCHANGED <<pkgname, statVars, fsVars, mfVars, packageVars, fileVars, sessionVars>>
  /\ NoFault \/ \E k \in Faults : Fault(k)

LEMMA RemoveCopyStill == RemoveCopy => Still
<1> SUFFICES ASSUME RemoveCopy PROVE Still
  OBVIOUS
<1>1. NoFault \/ Fault("delete")
  BY DEF RemoveCopy
<1> QED
  BY <1>1 DEF RemoveCopy, Still, Fault

LEMMA UnpackPolls == UnpackPoll => Poll \/ NotFound \/ Still
<1> SUFFICES ASSUME UnpackPoll PROVE Poll \/ NotFound \/ Still
  OBVIOUS
<1>0. UNCHANGED vars => Still
  BY DEF vars, Still, NoFault
<1>5. \A s : Progress(s) => /\ state' = s /\ NoFault
                           /\ UNCHANGED <<pkgname, statVars, fsVars, mfVars, packageVars, fileVars, sessionVars>>
  BY DEF Progress
<1>1. CASE FilePoll \/ SelectToUnpack \/ SelectToRemove
  BY <1>1 DEF FilePoll, SelectToUnpack, SelectToRemove, Poll, PrePoll, ForwardPoll, UnwindPoll
<1>2. CASE \/ SaveTriggersDone \/ PreRemoveTriggersDone \/ PreInstallTriggersDone
           \/ UnwindPreInstallTriggersDone \/ UnwindPreRemoveTriggersDone \/ UnwindSaveTriggersDone
  BY <1>2 DEF SaveTriggersDone, PreRemoveTriggersDone, PreInstallTriggersDone,
              UnwindPreInstallTriggersDone, UnwindPreRemoveTriggersDone, UnwindSaveTriggersDone,
              Poll, ForwardPoll, UnwindPoll
<1>3. CASE PreRemoveTrigger \/ PreInstallTrigger
  BY <1>0, <1>3, <1>5 DEF PreRemoveTrigger, PreInstallTrigger, TriggerSucceeded, TriggerFailed,
              NotFound, Poll, ForwardPoll
<1>4. CASE UnwindPreInstallTrigger \/ UnwindPreRemoveTrigger
  BY <1>0, <1>4 DEF UnwindPreInstallTrigger, UnwindPreRemoveTrigger
<1>6. CASE SaveTrigger
  <2>1. \/ UNCHANGED vars \/ CopyPostRemove
        \/ /\ state = "copy_post_remove" /\ state' = "unwind_copy_post_remove"
           /\ UNCHANGED <<pkgname, statVars, fsVars, mfVars, packageVars, fileVars, sessionVars>>
           /\ NoFault \/ Fault("delete")
    BY <1>5, <1>6 DEF SaveTrigger
  <2>2. Fault("delete") => \E k \in Faults : Fault(k)
    BY DEF Fault
  <2> QED
    BY <1>0, <2>1, <2>2 DEF NotFound, Poll, ForwardPoll
<1>7. CASE UnwindSaveTrigger
  BY <1>7, RemoveCopyStill DEF UnwindSaveTrigger
<1> QED
  BY <1>1, <1>2, <1>3, <1>4, <1>6, <1>7 DEF UnpackPoll

LEMMA NotFoundQuiet == NotFound => Quiet
<1> SUFFICES ASSUME NotFound PROVE Quiet
  OBVIOUS
<1>1. failed \subseteq failed'
  BY DEF NotFound, NoFault, Fault
<1> QED
  BY <1>1 DEF NotFound, Quiet, Advances, SetOfState, statVars, fsVars, fileVars, dirVars

LEMMA NotFoundType == TypeInv /\ NotFound => TypeInv'
<1> SUFFICES ASSUME TypeInv, NotFound PROVE TypeInv'
  OBVIOUS
<1>1. faults' \in Nat /\ failed' \subseteq Faults
  BY DEF NotFound, NoFault, Fault, TypeInv, TypeOK
<1> QED
  BY <1>1 DEF NotFound, TypeInv, TypeOK, SelectedInv, SelectedPackages, statVars,
         fsVars, mfVars, packageVars, unpackVars, removeVars, dirVars, fileVars, sessionVars,
         State, MidState, UnwindState

\* The unpack object is made for the statuses as they were when the operation began.
LEMMA SessionBegins ==
  ASSUME TypeInv, SelectedInv, NewUnpack, UNCHANGED <<sessions, selstat, prevstat>>,
         selstat \in Selections, prevstat = curstat, curstat = disk
  PROVE  TypeInv' /\ SessionInv'
<1>1. SessionInv'
  BY StatusNew
<1>2. packagesToUnpack' \subseteq SelectedPackages'
  BY DEF NewUnpack, UnpackReq, SelectedPackages
<1> QED
  BY <1>1, <1>2
     DEF NewUnpack, EmptySets, NoFault, TypeInv, TypeOK, SelectedInv, SelectedPackages, statVars,
         fsVars, mfVars, State, PreState

\* It is destroyed when it has ended, or with the program.
LEMMA SessionOver ==
  ASSUME TypeInv, SessionInv, NoSession, curstat' \in {curstat, disk},
         NoFault \/ \E k \in Faults : Fault(k)
  PROVE  TypeInv' /\ SessionInv'
<1>1. SessionInv'
  BY StatusOver
<1> QED
  BY <1>1
     DEF NoSession, EmptySets, NoFault, Fault, TypeInv, TypeOK, SelectedInv, SelectedPackages,
         fsVars, mfVars, sessionVars, State, EndState

\* Without one, it makes no difference what happens to the statuses and the faults.
LEMMA Between ==
  ASSUME TypeInv, SessionInv, state = "idle",
         UNCHANGED <<state, pkgname, fsVars, mfVars, packageVars, fileVars, orig, committed>>,
         curstat' \in [Package -> Status], disk' \in [Package -> Status],
         NoFault \/ \E k \in Faults : Fault(k),
         \/ UNCHANGED <<sessions, selstat, prevstat>>
         \/ /\ Select
            /\ packagesToUnpack = {} /\ packagesPreUnpacked = {} /\ packagesBeingUnpacked = {}
            /\ filesToUnpack = {}
  PROVE  TypeInv' /\ SessionInv'
<1>1. /\ selstat' \in [Package -> Status] /\ prevstat' \in [Package -> Status]
      /\ \A p \in Package : /\ selstat'[p].state \in {not_present, removed, installed}
                            /\ selstat'[p].state >= unpacked => selstat'[p].version \in Version
  <2>1. CASE Select
    BY <2>1, StatusesType, UnpackAssumption DEF Select, TypeInv, TypeOK
  <2>2. CASE UNCHANGED <<sessions, selstat, prevstat>>
    BY <2>2 DEF TypeInv, TypeOK, SelectedInv, SelectedPackages, SessionInv, SelectedStates
  <2> QED
    BY <2>1, <2>2
<1>2. sessions' \in Nat /\ faults' \in Nat /\ failed' \subseteq Faults
  BY DEF Select, NoFault, Fault, TypeInv, TypeOK
<1>3. TypeInv'
  BY <1>1, <1>2
     DEF Select, TypeInv, TypeOK, SelectedInv, SelectedPackages, fsVars, mfVars, packageVars,
         fileVars, unpackVars, removeVars, dirVars
<1>4. SessionInv'
  BY <1>1
     DEF SessionInv, SelectedStates, SetsEmptied, DirsKept, FinalCommitted, Saved, ServedInv,
         BackedInv, OnwardInv, Onward, DoneInv, StatusBackedOut, DoneAsSelected, ModuleServes,
         UnwoundStatus, packageVars, PreState, MidState, ForwardState, FinalState, UnwindState
<1> QED
  BY <1>3, <1>4

-------------------------------------------------------------------------------
(* The steps of Commit. *)

StillStep ==
  \/ Paths \/ PreDownloadPackage \/ PreDownloadDone \/ DownloadPackage \/ DownloadDone
  \/ DownloadsDone \/ DownloadEnds \/ UpdateSystem \/ PostTrigger \/ PostTriggersDone
  \/ CleanupTrigger \/ CleanupTriggersDone \/ CommitFinish \/ TriggerCallback \/ UNCHANGED allVars

LEMMA StillSteps == StillStep => Still
<1> SUFFICES ASSUME StillStep PROVE Still
  OBVIOUS
<1>1. CASE Paths \/ DownloadEnds
  BY <1>1 DEF Paths, DownloadEnds, Goto, Still, vars, NoFault, Fault
<1>3. CASE CleanupTrigger
  BY <1>3, RemoveCopyStill DEF CleanupTrigger
<1>2. CASE ~Paths /\ ~DownloadEnds /\ ~CleanupTrigger
  <2>1. UNCHANGED vars
    BY <1>2
       DEF StillStep, PreDownloadPackage, PreDownloadDone, DownloadPackage, DownloadDone,
           DownloadsDone, UpdateSystem, PostTrigger, PostTriggersDone,
           CleanupTriggersDone, CommitFinish, TriggerCallback, Goto, allVars
  <2> QED
    BY <2>1 DEF Still, vars, NoFault
<1> QED
  BY <1>1, <1>2, <1>3

LEMMA StillKept == TypeInv /\ SessionInv /\ Still => TypeInv' /\ SessionInv'
<1> SUFFICES ASSUME TypeInv, SessionInv, Still PROVE TypeInv' /\ SessionInv'
  OBVIOUS
<1>1. CASE state = "idle"
  BY <1>1, Between DEF Still, statVars, sessionVars, TypeInv, TypeOK
<1>2. CASE state # "idle"
  <2>1. Quiet
    BY <1>2 DEF Still, Quiet, statVars, fileVars, dirVars, NoFault, Fault
  <2>2. SessionInv'
    BY <2>1, SetsQuiet, BackedQuiet, OnwardQuiet DEF SessionInv, SetsInv, EndInv
  <2>3. TypeInv'
    BY DEF Still, NoFault, Fault, TypeInv, TypeOK, SelectedInv, SelectedPackages, statVars,
           fsVars, mfVars, packageVars, unpackVars, removeVars, dirVars, fileVars, sessionVars
  <2> QED
    BY <2>2, <2>3
<1> QED
  BY <1>1, <1>2

\* A poll of the unpack object.
LEMMA SessionPoll == TypeInv /\ SessionInv /\ UnpackPoll => TypeInv' /\ SessionInv'
<1> SUFFICES ASSUME TypeInv, SessionInv, UnpackPoll PROVE TypeInv' /\ SessionInv'
  OBVIOUS
<1>1. CASE Poll
  BY <1>1, TypeNext, StatusPoll DEF Next
<1>2. CASE NotFound
  BY <1>2, NotFoundQuiet, NotFoundType, SetsQuiet, BackedQuiet, OnwardQuiet
     DEF SessionInv, SetsInv, EndInv
<1>3. CASE Still
  BY <1>3, StillKept
<1> QED
  BY <1>1, <1>2, <1>3, UnpackPolls

\* The steps that configure and purge, or save the statuses.
StatusStep == ConfigurePackage \/ ConfigureDone \/ PurgePackage \/ PurgeDone

LEMMA StatusSteps ==
  ASSUME CommitInv, StatusStep
  PROVE  /\ commitState \in {"configure", "purge"} /\ state = "idle"
         /\ UNCHANGED <<state, pkgname, fsVars, mfVars, packageVars, fileVars, sessionVars>>
         /\ curstat' \in [Package -> Status] /\ disk' \in [Package -> Status]
         /\ NoFault \/ \E k \in Faults : Fault(k)
<1> USE DEF StatusStep, ConfigurePackage, ConfigureDone, PurgePackage, PurgeDone, SaveStatus
<1>1. commitState \in {"configure", "purge"} /\ state = "idle"
  BY DEF CommitInv, VerifiedInv, OneUnpack
<1>2. /\ UNCHANGED <<state, pkgname, fsVars, mfVars, packageVars, fileVars, sessionVars>>
      /\ NoFault \/ \E k \in Faults : Fault(k)
  BY DEF Fault
<1>3. curstat' \in [Package -> Status]
  <2>1. ASSUME NEW p \in Package, NEW s \in PkgState PROVE Mark(p, s) \in [Package -> Status]
    BY StatusExcept DEF Mark, CommitInv, TypeInv, TypeOK
  <2>2. installed \in PkgState /\ not_present \in PkgState
    BY DEF installed, not_present, PkgState
  <2> QED
    BY <2>1, <2>2 DEF OperationOn, CommitInv, TypeInv, TypeOK, statVars
<1>4. disk' \in [Package -> Status]
  BY <1>3 DEF CommitStatus, CommitInv, TypeInv, TypeOK, statVars
<1> QED
  BY <1>1, <1>2, <1>3, <1>4

LEMMA OperationNext == OperationOn /\ [CommitNext]_allVars => OperationOn'
<1> SUFFICES ASSUME OperationOn, [CommitNext]_allVars PROVE OperationOn'
  OBVIOUS
<1> USE DEF OperationOn, commitVars, commitSets
<1>1. CASE CommitBegin
  BY <1>1 DEF CommitBegin
<1>2. CASE Paths \/ PreDownloadDone \/ DownloadsDone \/ UpdateSystem \/ PostTriggersDone \/ CleanupTriggersDone
  BY <1>2 DEF Paths, PreDownloadDone, DownloadsDone, UpdateSystem, PostTriggersDone,
              CleanupTriggersDone, Goto
<1>3. CASE PreDownloadPackage
  BY <1>3 DEF PreDownloadPackage
<1>4. CASE DownloadPackage
  BY <1>4 DEF DownloadPackage
<1>5. CASE DownloadDone
  BY <1>5 DEF DownloadDone
<1>6. CASE DownloadEnds
  <2>1. UNCHANGED commitSets /\ dload # NoDownload
        /\ \E s : dload' = [dload EXCEPT !.state = s]
    BY <1>6 DEF DownloadEnds
  <2> QED
    BY <2>1
<1>7. CASE UnpackBegin \/ UnpackPoll \/ PostTrigger \/ CleanupTrigger \/ TriggerCallback
  BY <1>7 DEF UnpackBegin, UnpackPoll, PostTrigger, CleanupTrigger, TriggerCallback
<1>8. CASE UnpackEnded \/ UnpackFailed \/ CommitFinish \/ CommitCrash
  BY <1>8 DEF UnpackEnded, UnpackFailed, CommitFinish, CommitCrash
<1>9. CASE ConfigurePackage
  BY <1>9 DEF ConfigurePackage
<1>10. CASE PurgePackage
  BY <1>10 DEF PurgePackage
<1>11. CASE ConfigureDone \/ PurgeDone
  BY <1>11 DEF ConfigureDone, PurgeDone, SaveStatus
<1>12. CASE UNCHANGED allVars
  BY <1>12 DEF allVars
<1> QED
  BY <1>1, <1>2, <1>3, <1>4, <1>5, <1>6, <1>7, <1>8, <1>9, <1>10, <1>11, <1>12
     DEF CommitNext, CommitPoll

\* Types, and what is known of a session.
LEMMA CommitSession == CommitInv /\ [CommitNext]_allVars => TypeInv' /\ SessionInv'
<1> SUFFICES ASSUME CommitInv, [CommitNext]_allVars PROVE TypeInv' /\ SessionInv'
  OBVIOUS
<1> USE DEF CommitInv
<1>1. CASE CommitBegin
  <2>1. state = "idle"
    BY <1>1 DEF CommitBegin, VerifiedInv, OneUnpack
  <2> QED
    BY <1>1, <2>1, Between
       DEF CommitBegin, BetweenSessions, NoFault, statVars, TypeInv, TypeOK
<1>2. CASE UnpackBegin
  <2>1. selstat \in Selections /\ prevstat = curstat /\ curstat = disk
    BY <1>2 DEF UnpackBegin, Beginning, BetweenSessions, Before
  <2> QED
    BY <1>2, <2>1, SessionBegins DEF UnpackBegin, TypeInv
<1>3. CASE UnpackPoll
  BY <1>3, SessionPoll
<1>4. CASE UnpackEnded \/ UnpackFailed
  BY <1>4, SessionOver DEF UnpackEnded, UnpackFailed, Finish
<1>5. CASE CommitCrash
  BY <1>5, SessionOver DEF CommitCrash, Fault
<1>6. CASE StatusStep
  BY <1>6, StatusSteps, Between DEF sessionVars
<1>7. CASE StillStep
  BY <1>7, StillSteps, StillKept
<1> QED
  BY <1>1, <1>2, <1>3, <1>4, <1>5, <1>6, <1>7 DEF CommitNext, CommitPoll, StillStep, StatusStep

LEMMA CommitBetween == CommitInv /\ [CommitNext]_allVars => BetweenSessions'
<1> SUFFICES ASSUME CommitInv, [CommitNext]_allVars, state' = "idle" PROVE BetweenSessions'
  BY DEF BetweenSessions
<1> USE DEF CommitInv, BetweenSessions
<1>1. CASE CommitBegin
  BY <1>1 DEF CommitBegin, statVars, packageVars, fileVars, unpackVars
<1>2. CASE UnpackBegin
  BY <1>2 DEF UnpackBegin, NewUnpack
<1>3. CASE UnpackPoll
  BY <1>3, UnpackPollNarrows DEF Narrows
<1>4. CASE UnpackEnded \/ UnpackFailed
  BY <1>4 DEF UnpackEnded, UnpackFailed, Finish, NoSession, EmptySets, SessionInv, Saved
<1>5. CASE CommitCrash
  BY <1>5 DEF CommitCrash, NoSession, EmptySets
<1>6. CASE StatusStep
  <2>1. state = "idle" /\ UNCHANGED <<packageVars, fileVars>>
    BY <1>6, StatusSteps
  <2>2. commitState' \notin {"configure", "purge"} => curstat' = disk'
    BY <1>6 DEF StatusStep, ConfigurePackage, PurgePackage, ConfigureDone, PurgeDone, SaveStatus,
                CommitStatus
  <2> QED
    BY <2>1, <2>2 DEF packageVars, fileVars, unpackVars
<1>7. CASE StillStep
  <2>1. Still /\ (commitState' \in {"configure", "purge"} <=> commitState \in {"configure", "purge"})
    <3>1. \/ UNCHANGED commitState
          \/ commitState \notin {"configure", "purge"} /\ commitState' \notin {"configure", "purge"}
      BY <1>7
         DEF StillStep, Paths, PreDownloadPackage, PreDownloadDone, DownloadPackage, DownloadDone,
             DownloadsDone, DownloadEnds, UpdateSystem, PostTrigger, PostTriggersDone,
             CleanupTrigger, CleanupTriggersDone, CommitFinish, TriggerCallback, Goto, allVars,
             commitVars
    <3> QED
      BY <1>7, <3>1, StillSteps
  <2> QED
    BY <2>1 DEF Still, statVars, packageVars, fileVars, unpackVars
<1> QED
  BY <1>1, <1>2, <1>3, <1>4, <1>5, <1>6, <1>7 DEF CommitNext, CommitPoll, StillStep, StatusStep

LEMMA CommitBeginning == CommitInv /\ [CommitNext]_allVars => Beginning'
<1> SUFFICES ASSUME CommitInv, [CommitNext]_allVars PROVE Beginning'
  OBVIOUS
<1> USE DEF CommitInv, Beginning, Before
<1>1. CASE CommitBegin
  BY <1>1 DEF CommitBegin, Select, statVars
<1>2. CASE UnpackBegin \/ UnpackPoll
  <2>1. UNCHANGED commitVars /\ state' # "idle"
    BY <1>2, UnpackPollNarrows DEF UnpackBegin, NewUnpack, UnpackPoll, Narrows
  <2> QED
    BY <2>1 DEF commitVars, commitSets
<1>3. CASE UnpackEnded \/ UnpackFailed \/ CommitCrash
  BY <1>3 DEF UnpackEnded, UnpackFailed, CommitCrash
<1>4. CASE StatusStep
  BY <1>4 DEF StatusStep, ConfigurePackage, PurgePackage, ConfigureDone, PurgeDone, SaveStatus
<1>5. CASE PreDownloadPackage
  BY <1>5 DEF PreDownloadPackage, vars, statVars, sessionVars
<1>6. CASE DownloadDone
  BY <1>6 DEF DownloadDone, vars, statVars, sessionVars
<1>7. CASE DownloadsDone
  BY <1>7 DEF DownloadsDone, Goto, vars, statVars, sessionVars, commitSets, VerifiedInv, Sorted, OneUnpack
<1>8. CASE StillStep /\ ~PreDownloadPackage /\ ~DownloadDone /\ ~DownloadsDone
  <2>1. Still
    BY <1>8, StillSteps
  <2>2. /\ \/ UNCHANGED commitState
           \/ commitState = "paths" /\ commitState' = "pre_download"
           \/ commitState = "pre_download" /\ commitState' = "download"
           \/ commitState' \notin Before
        /\ UNCHANGED commitSets
    BY <1>8
       DEF StillStep, Paths, PreDownloadDone, DownloadPackage, DownloadEnds, UpdateSystem,
           PostTrigger, PostTriggersDone, CleanupTrigger, CleanupTriggersDone, CommitFinish,
           TriggerCallback, Goto, allVars, commitVars
  <2> QED
    BY <2>1, <2>2 DEF Still, statVars, sessionVars, commitSets
<1> QED
  BY <1>1, <1>2, <1>3, <1>4, <1>5, <1>6, <1>7, <1>8 DEF CommitNext, CommitPoll, StillStep, StatusStep

-------------------------------------------------------------------------------
(* Configuring and purging. *)

\* What the test of a configuration does to a package that has been unpacked.
LEMMA Configures ==
  ASSUME CommitInv, commitState = "configure", ConfigurePackage
  PROVE  Finishing'
<1> USE DEF CommitInv
<1>1. PICK p \in packagesToConfigure :
        /\ curstat' = IF ConfigReq(curstat[p], selstat[p]) /\ ~UnpackReq(curstat[p], selstat[p])
                      THEN Mark(p, installed) ELSE curstat
        /\ packagesToPurge' = packagesToPurge \cup {p}
        /\ packagesToConfigure' = packagesToConfigure \ {p}
  BY DEF ConfigurePackage
<1>2. p \in Package /\ UNCHANGED <<commitState, selstat, prevstat, failed>>
  BY DEF OperationOn, ConfigurePackage, NoFault, sessionVars
<1>3. \A q \in Package : q # p => curstat'[q] = curstat[q]
  BY <1>1, <1>2 DEF Mark, TypeInv, TypeOK
<1>4. /\ Unpacked(p)
      /\ \A q \in Package :
           /\ Unpacked(q)
           /\ q \notin packagesToConfigure => Configured(q)
           /\ q \notin packagesToConfigure \cup packagesToPurge => Purged(q)
  BY <1>2 DEF Finishing
<1>5. /\ selstat[p].state \in {not_present, removed, installed}
      /\ curstat[p].state \in 0..5 /\ selstat[p].version \in Nat
  BY <1>2, StatusFacts DEF SessionInv, SelectedStates, TypeInv, TypeOK, Status, PkgState
<1>6. CASE selstat[p].state = installed
  <2>1. \/ curstat'[p] = curstat[p]
        \/ curstat'[p] = [curstat[p] EXCEPT !.state = installed]
    BY <1>1, <1>2 DEF Mark, TypeInv, TypeOK
  <2>2. Unpacked(p)' /\ Configured(p)'
    BY <1>1, <1>2, <1>4, <1>5, <1>6
       DEF Unpacked, Configured, ByModule, ConfigReq, UnpackReq, Mark, TypeInv, TypeOK, Status,
           installed, unpacked
  <2> QED
    BY <1>1, <1>2, <1>3, <1>4, <2>2 DEF Finishing, Unpacked, Configured, Purged, ByModule, Late
<1>7. CASE selstat[p].state # installed
  <2>1. UNCHANGED curstat
    BY <1>1, <1>5, <1>7 DEF ConfigReq, installed, not_present, removed
  <2> QED
    BY <1>1, <1>2, <1>4, <1>7, <2>1 DEF Finishing, Unpacked, Configured, Purged, ByModule, Late
<1> QED
  BY <1>6, <1>7

LEMMA Purges ==
  ASSUME CommitInv, commitState = "purge", PurgePackage
  PROVE  Finishing'
<1> USE DEF CommitInv
<1>1. PICK p \in packagesToPurge :
        /\ curstat' = IF PurgeReq(curstat[p], selstat[p]) /\ ~RemoveReq(curstat[p], selstat[p])
                      THEN Mark(p, not_present) ELSE curstat
        /\ packagesToPurge' = packagesToPurge \ {p}
  BY DEF PurgePackage
<1>2. /\ p \in Package /\ UNCHANGED <<commitState, selstat, prevstat, failed, packagesToConfigure>>
      /\ packagesToConfigure = {}
  BY DEF OperationOn, PurgePackage, NoFault, sessionVars, Finishing
<1>3. \A q \in Package : q # p => curstat'[q] = curstat[q]
  BY <1>1, <1>2 DEF Mark, TypeInv, TypeOK
<1>4. \A q \in Package :
        /\ Unpacked(q) /\ Configured(q)
        /\ q \notin packagesToPurge => Purged(q)
  BY <1>2 DEF Finishing
<1>5. /\ selstat[p].state \in {not_present, removed, installed}
      /\ curstat[p].state \in 0..5
  BY <1>2 DEF SessionInv, SelectedStates, TypeInv, TypeOK, Status, PkgState
<1>6. CASE selstat[p].state = not_present
  <2>1. Unpacked(p)' /\ Configured(p)' /\ Purged(p)'
    BY <1>1, <1>2, <1>4, <1>5, <1>6
       DEF Unpacked, Configured, Purged, PurgeReq, RemoveReq, Mark, TypeInv, TypeOK, Status,
           installed, not_present, removed
  <2> QED
    BY <1>1, <1>2, <1>3, <1>4, <2>1 DEF Finishing, Unpacked, Configured, Purged, ByModule, Late
<1>7. CASE selstat[p].state # not_present
  <2>1. UNCHANGED curstat
    BY <1>1, <1>5, <1>7 DEF PurgeReq, installed, not_present, removed
  <2> QED
    BY <1>1, <1>2, <1>4, <1>7, <2>1 DEF Finishing, Unpacked, Configured, Purged, ByModule, Late
<1> QED
  BY <1>6, <1>7

\* What a session that has ended well leaves is what configuring starts from.
LEMMA Unpacks ==
  ASSUME CommitInv, UnpackEnded
  PROVE  Finishing'
<1> USE DEF CommitInv
<1>1. /\ state = "done" /\ commitState = "unpack" /\ commitState' = "configure"
      /\ packagesToConfigure' = packagesReady
      /\ UNCHANGED <<curstat, disk, selstat, prevstat, failed>>
  BY DEF UnpackEnded, Finish, NoSession, NoFault, sessionVars
<1>2. curstat = disk /\ Package \subseteq packagesReady
  BY <1>1 DEF SessionInv, Saved, Beginning
<1>3. ASSUME NEW p \in Package PROVE Unpacked(p)
  <2>1. curstat[p].state \in 0..5
    BY DEF TypeInv, TypeOK, Status, PkgState
  <2> QED
    BY <1>1, <1>2, <2>1 DEF SessionInv, DoneInv, Unpacked, ByModule, removed, not_present
<1> QED
  BY <1>1, <1>2, <1>3 DEF Finishing, Unpacked, ByModule, Late

LEMMA CommitFinishing == CommitInv /\ [CommitNext]_allVars => Finishing'
<1> SUFFICES ASSUME CommitInv, [CommitNext]_allVars,
                    commitState' \in {"configure", "purge"} \cup Late
             PROVE  Finishing'
  BY DEF Finishing, Late
<1>1. CASE CommitBegin \/ UnpackBegin \/ UnpackPoll \/ UnpackFailed \/ CommitCrash
  <2>1. UnpackPoll => commitState = "unpack"
    BY UnpackPollNarrows DEF Narrows, CommitInv, VerifiedInv, OneUnpack
  <2> QED
    BY <1>1, <2>1
       DEF CommitBegin, UnpackBegin, UnpackPoll, UnpackFailed, CommitCrash, Late, commitVars
<1>2. CASE UnpackEnded
  BY <1>2, Unpacks
<1>3. CASE ConfigurePackage
  BY <1>3, Configures DEF ConfigurePackage
<1>4. CASE PurgePackage
  BY <1>4, Purges DEF PurgePackage
<1>5. CASE ConfigureDone \/ PurgeDone \/ StillStep
  <2>1. UNCHANGED <<curstat, selstat, prevstat>> /\ failed \subseteq failed'
    BY <1>5, StillSteps
       DEF ConfigureDone, PurgeDone, SaveStatus, Still, statVars, sessionVars, NoFault, Fault
  <2>2. /\ UNCHANGED <<packagesToConfigure, packagesToPurge>>
        /\ \/ UNCHANGED commitState
           \/ commitState = "configure" /\ commitState' = "purge" /\ packagesToConfigure = {}
           \/ commitState = "purge" /\ commitState' \in Late /\ packagesToPurge = {}
           \/ commitState \in Late /\ commitState' \in Late
    BY <1>5
       DEF ConfigureDone, PurgeDone, SaveStatus, StillStep, Paths, PreDownloadPackage,
           PreDownloadDone, DownloadPackage, DownloadDone, DownloadsDone, DownloadEnds,
           UpdateSystem, PostTrigger, PostTriggersDone, CleanupTrigger, CleanupTriggersDone,
           CommitFinish, TriggerCallback, Goto, allVars, commitVars, commitSets, Late
  <2> QED
    BY <2>1, <2>2 DEF CommitInv, Finishing, Unpacked, Configured, Purged, ByModule, Late
<1> QED
  BY <1>1, <1>2, <1>3, <1>4, <1>5 DEF CommitNext, CommitPoll, StillStep

LEMMA CommitInvInit == CommitInit => CommitInv
<1> SUFFICES ASSUME CommitInit PROVE CommitInv
  OBVIOUS
<1>1. StatusInv
  BY StatusInit DEF CommitInit
<1>2. OperationOn /\ BetweenSessions /\ Beginning /\ Finishing
  BY DEF CommitInit, Init, OperationOn, BetweenSessions, Beginning, Finishing, Before, Late
<1> QED
  BY <1>1, <1>2, VerifiedInit DEF StatusInv, CommitInv

LEMMA CommitInvNext == CommitInv /\ [CommitNext]_allVars => CommitInv'
  BY VerifiedNext, OperationNext, CommitSession, CommitBetween, CommitBeginning, CommitFinishing
     DEF CommitInv

LEMMA CommitInvSpec == CommitSpec => []CommitInv
  BY CommitInvInit, CommitInvNext, PTL DEF CommitSpec

LEMMA DoneIfCommitted == CommitInv => CommitDone
<1> SUFFICES ASSUME CommitInv, commitState = "done", NEW p \in Package
             PROVE  IF selstat[p].state # installed
                    THEN disk[p].state = selstat[p].state \/ prevstat[p].state = not_present
                    ELSE IF ModuleFile[p] = NoFile
                    THEN disk[p] = selstat[p]
                    ELSE "module" \notin failed =>
                           disk[p].state = installed /\ disk[p].version >= selstat[p].version
  BY DEF CommitDone
<1>1. curstat = disk
  BY DEF CommitInv, VerifiedInv, OneUnpack, BetweenSessions
<1>2. Unpacked(p) /\ Configured(p) /\ Purged(p)
  BY DEF CommitInv, Finishing, Late
<1>3. /\ disk[p] \in Status /\ selstat[p] \in Status
      /\ selstat[p].state \in {not_present, removed, installed}
      /\ selstat[p].version \in Nat
  BY StatusFacts DEF CommitInv, TypeInv, TypeOK, SessionInv, SelectedStates
<1>4. disk[p].state = selstat[p].state /\ disk[p].version = selstat[p].version => disk[p] = selstat[p]
  BY <1>3 DEF Status
<1>5. CASE selstat[p].state = installed
  BY <1>1, <1>2, <1>3, <1>4, <1>5 DEF Configured, ByModule
<1>6. CASE selstat[p].state # installed
  BY <1>1, <1>2, <1>3, <1>6 DEF Unpacked, Purged, not_present, removed
<1> QED
  BY <1>5, <1>6

\* An operation that ends well leaves every package as selected, on the disc
\* (CommitDone): whatever earlier operations and crashes have left, what the
\* session leaves unpacked is configured, what it leaves removed is purged if
\* that was asked for, and nothing is left out.
THEOREM Done == CommitSpec => []CommitDone
  BY DoneIfCommitted, CommitInvSpec, PTL

-------------------------------------------------------------------------------
(* The copies of triggers. *)

\* A poll comes back to a state without copies from such a state only, and fails from
\* one, or having met what cannot be backed out.
ComesBack ==
  /\ state' \in NoCopies => state \in NoCopies
  /\ state' = "fail" => state \in NoCopies \/ ~BackedOutWell'

LEMMA PollsBack ==
  ASSUME FinalCommitted, FilePoll
  PROVE  ComesBack /\ UNCHANGED <<sessions, saved, postRemoveFiles>>
<1>0. UNCHANGED <<saved, postRemoveFiles>>
  BY DEF FilePoll, triggerVars, copyVars
<1> USE ExceptionValues
    DEF ComesBack, NoCopies, BackedOutWell, sessionVars, statVars, Throw, ThrowPre, Progress, Fault,
        PreState, UnwindState
<1>1. CASE PreUnpackCheckFile \/ PreUnpackCheckEmptyDir \/ PreUnpackDone \/ PreRemoveDone
  BY <1>0, <1>1 DEF PreUnpackCheckFile, PreUnpackCheckEmptyDir, PreUnpackDone, PreRemoveDone
<1>2. CASE RemoveFilesReplacedByDirs \/ UnpackFile \/ UnpackDone
  BY <1>0, <1>2 DEF RemoveFilesReplacedByDirs, UnpackFile, UnpackDone
<1>3. CASE UnpackSelectPackage
  BY <1>0, <1>3 DEF UnpackSelectPackage
<1>4. CASE ReplaceFile \/ ReplaceCheckEmptyDir \/ ReplaceDone
  BY <1>0, <1>4 DEF ReplaceFile, ReplaceCheckEmptyDir, ReplaceDone
<1>5. CASE RemoveFile \/ RemoveDir \/ RemoveDone
  BY <1>0, <1>5 DEF RemoveFile, RemoveDir, RemoveDone
<1>6. CASE FinalPoll
  BY <1>0, <1>6 DEF FinalPoll, PostRemoveFile, PostRemovePackage, PostRemoveDone, CreateEmptyDir,
              CreateEmptyDirsDone, PostUnpackPackage, PostUnpackDone, FinalCommitted, FinalState
<1>7. CASE UnwindCreateEmptyDir \/ UnwindCreateEmptyDirsDone \/ UnwindReplaceFile
           \/ UnwindReplaceDone \/ UnwindRemoveDir \/ UnwindRemoveDone \/ UnwindUnpackFile
           \/ UnwindUnpackPackage \/ UnwindUnpackDone \/ UnwindRemoveFilesReplacedByDirs
  BY <1>0, <1>7 DEF UnwindCreateEmptyDir, UnwindCreateEmptyDirsDone, UnwindReplaceFile,
              UnwindReplaceDone, UnwindRemoveDir, UnwindRemoveDone, UnwindUnpackFile,
              UnwindUnpackPackage, UnwindUnpackDone, UnwindRemoveFilesReplacedByDirs,
              RestoreFileFails
<1>8. CASE UnwindPreRemovePackage \/ UnwindPreRemoveDone \/ UnwindPreUnpackPackage
           \/ UnwindPreUnpackDone
  BY <1>0, <1>8 DEF UnwindPreRemovePackage, UnwindPreRemoveDone, UnwindPreUnpackPackage,
              UnwindPreUnpackDone
<1> QED
  BY <1>0, <1>1, <1>2, <1>3, <1>4, <1>5, <1>6, <1>7, <1>8 DEF FilePoll

\* The polls that have to do with triggers, but for the copying.
LEMMA TriggerPolls ==
  ASSUME UnpackPoll, ~FilePoll, ~SaveTrigger, ~UnwindSaveTrigger, ~UnwindSaveTriggersDone
  PROVE  ComesBack /\ UNCHANGED <<sessions, saved, postRemoveFiles>>
<1> USE ExceptionValues
    DEF ComesBack, NoCopies, sessionVars, statVars, copyVars, Throw, ThrowPre, Progress, Verdict,
        PreState, UnwindState, triggerVars
<1>1. CASE SelectToUnpack
  BY <1>1 DEF SelectToUnpack, PreUnpackSelectPackage, AddInstallTriggers
<1>2. CASE SelectToRemove
  BY <1>2 DEF SelectToRemove, PreRemoveSelectPackage, AddRemoveTriggers
<1>3. CASE SaveTriggersDone \/ PreRemoveTriggersDone \/ PreInstallTriggersDone
  BY <1>3 DEF SaveTriggersDone, PreRemoveTriggersDone, PreInstallTriggersDone, CopyPostRemove,
              RunPreRemoveTriggers, RunPreInstallTriggers
<1>4. CASE UnwindPreInstallTriggersDone \/ UnwindPreRemoveTriggersDone
  BY <1>4 DEF UnwindPreInstallTriggersDone, UnwindPreRemoveTriggersDone,
              UnwindPreInstallTriggers, UnwindPreRemoveTriggers
<1>5. CASE PreRemoveTrigger \/ PreInstallTrigger
  BY <1>5 DEF PreRemoveTrigger, PreInstallTrigger, TriggerSucceeded, TriggerFailed, DropTrigger,
              NextPreRemove, NextPreInstall, RunPreRemoveTriggers, RunPreInstallTriggers, vars
<1>6. CASE UnwindPreInstallTrigger \/ UnwindPreRemoveTrigger
  BY <1>6 DEF UnwindPreInstallTrigger, UnwindPreRemoveTrigger, DropTrigger,
              NextPreInstallUnwind, NextPreRemoveUnwind, vars
<1> QED
  BY <1>1, <1>2, <1>3, <1>4, <1>5, <1>6 DEF UnpackPoll

\* While a trigger is copied, or its copy deleted, it is noted or gone, but for one that
\* cannot be deleted.
LEMMA CopyPolls ==
  ASSUME SaveTrigger \/ UnwindSaveTrigger \/ UnwindSaveTriggersDone
  PROVE  /\ (\A c \in saved : c.file \in postRemoveFiles)
              => "delete" \in failed' \/ \A c \in saved' : c.file \in postRemoveFiles'
         /\ UNCHANGED sessions /\ state' # "fail"
         /\ state' \in NoCopies => postRemoveFiles' = {}
<1>1. CASE SaveTrigger
  BY <1>1 DEF SaveTrigger, CopyPostRemoveFile, CopyPostRemoveFileFails, CopyPostRemove, Verdict,
              Progress, vars, sessionVars, NoCopies, PreState
<1>2. CASE UnwindSaveTrigger
  <2>1. state = "unwind_copy_post_remove" /\ UNCHANGED <<state, sessions>>
    BY <1>2 DEF UnwindSaveTrigger, RemoveCopy, sessionVars
  <2>2. PICK f : RemovePostRemoveFile(f, TRUE) \/ (RemovePostRemoveFile(f, FALSE) /\ Fault("delete"))
    BY <1>2 DEF UnwindSaveTrigger, RemoveCopy
  <2> QED
    BY <2>1, <2>2 DEF RemovePostRemoveFile, Fault, NoCopies, PreState
<1>3. CASE UnwindSaveTriggersDone
  BY <1>3 DEF UnwindSaveTriggersDone, UnwindCopyPostRemove, Progress, sessionVars, triggerVars,
              copyVars
<1> QED
  BY <1>1, <1>2, <1>3

\* Failures are not forgotten.
LEMMA FailedStay == TypeInv /\ [CommitNext]_allVars => failed \subseteq failed'
<1> SUFFICES ASSUME TypeInv, [CommitNext]_allVars PROVE failed \subseteq failed'
  OBVIOUS
<1>1. CASE CommitBegin
  BY <1>1 DEF CommitBegin
<1>2. CASE StatusStep
  BY <1>2 DEF StatusStep, ConfigurePackage, ConfigureDone, PurgePackage, PurgeDone, SaveStatus, NoFault, Fault
<1>3. CASE StillStep
  BY <1>3, StillSteps DEF Still, NoFault, Fault
<1>4. CASE UnpackPoll
  <2>1. CASE Poll
    BY <2>1, PollConstants
  <2>2. CASE NotFound \/ Still
    BY <2>2 DEF NotFound, Still, NoFault, Fault
  <2> QED
    BY <1>4, <2>1, <2>2, UnpackPolls
<1>5. CASE UnpackBegin \/ UnpackEnded \/ UnpackFailed \/ CommitCrash
  BY <1>5 DEF UnpackBegin, NewUnpack, UnpackEnded, UnpackFailed, CommitCrash, Finish, NoFault, Fault
<1> QED
  BY <1>1, <1>2, <1>3, <1>4, <1>5 DEF CommitNext, CommitPoll, StillStep, StatusStep

LEMMA CopiesPoll == CommitInv /\ CopiesInv /\ UnpackPoll => CopiesInv'
<1> SUFFICES ASSUME CommitInv, CopiesInv, UnpackPoll PROVE CopiesInv'
  OBVIOUS
<1>1. commitState = "unpack" /\ UNCHANGED commitState
  BY UnpackPollNarrows DEF Narrows, CommitInv, VerifiedInv, OneUnpack, UnpackPoll, commitVars
<1>4. failed \subseteq failed'
  BY FailedStay DEF CommitNext, CommitInv
<1> USE DEF CopiesInv, Before
<1>2. CASE ~SaveTrigger /\ ~UnwindSaveTrigger /\ ~UnwindSaveTriggersDone
  <2>1. ComesBack /\ UNCHANGED <<sessions, saved, postRemoveFiles>>
    BY <1>2, PollsBack, TriggerPolls DEF CommitInv, SessionInv
  <2> QED
    BY <1>1, <1>4, <2>1 DEF ComesBack
<1>3. CASE SaveTrigger \/ UnwindSaveTrigger \/ UnwindSaveTriggersDone
  BY <1>1, <1>3, <1>4, CopyPolls
<1> QED
  BY <1>2, <1>3

LEMMA CopiesInit == CommitInit => CopiesInv
  BY DEF CommitInit, Init, TriggersInit, CopiesInv

LEMMA CopiesNext == CommitInv /\ CopiesInv /\ [CommitNext]_allVars => CopiesInv'
<1> SUFFICES ASSUME CommitInv, CopiesInv, [CommitNext]_allVars PROVE CopiesInv'
  OBVIOUS
<1> USE DEF CopiesInv, Before
<1>0. failed \subseteq failed'
  BY FailedStay DEF CommitInv
<1>1. sessions \in Nat /\ OneUnpack
  BY DEF CommitInv, TypeInv, TypeOK, VerifiedInv
<1>2. CASE CommitBegin
  BY <1>0, <1>1, <1>2 DEF CommitBegin, Select, OneUnpack, copyVars
<1>3. CASE UnpackBegin
  BY <1>0, <1>1, <1>3 DEF UnpackBegin, NewUnpack, NoCopies, PreState, triggerVars, copyVars, commitVars
<1>4. CASE UnpackPoll
  BY <1>4, CopiesPoll
<1>5. CASE UnpackEnded \/ UnpackFailed
  BY <1>0, <1>5 DEF UnpackEnded, UnpackFailed, Finish, NoSession, NoFault, sessionVars, DropTriggers,
              triggerVars, copyVars, BackedOutWell
<1>6. CASE CommitCrash \/ CommitFinish
  BY <1>0, <1>1, <1>6 DEF CommitCrash, CommitFinish, NoSession, sessionVars, DropTriggers, vars
<1>7. CASE StatusStep
  BY <1>0, <1>1, <1>7
     DEF StatusStep, ConfigurePackage, PurgePackage, ConfigureDone, PurgeDone, SaveStatus,
         sessionVars, triggerVars, copyVars, OneUnpack
<1>8. CASE CleanupTriggersDone
  BY <1>0, <1>1, <1>8
     DEF CleanupTriggersDone, Goto, vars, sessionVars, triggerVars, copyVars, commitVars, OneUnpack
<1>10. CASE CleanupTrigger
  <2>1. commitState = "cleanup_triggers" /\ UNCHANGED <<state, committed, sessions, commitState>>
    BY <1>10 DEF CleanupTrigger, RemoveCopy, sessionVars, commitVars
  <2>2. PICK f : RemovePostRemoveFile(f, TRUE) \/ (RemovePostRemoveFile(f, FALSE) /\ Fault("delete"))
    BY <1>10 DEF CleanupTrigger, RemoveCopy
  <2> QED
    BY <1>0, <1>1, <2>1, <2>2 DEF RemovePostRemoveFile, Fault, OneUnpack
<1>9. CASE StillStep /\ ~CleanupTrigger /\ ~CleanupTriggersDone /\ ~CommitFinish
  <2>1. Still
    BY <1>9, StillSteps
  <2>2. UNCHANGED <<saved, postRemoveFiles>>
    BY <1>9
       DEF StillStep, Paths, PreDownloadPackage, PreDownloadDone, DownloadPackage, DownloadDone,
           DownloadsDone, DownloadEnds, UpdateSystem, PostTrigger, PostTriggersDone,
           TriggerCallback, Goto, allVars, triggerVars, copyVars, DropTrigger, NextPostRemove,
           NextPostInstall, TriggerEnds
  <2>3. \/ UNCHANGED commitState
        \/ commitState \in Before /\ commitState' \in Before \cup {"fail"} /\ state = "idle"
        \/ commitState \notin Before \cup {"none", "fail", "done"}
           /\ commitState' \notin Before \cup {"none", "fail", "done"}
    BY <1>1, <1>9
       DEF StillStep, Paths, PreDownloadPackage, PreDownloadDone, DownloadPackage, DownloadDone,
           DownloadsDone, DownloadEnds, UpdateSystem, PostTrigger, PostTriggersDone,
           TriggerCallback, Goto, allVars, commitVars, OneUnpack
  <2>4. BackedOutWell' => BackedOutWell
    BY <2>1 DEF Still, sessionVars, BackedOutWell, NoFault, Fault
  <2> QED
    BY <1>0, <1>1, <2>1, <2>2, <2>3, <2>4 DEF Still, sessionVars, NoCopies, OneUnpack
<1> QED
  BY <1>2, <1>3, <1>4, <1>5, <1>6, <1>7, <1>8, <1>9, <1>10 DEF CommitNext, CommitPoll, StillStep, StatusStep

\* The copies of trigger files are gone when the first operation has ended well or has
\* been backed out of, unless a delete has failed (CopiesRemoved): every copy that is
\* there is noted, and what is noted is deleted before the unwinding goes on and before
\* the operation ends.
THEOREM CopiesGo == CommitSpec => []CopiesRemoved
<1>1. CommitInv /\ CopiesInv => CopiesRemoved
  BY DEF CopiesInv, CopiesRemoved, BackedOutWell
<1> QED
  BY <1>1, CommitInvInit, CommitInvNext, CopiesInit, CopiesNext, PTL DEF CommitSpec

\* Within an operation, with its triggers in single steps, a session still leaves the
\* statuses as they were or as they were selected (StatusBackedOut, DoneAsSelected,
\* ModuleServes): a trigger that cannot be found fails it like any other error.
THEOREM SessionsHold == CommitSpec => [](StatusBackedOut /\ DoneAsSelected /\ ModuleServes)
<1>1. CommitInv => StatusBackedOut /\ DoneAsSelected /\ ModuleServes
  BY DEF CommitInv, SessionInv
<1> QED
  BY <1>1, CommitInvSpec, PTL

-------------------------------------------------------------------------------
(* The sets of packages of a session that is backed out of.                *)

\* Nothing is left to be removed in a session that is backed out of after the point of no
\* return.
NoneToRemove == state \in UnwindState /\ committed => packagesBeingRemoved = {}

LEMMA NotFoundStill == NotFound => SetsStill
  BY DEF NotFound, SetsStill, EmptiedByMove, Advances, NoFault, Fault, statVars, fsVars, unpackVars,
         removeVars, fileVars, sessionVars, EndState

LEMMA PollsUncommitted == SetsPolls => UNCHANGED committed
<1> SUFFICES ASSUME SetsPolls PROVE UNCHANGED committed
  OBVIOUS
<1> USE DEF sessionVars, Throw, ThrowPre, RestoreFileFails
<1>1. CASE PreUnpackCheckFile \/ PreUnpackSelectPackage \/ PreRemoveSelectPackage \/ PreRemoveDone
  BY <1>1 DEF PreUnpackCheckFile, PreUnpackSelectPackage, PreRemoveSelectPackage, PreRemoveDone
<1>2. CASE UnpackFile
  BY <1>2 DEF UnpackFile
<1>3. CASE UnpackSelectPackage
  BY <1>3, UnpackSelects DEF sessionVars
<1>4. CASE ReplaceFile \/ RemoveFile \/ PostRemoveFile \/ PostRemovePackage
  BY <1>4 DEF ReplaceFile, RemoveFile, PostRemoveFile, PostRemovePackage
<1>5. CASE PostUnpackPackage \/ PostUnpackDone
  BY <1>5 DEF PostUnpackPackage, PostUnpackDone
<1>6. CASE UnwindReplaceFile \/ UnwindUnpackFile \/ UnwindUnpackPackage
           \/ UnwindPreRemovePackage \/ UnwindPreUnpackPackage \/ UnwindPreUnpackDone
  BY <1>6 DEF UnwindReplaceFile, UnwindUnpackFile, UnwindUnpackPackage, UnwindPreRemovePackage,
     UnwindPreUnpackPackage, UnwindPreUnpackDone
<1> QED
  BY <1>1, <1>2, <1>3, <1>4, <1>5, <1>6 DEF SetsPolls

LEMMA UnwindsRemoved == SetsPolls /\ state \in UnwindState => packagesBeingRemoved' \subseteq packagesBeingRemoved
<1> SUFFICES ASSUME SetsPolls, state \in UnwindState PROVE packagesBeingRemoved' \subseteq packagesBeingRemoved
  OBVIOUS
<1>1. CASE UnwindReplaceFile \/ UnwindUnpackFile \/ UnwindUnpackPackage
           \/ UnwindPreRemovePackage \/ UnwindPreUnpackPackage \/ UnwindPreUnpackDone
  BY <1>1 DEF UnwindReplaceFile, UnwindUnpackFile, UnwindUnpackPackage, UnwindPreRemovePackage,
     UnwindPreUnpackPackage, UnwindPreUnpackDone, packageVars
<1>2. CASE ~(UnwindReplaceFile \/ UnwindUnpackFile \/ UnwindUnpackPackage
           \/ UnwindPreRemovePackage \/ UnwindPreUnpackPackage \/ UnwindPreUnpackDone)
  BY <1>2 DEF SetsPolls, PreUnpackCheckFile, PreUnpackSelectPackage, PreRemoveSelectPackage, PreRemoveDone,
       UnpackFile, UnpackSelectPackage, ReplaceFile, RemoveFile, PostRemoveFile, PostRemovePackage,
       PostUnpackPackage, PostUnpackDone, UnwindState
<1> QED
  BY <1>1, <1>2

LEMMA NoneToRemovePoll ==
  TypeInv /\ SetsInv /\ FilesOfState /\ NoneToRemove /\ (Poll \/ NotFound) => NoneToRemove'
<1> SUFFICES ASSUME TypeInv, SetsInv, FilesOfState, NoneToRemove, Poll \/ NotFound PROVE NoneToRemove'
  OBVIOUS
<1>1. CASE SetsStill
  <2>1. CASE UNCHANGED <<state, committed>>
    BY <1>1, <2>1 DEF SetsStill, NoneToRemove, packageVars
  <2>2. CASE <<state, state'>> \in Advances /\ UNCHANGED committed
    <3>1. state \in ForwardState => ~committed
      BY DEF FilesOfState
    <3>3. state' \in UnwindState => state \in ForwardState \cup UnwindState
      BY <2>2, AdvancesKeep
    <3> QED
      BY <1>1, <2>2, <3>1, <3>3 DEF SetsStill, NoneToRemove, packageVars
  <2>3. CASE <<state, state'>> = <<"remove", "post_remove">>
    <3>1. state' \notin UnwindState
      BY <2>3 DEF UnwindState
    <3> QED
      BY <3>1 DEF NoneToRemove
  <2>4. CASE <<state, state'>> = <<"create_empty_dirs", "unwind_create_empty_dirs">>
    <3>1. packagesBeingRemoved = {} /\ UNCHANGED packagesBeingRemoved
      BY <1>1, <2>4 DEF SetsStill, packageVars, SetsInv, SetsEmptied
    <3> QED
      BY <3>1 DEF NoneToRemove
  <2>5. CASE state' = "fail"
    BY <2>5 DEF NoneToRemove, PreState, ForwardState, UnwindState
  <2> QED
    BY <1>1, <2>1, <2>2, <2>3, <2>4, <2>5 DEF SetsStill
<1>2. CASE SetsPolls
  <2>1. UNCHANGED committed
    BY <1>2, PollsUncommitted
  <2>2. CASE state' = state
    BY <1>2, <2>1, <2>2, UnwindsRemoved DEF NoneToRemove
  <2>3. CASE state' \in {"fail", "done"}
    BY <2>3 DEF NoneToRemove, PreState, ForwardState, UnwindState
  <2>4. CASE <<state, state'>> = <<"pre_remove", "copy_post_remove">>
    BY <2>1, <2>4 DEF NoneToRemove, PreState, ForwardState, UnwindState
  <2>5. CASE <<state, state'>> \in {<<"unpack", "unwind_unpack">>, <<"replace", "unwind_replace">>}
    BY <2>1, <2>5, StatesApart DEF NoneToRemove, FilesOfState, ForwardState
  <2> QED
    BY <1>2, <2>2, <2>3, <2>4, <2>5, SetsMoves
<1> QED
  BY <1>1, <1>2, StillPolls, NotFoundStill

LEMMA NoneToRemoveNew == NewUnpack => NoneToRemove'
  BY DEF NewUnpack, NoneToRemove, PreState, UnwindState

LEMMA NoneToRemoveOver == NoSession => NoneToRemove'
  BY DEF NoSession, NoneToRemove, PreState, ForwardState, UnwindState

-------------------------------------------------------------------------------
(* The files, the manifests and the statuses in the steps of Commit. *)

\* Until the first session changes the disc, the manifests are those of the system that
\* it was at first, but for packages with just a module.
First == \/ sessions = 0
         \/ sessions = 1 /\ (state \in PreState \/ (state = "idle" /\ commitState \in Before))
StartInv ==
  /\ state = "idle" => existingModulePackages = {}
  /\ sessions = 0 => commitState = "none"
  /\ First => \A p \in Package : ModuleFile[p] = NoFile => ReadManifest(p) = InstalledFiles(disk, p)

OperationInv == CommitInv /\ NoneToRemove /\ StartInv /\ HalfInv /\ FilesInv /\ SideInv

\* The steps that leave alone the unpack object, or the lack of one.
Framed ==
  /\ UNCHANGED <<state, pkgname, fsVars, mfVars, packageVars, fileVars, orig, committed>>
  /\ failed \subseteq failed'
  /\ \/ UNCHANGED <<curstat, disk, selstat, prevstat, sessions>>
     \/ /\ state = "idle"
        /\ \/ UNCHANGED <<selstat, prevstat, sessions>>
           \/ Select /\ curstat = disk /\ UNCHANGED <<curstat, disk>>

LEMMA FramedSteps ==
  ASSUME CommitInv, CommitBegin \/ StatusStep \/ StillStep
  PROVE  Framed
<1>1. CASE CommitBegin
  <2>1. state = "idle" /\ curstat = disk
    BY <1>1 DEF CommitBegin, CommitInv, VerifiedInv, OneUnpack, BetweenSessions
  <2> QED
    BY <1>1, <2>1 DEF CommitBegin, Framed, statVars
<1>2. CASE StatusStep
  <2>1. /\ state = "idle"
        /\ UNCHANGED <<state, pkgname, fsVars, mfVars, packageVars, fileVars, sessionVars>>
        /\ NoFault \/ \E k \in Faults : Fault(k)
    BY <1>2, StatusSteps
  <2> QED
    BY <2>1 DEF Framed, sessionVars, NoFault, Fault
<1>3. CASE StillStep
  BY <1>3, StillSteps DEF Still, Framed, statVars, sessionVars, NoFault, Fault
<1> QED
  BY <1>1, <1>2, <1>3

LEMMA HalfFramed ==
  ASSUME HalfInv, TypeInv', Framed
  PROVE  HalfInv' /\ (NoneToRemove => NoneToRemove')
<1>1. UNCHANGED <<state, packagesPreUnpacked, packagesBeingUnpacked, packagesBeingRemoved, committed>>
  BY DEF Framed, packageVars
<1>2. CASE state = "idle"
  BY <1>1, <1>2 DEF HalfInv, HalfUnpackedInMemory, HalfUnpackedOnDisk, NoneToRemove, PreState, MidState,
     ForwardState, FinalState,
      UnwindState
<1>3. CASE state # "idle"
  <2>1. UNCHANGED <<curstat, disk>>
    BY <1>3 DEF Framed
  <2> QED
    BY <1>1, <2>1 DEF HalfInv, HalfUnpackedInMemory, HalfUnpackedOnDisk, NoneToRemove
<1> QED
  BY <1>2, <1>3

LEMMA FilesFramed ==
  ASSUME FilesInv, TypeInv', Framed
  PROVE  FilesInv'
<1>1. /\ UNCHANGED <<state, dst, bak, mfDst, mfTmp, mfBak, packagesPreUnpacked, packagesBeingUnpacked>>
      /\ UNCHANGED <<filesToUnpack, filesBeingUnpacked, filesUnpacked, filesToRemove, filesBeingRemoved, orig, committed>>
      /\ failed \subseteq failed'
  BY DEF Framed, fsVars, mfVars, packageVars, fileVars, unpackVars, removeVars
<1>2. RecoverInv'
  BY <1>1 DEF FilesInv, RecoverInv, ControlsApart, FinalCommitted, BackedUp, InPlace, Untouched, Changed,
     FilesRecoverable
<1>3. ReplacedInv'
  BY <1>1 DEF FilesInv, ReplacedInv
<1>4. RestoredInv'
  BY <1>1 DEF FilesInv, RestoredInv, LeftChanged, LeftLost
<1> QED
  BY <1>2, <1>3, <1>4 DEF FilesInv

\* Between two sessions there is nothing in the sets.
IdleSets ==
  state = "idle" => packagesToUnpack = {} /\ packagesPreUnpacked = {} /\ packagesBeingUnpacked = {}
                    /\ existingModulePackages = {}

LEMMA SideFramed ==
  ASSUME TypeInv, SideInv, IdleSets, Framed,
         \A p \in Package : /\ curstat'[p].state >= unpacked => curstat'[p].version \in Version
                            /\ disk'[p].state >= unpacked => disk'[p].version \in Version,
         sessions = 0 => UNCHANGED disk
  PROVE  SideInv'
<1>1. /\ UNCHANGED <<state, pkgname, mfDst, mfTmp, mfBak, filesToUnpack, filesBeingUnpacked, filesToRemove>>
      /\ UNCHANGED <<packagesToUnpack, packagesPreUnpacked, packagesBeingUnpacked, packagesToRemove,
                     packagesBeingRemoved, existingModulePackages, moduleVersion, committed>>
      /\ failed \subseteq failed'
  BY DEF Framed, mfVars, packageVars, fileVars, unpackVars, removeVars
<1>2. ManifestsOwn'
  BY <1>1 DEF SideInv, ManifestsOwn
<1>3. UnpackedInv'
  BY <1>1 DEF SideInv, UnpackedInv, ToBeUnpacked, ToBeRemoved, IdleSets, Framed
<1>4. FirstInv'
  <2>1. CASE UNCHANGED <<selstat, prevstat, sessions>>
    BY <1>1, <2>1 DEF SideInv, FirstInv, ReadManifest, InstalledFiles, Framed
  <2>2. CASE state = "idle" /\ Select /\ curstat = disk /\ UNCHANGED <<curstat, disk>>
    <3>1. sessions \in Nat
      BY DEF TypeInv, TypeOK
    <3>2. sessions' # 0 /\ (sessions' <= 1 => sessions = 0)
      BY <2>2, <3>1 DEF Select
    <3>3. state' \notin PreState
      BY <1>1, <2>2 DEF PreState
    <3> QED
      BY <2>2, <3>2, <3>3 DEF SideInv, FirstInv, Select
  <2> QED
    BY <2>1, <2>2 DEF Framed
<1>5. FilesOfState'
  <2>1. CASE UNCHANGED selstat
    BY <1>1, <2>1 DEF SideInv, FilesOfState
  <2>2. CASE state = "idle"
    BY <1>1, <2>2 DEF SideInv, FilesOfState, FinalState
  <2> QED
    BY <2>1, <2>2 DEF Framed
<1>6. KeptInv'
  <2>1. CASE UNCHANGED <<curstat, disk, selstat, prevstat, sessions>>
    BY <1>1, <2>1 DEF SideInv, KeptInv
  <2>2. CASE state = "idle" /\ (UNCHANGED prevstat \/ prevstat' = curstat)
    <3>1. state' \notin PreState \cup UnwindState \cup MidState
      BY <1>1, <2>2 DEF PreState, MidState, ForwardState, FinalState, UnwindState
    <3> QED
      BY <2>2, <3>1 DEF SideInv, KeptInv
  <2> QED
    BY <2>1, <2>2 DEF Framed, Select
<1> QED
  BY <1>2, <1>3, <1>4, <1>5, <1>6 DEF SideInv

\* A trigger that cannot be found.
LEMMA NotFoundMoves ==
  NotFound =>
    /\ state \in ForwardState /\ state' \in UnwindState /\ <<state, state'>> \in Advances
    /\ state \in {"copy_post_remove", "run_pre_remove_triggers", "run_pre_install_triggers"}
    /\ state' \in {"unwind_copy_post_remove", "unwind_pre_remove_triggers", "unwind_pre_install_triggers"}
    /\ UNCHANGED <<pkgname, curstat, disk, dst, tmp, bak, mfDst, mfTmp, mfBak>>
    /\ UNCHANGED <<packagesToUnpack, packagesPreUnpacked, packagesBeingUnpacked, packagesToRemove,
                   packagesBeingRemoved, existingModulePackages, moduleVersion>>
    /\ UNCHANGED <<filesToUnpack, filesBeingUnpacked, filesUnpacked, filesToRemove, filesBeingRemoved, filesThatConflict>>
    /\ UNCHANGED <<sessions, orig, committed, selstat, prevstat>> /\ failed \subseteq failed'
  BY DEF NotFound, NoFault, Fault, Advances, ForwardState, UnwindState, statVars, fsVars, mfVars,
     packageVars,
         fileVars, unpackVars, removeVars, sessionVars

LEMMA NotFoundFiles == TypeInv' /\ HalfInv /\ FilesInv /\ NotFound => HalfInv' /\ FilesInv'
<1> SUFFICES ASSUME TypeInv', HalfInv, FilesInv, NotFound PROVE HalfInv' /\ FilesInv'
  OBVIOUS
<1> USE NotFoundMoves
<1>1. state' \notin PreState \cup ForwardState \cup FinalState /\ state \in MidState /\ state' \in MidState
  BY StatesApart DEF MidState
<1>2. HalfInv'
  BY <1>1 DEF HalfInv, HalfUnpackedInMemory, HalfUnpackedOnDisk
<1>3. RecoverInv'
  BY <1>1 DEF FilesInv, RecoverInv, ControlsApart, FinalCommitted, BackedUp, InPlace, FilesRecoverable
<1>4. FilesStill
  BY DEF FilesStill
<1> QED
  BY <1>2, <1>3, <1>4, FilesStillKept DEF FilesInv

LEMMA NotFoundSide == TypeInv /\ SessionInv /\ SideInv /\ NotFound => SideInv'
<1> SUFFICES ASSUME TypeInv, SessionInv, SideInv, NotFound PROVE SideInv'
  OBVIOUS
<1> USE NotFoundMoves
<1>1. state' \notin PreState \cup ForwardState \cup FinalState /\ state \in MidState /\ state' \in MidState
  BY StatesApart DEF MidState
<1>2. ManifestsOwn' /\ UnpackedInv'
  BY DEF SideInv, ManifestsOwn, UnpackedInv, ToBeUnpacked, ToBeRemoved
<1>3. FirstInv'
  <2>1. state # "idle"
    BY DEF ForwardState
  <2> QED
    BY <1>1, <2>1 DEF SideInv, FirstInv
<1>4. FilesOfState'
  <2>1. ~committed
    BY DEF SideInv, FilesOfState
  <2> QED
    BY <1>1, <2>1 DEF FilesOfState, PreState, ForwardState, FinalState, UnwindState
<1>5. KeptInv'
  <2>1. curstat = disk
    BY <1>1, StatesApart DEF SessionInv, Saved, UnwoundStatus, MidState
  <2> QED
    BY <1>1, <2>1 DEF SideInv, KeptInv
<1> QED
  BY <1>2, <1>3, <1>4, <1>5 DEF SideInv

LEMMA NotFoundKeep ==
  ASSUME TypeInv, SideInv, KeepInv, NotFound PROVE KeepInv'
<1> USE NotFoundMoves
<1>1. state' \notin PreState \cup ForwardState \cup FinalState /\ state \in MidState /\ state' \in MidState /\ state # "idle"
  BY StatesApart DEF MidState, ForwardState
<1>2. CheckedInv' /\ PlacedInv' /\ EndedInv'
  BY <1>1 DEF CheckedInv, PlacedInv, EndedInv
<1>3. ModuleKept'
  BY <1>1 DEF KeepInv, ModuleKept
<1>4. ClearInv'
  BY <1>1 DEF KeepInv, ClearInv, Touched, FilesInSets, NewFiles
<1>5. OrigInv' /\ OnDisk'
  BY <1>1 DEF KeepInv, OrigInv, OnDisk
<1> QED
  BY <1>2, <1>3, <1>4, <1>5 DEF KeepInv

\* An unpack object is made for the operation, or destroyed.
LEMMA FilesNew == TypeInv' /\ FilesInv /\ NewUnpack => HalfInv' /\ FilesInv'
<1> SUFFICES ASSUME TypeInv', FilesInv, NewUnpack PROVE HalfInv' /\ FilesInv'
  OBVIOUS
<1>1. /\ state' = "pre_unpack" /\ UNCHANGED <<dst, bak, mfDst, mfTmp, mfBak>> /\ orig' = dst /\ committed' = FALSE
      /\ packagesPreUnpacked' = {} /\ packagesBeingUnpacked' = {} /\ packagesBeingRemoved' = {}
      /\ filesToUnpack' = {} /\ filesBeingUnpacked' = {} /\ filesUnpacked' = {}
      /\ filesToRemove' = {} /\ filesBeingRemoved' = {}
  BY DEF NewUnpack, EmptySets, fsVars, mfVars
<1>2. state' \notin MidState
  BY <1>1 DEF MidState, ForwardState, FinalState, UnwindState
<1>3. HalfInv'
  BY <1>1, <1>2 DEF HalfInv, HalfUnpackedInMemory, HalfUnpackedOnDisk
<1>4. RecoverInv'
  BY <1>1, <1>2 DEF FilesInv, RecoverInv, ControlsApart, FinalCommitted, BackedUp, InPlace, Changed,
     FilesRecoverable, MidState
<1>5. ReplacedInv' /\ RestoredInv'
  BY <1>1, <1>2 DEF ReplacedInv, RestoredInv, MidState
<1> QED
  BY <1>3, <1>4, <1>5 DEF FilesInv

LEMMA FilesOver == TypeInv' /\ FilesInv /\ NoSession => HalfInv' /\ FilesInv'
<1> SUFFICES ASSUME TypeInv', FilesInv, NoSession PROVE HalfInv' /\ FilesInv'
  OBVIOUS
<1>1. /\ state' = "idle" /\ UNCHANGED <<dst, bak, mfDst, mfTmp, mfBak, orig, committed>>
      /\ packagesPreUnpacked' = {} /\ packagesBeingUnpacked' = {} /\ packagesBeingRemoved' = {}
      /\ filesToUnpack' = {} /\ filesBeingUnpacked' = {} /\ filesUnpacked' = {}
      /\ filesToRemove' = {} /\ filesBeingRemoved' = {}
  BY DEF NoSession, EmptySets, fsVars, mfVars, sessionVars
<1>2. state' \notin PreState \cup MidState
  BY <1>1 DEF PreState, MidState, ForwardState, FinalState, UnwindState
<1>3. HalfInv'
  BY <1>1, <1>2 DEF HalfInv, HalfUnpackedInMemory, HalfUnpackedOnDisk
<1>4. RecoverInv'
  BY <1>1, <1>2 DEF FilesInv, RecoverInv, ControlsApart, FinalCommitted, BackedUp, InPlace,
     FilesRecoverable, MidState
<1>5. ReplacedInv' /\ RestoredInv'
  BY <1>1, <1>2 DEF ReplacedInv, RestoredInv, MidState
<1> QED
  BY <1>3, <1>4, <1>5 DEF FilesInv

\* The statuses and the session are already in place.
LEMMA SideBegins ==
  ASSUME TypeInv, SideInv, StartInv, UnpackBegin,
         selstat \in Selections, prevstat = curstat, curstat = disk
  PROVE  SideInv'
<1>1. /\ state = "idle" /\ commitState = "unpack" /\ NewUnpack
      /\ UNCHANGED <<sessions, selstat, prevstat>>
  BY DEF UnpackBegin
<1>2. /\ state' = "pre_unpack" /\ UNCHANGED <<curstat, disk, mfDst, mfTmp, mfBak>> /\ committed' = FALSE
      /\ packagesToUnpack' = {p \in Package : UnpackReq(curstat[p], selstat'[p])}
      /\ packagesPreUnpacked' = {} /\ packagesBeingUnpacked' = {} /\ existingModulePackages' = {}
      /\ filesToUnpack' = {} /\ filesBeingUnpacked' = {}
  BY <1>1 DEF NewUnpack, EmptySets, statVars, mfVars
<1>3. sessions \in Nat /\ sessions # 0 /\ sessions >= 1
  BY <1>1 DEF TypeInv, TypeOK, StartInv
<1>4. ManifestsOwn'
  BY <1>2 DEF SideInv, ManifestsOwn
<1>5. UnpackedInv'
  BY <1>1, <1>2, <1>3 DEF UnpackedInv, ToBeUnpacked, ToBeRemoved
<1>6. FirstInv'
  <2>1. sessions = 1 => First
    BY <1>1 DEF First, Before
  <2>2. \A p \in Package : ReadManifest(p)' = ReadManifest(p) /\ InstalledFiles(prevstat, p)' = InstalledFiles(disk, p)
    BY <1>1, <1>2 DEF ReadManifest, InstalledFiles
  <2> HIDE DEF InstalledFiles
  <2> QED
    BY <1>1, <1>2, <1>3, <2>1, <2>2 DEF SideInv, FirstInv, StartInv
<1>7. FilesOfState'
  BY <1>2 DEF FilesOfState, FinalState, UnwindState
<1>8. KeptInv'
  BY <1>1, <1>2 DEF SideInv, KeptInv, PreState, MidState, ForwardState, FinalState, UnwindState
<1> QED
  BY <1>4, <1>5, <1>6, <1>7, <1>8 DEF SideInv

\* Until the disc is changed, no poll changes the manifest of a package with other files.
LEMMA StartPoll == CommitInv /\ StartInv /\ UnpackPoll => StartInv'
<1> SUFFICES ASSUME CommitInv, StartInv, UnpackPoll PROVE StartInv'
  OBVIOUS
<1>1. state # "idle" /\ state' # "idle" /\ UNCHANGED commitState
  BY UnpackPollNarrows DEF Narrows, UnpackPoll, commitVars
<1>2. CASE Still
  BY <1>1, <1>2 DEF Still, statVars, mfVars, sessionVars, StartInv, First, ReadManifest, InstalledFiles
<1>3. CASE NotFound
  <2>1. commitState = "unpack"
    BY <1>1 DEF CommitInv, VerifiedInv, OneUnpack
  <2>2. state' \notin PreState
    BY <1>3, NotFoundMoves, StatesApart DEF MidState
  <2>3. sessions' = sessions
    BY <1>3, NotFoundMoves
  <2> QED
    BY <1>1, <2>1, <2>2, <2>3 DEF StartInv, First
<1>4. CASE Poll
  <2>1. sessions' = sessions
    BY <1>4, PollConstants
  <2>2. ASSUME First', NEW p \in Package, ModuleFile[p] = NoFile
        PROVE  ReadManifest(p)' = InstalledFiles(disk, p)'
    <3>1. state' \in PreState /\ state \in PreState /\ First
      BY <1>1, <1>4, <2>1, <2>2, PollStates DEF First, StartInv, CommitInv, VerifiedInv, OneUnpack
    <3>2. disk' = disk
      BY <1>4, <3>1, StatePolls DEF CommitInv, PreState
    <3>3. mfDst'[p] = mfDst[p] /\ mfBak'[p] = mfBak[p]
      <4>1. CASE PreUnpackSelectPackage
        BY <2>2, <4>1 DEF PreUnpackSelectPackage, ModuleOnSystem, UseModule, ReplaceModule, UnpackAsUsual,
           CommitInv, TypeInv, TypeOK
      <4>2. CASE SetsStill
        BY <4>2 DEF SetsStill, mfVars
      <4>3. CASE PreUnpackCheckFile \/ PreRemoveSelectPackage \/ PreRemoveDone
        BY <4>3 DEF PreUnpackCheckFile, PreRemoveSelectPackage, PreRemoveDone, mfVars
      <4> QED
        BY <1>4, <3>1, <4>1, <4>2, <4>3, PrePolls
    <3> QED
      BY <2>2, <3>1, <3>2, <3>3 DEF StartInv, ReadManifest, InstalledFiles
  <2> QED
    BY <1>1, <2>1, <2>2 DEF StartInv
<1> QED
  BY <1>2, <1>3, <1>4, UnpackPolls

\* How the state of commit changes in the steps that leave the unpack object and the
\* statuses alone.
LEMMA StillCommits ==
  StillStep =>
    \/ UNCHANGED commitState
    \/ commitState \in Before /\ commitState' \in Before \cup {"fail"}
    \/ commitState \in Late /\ commitState' \in Late
    \/ commitState \in {"done", "fail"} /\ commitState' = "none"
  BY DEF StillStep, Paths, PreDownloadPackage, PreDownloadDone, DownloadPackage, DownloadDone,
         DownloadsDone, DownloadEnds, UpdateSystem, PostTrigger, PostTriggersDone, CleanupTrigger,
         CleanupTriggersDone, CommitFinish, TriggerCallback, Goto, allVars, commitVars, Before, Late

LEMMA StartFramed ==
  ASSUME CommitInv, StartInv, Framed, CommitBegin \/ StatusStep \/ StillStep
  PROVE  StartInv'
<1>0. OneUnpack /\ sessions \in Nat
  BY DEF CommitInv, VerifiedInv, TypeInv, TypeOK
<1>1. UNCHANGED <<state, mfDst, mfBak, existingModulePackages>>
  BY DEF Framed, mfVars, packageVars
<1>2. \A p \in Package : ReadManifest(p)' = ReadManifest(p)
  BY <1>1 DEF ReadManifest
<1>3. disk' = disk => \A p \in Package : InstalledFiles(disk, p)' = InstalledFiles(disk, p)
  BY DEF InstalledFiles
<1>4. CASE CommitBegin
  <2>1. /\ sessions' = sessions + 1 /\ disk' = disk /\ commitState = "none"
    BY <1>4 DEF CommitBegin, Select, statVars
  <2>2. state = "idle" /\ sessions' # 0 /\ (sessions' = 1 => sessions = 0)
    BY <1>0, <2>1 DEF OneUnpack
  <2> QED
    BY <1>1, <1>2, <1>3, <2>1, <2>2 DEF StartInv, First, PreState
<1>5. CASE StatusStep
  <2>1. state = "idle" /\ sessions' = sessions /\ commitState \in {"configure", "purge"}
    BY <1>5, StatusSteps DEF sessionVars
  <2>2. commitState' \notin Before
    BY <1>5, <2>1 DEF StatusStep, ConfigurePackage, ConfigureDone, PurgePackage, PurgeDone, SaveStatus, Before
  <2> QED
    BY <1>1, <2>1, <2>2 DEF StartInv, First, PreState
<1>6. CASE StillStep
  <2>1. UNCHANGED <<disk, sessions>>
    BY <1>6, StillSteps DEF Still, statVars, sessionVars
  <2>2. /\ commitState' \in Before => commitState \in Before
        /\ commitState = "none" => commitState' = "none"
    BY <1>6, StillCommits DEF Before, Late
  <2> QED
    BY <1>1, <1>2, <1>3, <2>1, <2>2 DEF StartInv, First
<1> QED
  BY <1>4, <1>5, <1>6

LEMMA StartOver ==
  ASSUME CommitInv, StartInv, NoSession, commitState # "none", commitState' \notin Before
  PROVE  StartInv'
  BY DEF NoSession, EmptySets, sessionVars, StartInv, First, Before, PreState

LEMMA StartBegins ==
  ASSUME StartInv, UnpackBegin
  PROVE  StartInv'
  BY DEF UnpackBegin, NewUnpack, statVars, mfVars, commitVars, StartInv, First, Before, PreState,
     ReadManifest, InstalledFiles

LEMMA OperationInit == CommitInit => OperationInv
<1> SUFFICES ASSUME CommitInit PROVE OperationInv
  OBVIOUS
<1>1. Init /\ commitState = "none" /\ state = "idle" /\ existingModulePackages = {}
  BY DEF CommitInit, Init
<1>2. \A p \in Package : /\ mfDst[p] = InstalledFiles(curstat, p) /\ mfBak[p] = {}
  BY <1>1 DEF Init, InstalledFiles
<1>3. StartInv
  <2>1. disk = curstat
    BY <1>1 DEF Init
  <2> HIDE DEF InstalledFiles
  <2> QED
    BY <1>1, <1>2, <2>1 DEF StartInv, ReadManifest
<1>4. NoneToRemove
  BY <1>1 DEF NoneToRemove, UnwindState
<1> QED
  BY <1>1, <1>3, <1>4, CommitInvInit, HalfInit, FilesInit, SideInit DEF OperationInv

\* Configuring and purging make no package unpacked.
LEMMA StatusKeeps ==
  ASSUME CommitInv, StatusStep
  PROVE  /\ \A p \in Package : curstat'[p].state >= unpacked =>
              curstat[p].state >= unpacked /\ curstat'[p].version = curstat[p].version
         /\ disk' = disk \/ disk' = curstat'
<1>0. /\ packagesToConfigure \subseteq Package /\ packagesToPurge \subseteq Package
      /\ curstat \in [Package -> Status] /\ disk \in [Package -> Status] /\ selstat \in [Package -> Status]
  BY DEF CommitInv, OperationOn, TypeInv, TypeOK
<1>1. ASSUME NEW p \in Package, curstat'[p].state >= unpacked
      PROVE  curstat[p].state >= unpacked /\ curstat'[p].version = curstat[p].version
  <2>1. CASE ConfigurePackage
    <3>1. PICK q \in packagesToConfigure :
            curstat' = IF ConfigReq(curstat[q], selstat[q]) /\ ~UnpackReq(curstat[q], selstat[q])
                       THEN [curstat EXCEPT ![q].state = installed] ELSE curstat
      BY <2>1 DEF ConfigurePackage, Mark
    <3>2. CASE p = q /\ ConfigReq(curstat[p], selstat[p]) /\ ~UnpackReq(curstat[p], selstat[p])
      <4>1. curstat[p].state \in PkgState /\ selstat[p].state \in PkgState
        BY <1>0 DEF Status
      <4>2. curstat[p].state >= unpacked
        BY <3>2, <4>1 DEF ConfigReq, UnpackReq, unpacked, installed, PkgState
      <4>3. curstat'[p].version = curstat[p].version
        BY <1>0, <3>1, <3>2 DEF Status
      <4> QED
        BY <4>2, <4>3
    <3>3. CASE ~(p = q /\ ConfigReq(curstat[p], selstat[p]) /\ ~UnpackReq(curstat[p], selstat[p]))
      <4>1. curstat'[p] = curstat[p]
        BY <1>0, <3>1, <3>3
      <4> QED
        BY <1>1, <4>1
    <3> QED
      BY <3>2, <3>3
  <2>2. CASE PurgePackage
    <3>1. PICK q \in packagesToPurge :
            curstat' = [curstat EXCEPT ![q].state = not_present] \/ curstat' = curstat
      BY <2>2 DEF PurgePackage, Mark
    <3>2. curstat'[p] = curstat[p] \/ curstat'[p].state = not_present
      <4>1. CASE p = q
        BY <1>0, <3>1, <4>1 DEF Status
      <4>2. CASE p # q
        BY <1>0, <3>1, <4>2
      <4> QED
        BY <4>1, <4>2
    <3> QED
      BY <1>1, <3>2 DEF not_present, unpacked
  <2>3. CASE ConfigureDone \/ PurgeDone
    BY <1>1, <2>3 DEF ConfigureDone, PurgeDone, SaveStatus, statVars
  <2> QED
    BY <2>1, <2>2, <2>3 DEF StatusStep
<1>2. disk' = disk \/ disk' = curstat'
  BY DEF StatusStep, ConfigurePackage, ConfigureDone, PurgePackage, PurgeDone, SaveStatus, CommitStatus,
     statVars
<1> QED
  BY <1>1, <1>2

LEMMA OperationInvNext == OperationInv /\ [CommitNext]_allVars => OperationInv'
<1> SUFFICES ASSUME OperationInv, [CommitNext]_allVars PROVE OperationInv'
  OBVIOUS
<1>0. /\ CommitInv /\ NoneToRemove /\ StartInv /\ HalfInv /\ FilesInv /\ SideInv /\ CommitInv'
      /\ TypeInv /\ SessionInv /\ SetsInv /\ TypeInv' /\ RecoverInv /\ FilesOfState /\ KeptInv
  BY CommitInvNext DEF OperationInv, CommitInv, FilesInv, SideInv, SessionInv, SetsInv
<1>1. CASE CommitBegin \/ StatusStep \/ StillStep
  <2>1. Framed
    BY <1>0, <1>1, FramedSteps
  <2>2. IdleSets
    BY <1>0 DEF IdleSets, CommitInv, BetweenSessions, StartInv
  <2>3. \A p \in Package : /\ curstat'[p].state >= unpacked => curstat'[p].version \in Version
                           /\ disk'[p].state >= unpacked => disk'[p].version \in Version
    <3>1. CASE StatusStep
      BY <1>0, <3>1, StatusKeeps DEF KeptInv
    <3>2. CASE CommitBegin \/ StillStep
      <4>1. UNCHANGED <<curstat, disk>>
        BY <3>2, StillSteps DEF CommitBegin, Still, statVars
      <4> QED
        BY <1>0, <4>1 DEF KeptInv
    <3> QED
      BY <1>1, <3>1, <3>2
  <2>4. sessions = 0 => UNCHANGED disk
    <3>1. StatusStep => sessions # 0
      BY <1>0, StatusSteps DEF StartInv
    <3> QED
      BY <1>1, <3>1, StillSteps DEF CommitBegin, Still, statVars
  <2> QED
    BY <1>0, <1>1, <2>1, <2>2, <2>3, <2>4, HalfFramed, FilesFramed, SideFramed, StartFramed DEF OperationInv
<1>2. CASE UnpackBegin
  <2>1. selstat \in Selections /\ prevstat = curstat /\ curstat = disk
    BY <1>0, <1>2 DEF UnpackBegin, CommitInv, Beginning, BetweenSessions, Before
  <2> QED
    BY <1>0, <1>2, <2>1, FilesNew, NoneToRemoveNew, SideBegins, StartBegins DEF OperationInv, UnpackBegin
<1>3. CASE UnpackPoll
  <2>0. StartInv'
    BY <1>0, <1>3, StartPoll
  <2>1. CASE Poll
    BY <1>0, <2>0, <2>1, HalfNext, FilesNext, SidePoll, NoneToRemovePoll DEF OperationInv, Next
  <2>2. CASE NotFound
    BY <1>0, <2>0, <2>2, NotFoundFiles, NotFoundSide, NoneToRemovePoll DEF OperationInv
  <2>3. CASE Still
    <3>1. Framed
      BY <2>3 DEF Framed, Still, NoFault, Fault, statVars, sessionVars
    <3>2. UNCHANGED <<curstat, disk>>
      BY <2>3 DEF Still, statVars
    <3>3. IdleSets
      BY <1>0 DEF IdleSets, CommitInv, BetweenSessions, StartInv
    <3> QED
      BY <1>0, <2>0, <3>1, <3>2, <3>3, HalfFramed, FilesFramed, SideFramed DEF OperationInv, KeptInv
  <2> QED
    BY <1>3, <2>1, <2>2, <2>3, UnpackPolls
<1>4. CASE UnpackEnded \/ UnpackFailed \/ CommitCrash
  <2>1. NoSession /\ curstat' \in {curstat, disk} /\ commitState # "none" /\ commitState' \notin Before
    BY <1>4 DEF UnpackEnded, UnpackFailed, CommitCrash, Finish, Before
  <2> QED
    BY <1>0, <2>1, FilesOver, NoneToRemoveOver, SideOver, StartOver DEF OperationInv
<1> QED
  BY <1>1, <1>2, <1>3, <1>4 DEF CommitNext, CommitPoll, StillStep, StatusStep

LEMMA OperationInvSpec == CommitSpec => []OperationInv
  BY OperationInit, OperationInvNext, PTL DEF CommitSpec

\* Between two sessions, what is unpacked or installed in memory is unpacked on the disc.
UnpackedOnDisk ==
  state = "idle" => \A p \in Package : curstat[p].state >= unpacked =>
                      disk[p].state >= unpacked /\ disk[p].version = curstat[p].version

LEMMA UnpackedOnDiskNext == OperationInv /\ UnpackedOnDisk /\ [CommitNext]_allVars => UnpackedOnDisk'
<1> SUFFICES ASSUME OperationInv, UnpackedOnDisk, [CommitNext]_allVars, state' = "idle" PROVE UnpackedOnDisk'
  BY DEF UnpackedOnDisk
<1>0. CommitInv /\ SessionInv /\ OneUnpack
  BY DEF OperationInv, CommitInv, VerifiedInv
<1>1. CASE CommitBegin
  BY <1>0, <1>1 DEF CommitBegin, statVars, UnpackedOnDisk
<1>2. CASE StatusStep
  BY <1>0, <1>2, StatusSteps, StatusKeeps DEF UnpackedOnDisk
<1>3. CASE StillStep
  BY <1>3, StillSteps DEF Still, statVars, UnpackedOnDisk
<1>4. CASE UnpackBegin \/ UnpackPoll
  BY <1>4, UnpackPollNarrows DEF UnpackBegin, NewUnpack, Narrows
<1>5. CASE UnpackEnded \/ UnpackFailed \/ CommitCrash
  <2>1. CASE (UnpackEnded \/ UnpackFailed) /\ NoSession
    <3>1. disk' = disk
      BY <2>1 DEF NoSession
    <3>2. curstat' = curstat /\ state \in {"done", "fail"}
      BY <2>1 DEF UnpackEnded, UnpackFailed, Finish
    <3> QED
      BY <1>0, <3>1, <3>2 DEF SessionInv, Saved, UnpackedOnDisk
  <2>2. CASE CommitCrash /\ NoSession
    BY <2>2 DEF CommitCrash, NoSession, UnpackedOnDisk
  <2>3. NoSession
    BY <1>5 DEF UnpackEnded, UnpackFailed, Finish, CommitCrash
  <2> QED
    BY <1>5, <2>1, <2>2, <2>3 DEF UnpackedOnDisk
<1> QED
  BY <1>1, <1>2, <1>3, <1>4, <1>5 DEF CommitNext, CommitPoll, StillStep, StatusStep

KeptWhole == Guarded /\ Whole => KeepInv
SafeInv == OperationInv /\ UnpackedOnDisk /\ KeptWhole

LEMMA KeepFramed ==
  ASSUME KeepInv, UnpackedOnDisk, Framed, disk' = disk \/ (state = "idle" /\
         \A p \in Package : disk'[p].state >= unpacked =>
              curstat[p].state >= unpacked /\ disk'[p].version = curstat[p].version)
  PROVE  KeepInv'
<1>1. /\ UNCHANGED <<state, pkgname, dst, tmp, bak, mfDst, mfTmp, mfBak, filesToUnpack, filesBeingUnpacked, filesUnpacked>>
      /\ UNCHANGED <<filesToRemove, filesBeingRemoved, filesThatConflict, orig, committed>>
      /\ UNCHANGED <<packagesToUnpack, packagesPreUnpacked, packagesBeingUnpacked, packagesToRemove,
                     packagesBeingRemoved, existingModulePackages, moduleVersion>>
  BY DEF Framed, fsVars, mfVars, packageVars, fileVars, unpackVars, removeVars
<1>2. OnDisk'
  BY <1>1 DEF KeepInv, OnDisk, UnpackedOnDisk
<1>3. CASE state = "idle"
  <2>1. state' \notin PreState \cup MidState
    BY <1>1, <1>3 DEF PreState, MidState, ForwardState, FinalState, UnwindState
  <2>2. CheckedInv' /\ ModuleKept' /\ ClearInv' /\ PlacedInv' /\ EndedInv' /\ OrigInv'
    BY <1>1, <1>3, <2>1 DEF CheckedInv, ModuleKept, ClearInv, PlacedInv, EndedInv, OrigInv, MidState
  <2> QED
    BY <1>2, <2>2 DEF KeepInv
<1>4. CASE state # "idle"
  <2>1. UNCHANGED <<curstat, disk, selstat, prevstat, sessions>>
    BY <1>4 DEF Framed
  <2>2. CheckedInv' /\ ModuleKept'
    BY <1>1, <2>1 DEF KeepInv, CheckedInv, ReadManifest, ModuleKept
  <2>3. ClearInv' /\ PlacedInv'
    BY <1>1, <2>1 DEF KeepInv, ClearInv, Touched, FilesInSets, NewFiles, PlacedInv, Placed
  <2>4. EndedInv' /\ OrigInv'
    BY <1>1, <2>1 DEF KeepInv, EndedInv, OrigInv
  <2> QED
    BY <1>2, <2>2, <2>3, <2>4 DEF KeepInv
<1> QED
  BY <1>3, <1>4

\* Failures are not forgotten, and sessions are counted.
LEMMA SessionsCount ==
  ASSUME OperationInv, [CommitNext]_allVars
  PROVE  failed \subseteq failed' /\ (sessions' <= 1 => sessions <= 1)
<1>0. CommitInv /\ sessions \in Nat
  BY DEF OperationInv, CommitInv, TypeInv, TypeOK
<1>1. failed \subseteq failed' /\ sessions <= sessions'
  <2>1. CASE CommitBegin \/ StatusStep \/ StillStep
    <3>1. Framed
      BY <1>0, <2>1, FramedSteps
    <3> QED
      BY <1>0, <3>1 DEF Framed, Select
  <2>2. CASE UnpackPoll
    <3>1. CASE Poll
      BY <1>0, <3>1, PollConstants
    <3>2. CASE NotFound \/ Still
      BY <1>0, <3>2, NotFoundMoves DEF Still, NoFault, Fault, sessionVars
    <3> QED
      BY <2>2, <3>1, <3>2, UnpackPolls
  <2>3. CASE UnpackBegin \/ UnpackEnded \/ UnpackFailed \/ CommitCrash
    BY <1>0, <2>3 DEF UnpackBegin, NewUnpack, UnpackEnded, UnpackFailed, CommitCrash, Finish, NoSession,
       NoFault, Fault, sessionVars
  <2> QED
    BY <2>1, <2>2, <2>3 DEF CommitNext, CommitPoll, StillStep, StatusStep
<1>2. sessions' <= 1 => sessions <= 1
  <2>1. sessions' \in Nat
    BY CommitInvNext DEF OperationInv, CommitInv, TypeInv, TypeOK
  <2> QED
    BY <1>0, <1>1, <2>1
<1> QED
  BY <1>1, <1>2

LEMMA WholeBefore ==
  ASSUME OperationInv, [CommitNext]_allVars, Guarded', Whole'
  PROVE  Guarded /\ Whole
  BY SessionsCount DEF Guarded, Whole

LEMMA KeptWholeNext == Consistent /\ SafeInv /\ [CommitNext]_allVars => KeptWhole'
<1> SUFFICES ASSUME Consistent, SafeInv, [CommitNext]_allVars, Guarded', Whole' PROVE KeepInv'
  BY DEF KeptWhole
<1>0. /\ OperationInv /\ UnpackedOnDisk /\ Guarded /\ KeepInv /\ CommitInv /\ TypeInv /\ SessionInv
      /\ HalfInv /\ FilesInv /\ SideInv /\ OnDisk
  BY WholeBefore DEF SafeInv, KeptWhole, OperationInv, CommitInv, KeepInv
<1>1. CASE CommitBegin \/ StatusStep \/ StillStep
  <2>1. Framed
    BY <1>0, <1>1, FramedSteps
  <2>2. CASE StatusStep
    BY <1>0, <2>1, <2>2, KeepFramed, StatusSteps, StatusKeeps
  <2>3. CASE CommitBegin \/ StillStep
    <3>1. disk' = disk
      BY <2>3, StillSteps DEF CommitBegin, Still, statVars
    <3> QED
      BY <1>0, <2>1, <3>1, KeepFramed
  <2> QED
    BY <1>1, <2>2, <2>3
<1>2. CASE UnpackBegin
  <2>1. prevstat = curstat /\ curstat = disk
    BY <1>0, <1>2 DEF UnpackBegin, CommitInv, Beginning, BetweenSessions, Before
  <2> QED
    BY <1>0, <1>2, <2>1, KeepNew DEF UnpackBegin
<1>3. CASE UnpackPoll
  <2>1. CASE Poll
    <3>1. StatusInv
      BY <1>0, <2>1, PollStates DEF StatusInv, IdleSaved, EndState
    <3> QED
      BY <1>0, <2>1, <3>1, KeepPoll
  <2>2. CASE NotFound
    BY <1>0, <2>2, NotFoundKeep
  <2>3. CASE Still
    <3>1. Framed /\ disk' = disk
      BY <2>3 DEF Framed, Still, NoFault, Fault, statVars, sessionVars
    <3> QED
      BY <1>0, <3>1, KeepFramed
  <2> QED
    BY <1>3, <2>1, <2>2, <2>3, UnpackPolls
<1>4. CASE UnpackEnded \/ UnpackFailed \/ CommitCrash
  <2>1. NoSession
    BY <1>4 DEF UnpackEnded, UnpackFailed, CommitCrash, Finish
  <2> QED
    BY <1>0, <2>1, KeepOver
<1> QED
  BY <1>1, <1>2, <1>3, <1>4 DEF CommitNext, CommitPoll, StillStep, StatusStep

LEMMA SafeInit == Consistent /\ CommitInit => SafeInv
<1> SUFFICES ASSUME Consistent, CommitInit PROVE SafeInv
  OBVIOUS
<1>1. Init /\ curstat = disk
  BY DEF CommitInit, Init
<1>2. IntactInv
  BY <1>1, IntactInit
<1> QED
  BY <1>1, <1>2, OperationInit DEF SafeInv, IntactInv, KeptWhole, UnpackedOnDisk

LEMMA SafeNext == Consistent /\ SafeInv /\ [CommitNext]_allVars => SafeInv'
  BY OperationInvNext, UnpackedOnDiskNext, KeptWholeNext DEF SafeInv

\* InstalledIntact (commit::poll, unpack::_poll) through any number of operations: as long
\* as no two packages have a file in common, or in the first session, a package that is
\* installed has all the files of its version, each its own, unless a file could not be
\* moved into place or a directory made (Whole).  FilesRecoverable and HalfUnpackedOnDisk
\* hold through any number of operations without that hypothesis.
THEOREM OperationsKeepIntact ==
  ASSUME Consistent
  PROVE  CommitSpec => [](FilesRecoverable /\ HalfUnpackedOnDisk /\ (Guarded => InstalledIntact))
<1>1. CommitInit => SafeInv
  BY SafeInit
<1>2. SafeInv /\ [CommitNext]_allVars => SafeInv'
  BY SafeNext
<1>3. SafeInv => FilesRecoverable /\ HalfUnpackedOnDisk /\ (Guarded => InstalledIntact)
  <2> SUFFICES ASSUME SafeInv PROVE FilesRecoverable /\ HalfUnpackedOnDisk /\ (Guarded => InstalledIntact)
    OBVIOUS
  <2>1. FilesRecoverable /\ HalfUnpackedOnDisk
    BY DEF SafeInv, OperationInv, FilesInv, RecoverInv, HalfInv
  <2>2. Guarded => InstalledIntact
    BY DEF SafeInv, KeptWhole, KeepInv, OnDisk, Whole, InstalledIntact, Intact, FilesOf
  <2> QED
    BY <2>1, <2>2
<1> QED
  BY <1>1, <1>2, <1>3, PTL DEF CommitSpec

-------------------------------------------------------------------------------
(* How the states follow one another, for the queues of triggers.          *)

\* The states in which no pre-install trigger is left to be unwound, and no trigger of a
\* package that was there.
NothingInstalled == BeforeInstall \cup {"unwind_unpack", "unwind_remove_files_replaced_by_dirs",
  "unwind_pre_remove_triggers", "unwind_copy_post_remove", "unwind_pre_remove", "unwind_pre_unpack"}
NothingRun == BeforeRun \cup {"unwind_copy_post_remove", "unwind_pre_remove", "unwind_pre_unpack"}

\* A poll that goes neither back to such states nor to a new session.
StaysApart ==
  /\ state' \in NothingInstalled => state \in NothingInstalled
  /\ state' \in NothingRun => state \in NothingRun
  /\ state' \in PreState => state \in PreState
  /\ state' = "done" => state \in {"post_unpack", "done"}

LEMMA FileMoves ==
  ASSUME FilePoll
  PROVE  StaysApart /\ UNCHANGED <<packagesToUnpack, packagesToRemove, sessions, selstat, prevstat>>
<1> USE ExceptionValues
    DEF StaysApart, NothingInstalled, NothingRun, BeforeInstall, BeforeRun, sessionVars, statVars,
    packageVars, Throw, ThrowPre, Progress,
        PreState, UnwindState
<1>1. CASE PreUnpackCheckFile \/ PreUnpackCheckEmptyDir \/ PreUnpackDone \/ PreRemoveDone
  BY <1>1 DEF PreUnpackCheckFile, PreUnpackCheckEmptyDir, PreUnpackDone, PreRemoveDone
<1>2. CASE RemoveFilesReplacedByDirs \/ UnpackFile \/ UnpackDone
  BY <1>2 DEF RemoveFilesReplacedByDirs, UnpackFile, UnpackDone
<1>3. CASE UnpackSelectPackage
  BY <1>3 DEF UnpackSelectPackage
<1>4. CASE ReplaceFile \/ ReplaceCheckEmptyDir \/ ReplaceDone
  BY <1>4 DEF ReplaceFile, ReplaceCheckEmptyDir, ReplaceDone
<1>5. CASE RemoveFile \/ RemoveDir \/ RemoveDone
  BY <1>5 DEF RemoveFile, RemoveDir, RemoveDone
<1>6. CASE FinalPoll
  BY <1>6 DEF FinalPoll, PostRemoveFile, PostRemovePackage, PostRemoveDone, CreateEmptyDir,
              CreateEmptyDirsDone, PostUnpackPackage, PostUnpackDone
<1>7. CASE UnwindCreateEmptyDir \/ UnwindCreateEmptyDirsDone \/ UnwindReplaceFile
           \/ UnwindReplaceDone \/ UnwindRemoveDir \/ UnwindRemoveDone \/ UnwindUnpackFile
           \/ UnwindUnpackPackage \/ UnwindUnpackDone \/ UnwindRemoveFilesReplacedByDirs
  BY <1>7 DEF UnwindCreateEmptyDir, UnwindCreateEmptyDirsDone, UnwindReplaceFile,
              UnwindReplaceDone, UnwindRemoveDir, UnwindRemoveDone, UnwindUnpackFile,
              UnwindUnpackPackage, UnwindUnpackDone, UnwindRemoveFilesReplacedByDirs,
              RestoreFileFails
<1>8. CASE UnwindPreRemovePackage \/ UnwindPreRemoveDone \/ UnwindPreUnpackPackage
           \/ UnwindPreUnpackDone
  BY <1>8 DEF UnwindPreRemovePackage, UnwindPreRemoveDone, UnwindPreUnpackPackage,
              UnwindPreUnpackDone
<1> QED
  BY <1>1, <1>2, <1>3, <1>4, <1>5, <1>6, <1>7, <1>8 DEF FilePoll

\* The polls that have to do with triggers, but for those that select a package.
LEMMA TriggerMoves ==
  ASSUME UnpackPoll, ~FilePoll, ~SelectToUnpack, ~SelectToRemove
  PROVE  /\ UNCHANGED <<packagesToUnpack, packagesToRemove, sessions, selstat, prevstat>>
         /\ state' \in PreState => state \in PreState
         /\ state' # "done"
         /\ \/ StaysApart
            \/ UnwindPreInstallTriggersDone \/ UnwindPreRemoveTriggersDone
<1> USE DEF sessionVars, statVars, packageVars, Progress, Verdict, PreState, StaysApart, NothingInstalled,
         NothingRun, BeforeInstall, BeforeRun
<1>1. CASE SaveTriggersDone \/ PreRemoveTriggersDone \/ PreInstallTriggersDone
  BY <1>1 DEF SaveTriggersDone, PreRemoveTriggersDone, PreInstallTriggersDone, CopyPostRemove,
              RunPreRemoveTriggers, RunPreInstallTriggers
<1>2. CASE UnwindPreInstallTriggersDone \/ UnwindPreRemoveTriggersDone
  BY <1>2 DEF UnwindPreInstallTriggersDone, UnwindPreRemoveTriggersDone,
              UnwindPreInstallTriggers, UnwindPreRemoveTriggers
<1>3. CASE PreRemoveTrigger \/ PreInstallTrigger
  BY <1>3 DEF PreRemoveTrigger, PreInstallTrigger, TriggerSucceeded, TriggerFailed, DropTrigger,
              RunPreRemoveTriggers, RunPreInstallTriggers, vars
<1>4. CASE UnwindPreInstallTrigger \/ UnwindPreRemoveTrigger \/ UnwindSaveTrigger
  BY <1>4 DEF UnwindPreInstallTrigger, UnwindPreRemoveTrigger, UnwindSaveTrigger, RemoveCopy, vars
<1>5. CASE SaveTrigger \/ UnwindSaveTriggersDone
  BY <1>5 DEF SaveTrigger, CopyPostRemove, UnwindSaveTriggersDone, UnwindCopyPostRemove, vars
<1> QED
  BY <1>1, <1>2, <1>3, <1>4, <1>5 DEF UnpackPoll

LEMMA SelectMoves ==
  ASSUME SelectToUnpack \/ SelectToRemove
  PROVE  /\ UNCHANGED <<sessions, selstat, prevstat>>
         /\ state \in PreState /\ state' \in PreState \cup {"fail"}
         /\ StaysApart
<1> USE ExceptionValues DEF sessionVars, Throw, ThrowPre, PreState, StaysApart, NothingInstalled,
         NothingRun, BeforeInstall, BeforeRun
<1>1. CASE SelectToUnpack
  BY <1>1 DEF SelectToUnpack, PreUnpackSelectPackage
<1>2. CASE SelectToRemove
  BY <1>2 DEF SelectToRemove, PreRemoveSelectPackage
<1> QED
  BY <1>1, <1>2

-------------------------------------------------------------------------------
(* The queues of triggers, and the lists of what is to be unwound.         *)

\* Nothing is queued before a session begins, the queues of the post triggers have been
\* emptied when the next state of commit is reached, and the sets of packages when the
\* session ends well.
NoQueues ==
  /\ preInstall = {} /\ postInstall = {} /\ preRemove = {} /\ postRemove = {}
  /\ hasInstallUnwind = {} /\ hasRemoveUnwind = {}
  /\ preInstallUnwind = {} /\ preRemoveUnwind = {}
EmptyInv ==
  /\ commitState = "none" \/ (commitState \in Before /\ state = "idle") => NoQueues
  /\ commitState \in Before /\ state = "idle" => ran = <<>>
  /\ commitState \in {"post_install_triggers", "cleanup_triggers", "done"} => postRemove = {}
  /\ commitState \in {"cleanup_triggers", "done"} => postInstall = {}
  /\ state = "done" => packagesToUnpack = {} /\ packagesToRemove = {}

\* What is left to be unwound is unwound before the unwinding goes on.
UnwindInv ==
  /\ state \in NothingInstalled \/ (state = "fail" /\ BackedOutWell) => preInstallUnwind = {}
  /\ state \in NothingRun \/ (state = "fail" /\ BackedOutWell) => preRemoveUnwind = {}

QueuesStill == UNCHANGED <<queueVars, unwindVars, ran>>

\* The next trigger of a session is run.
NextTrigger ==
  \/ state = "run_pre_remove_triggers" /\ \E p \in preRemove : NextPreRemove(p, Found("pre_remove", p))
  \/ state = "run_pre_install_triggers" /\ \E p \in preInstall : NextPreInstall(p, Found("pre_install", p))
  \/ state = "unwind_pre_install_triggers"
       /\ \E p \in preInstallUnwind : NextPreInstallUnwind(p, Found("abort_pre_install", p))
  \/ state = "unwind_pre_remove_triggers"
       /\ \E p \in preRemoveUnwind : NextPreRemoveUnwind(p, Found("abort_pre_remove", p))

LEMMA TriggerQueues ==
  ASSUME UnpackPoll, ~SelectToUnpack, ~SelectToRemove
  PROVE  QueuesStill \/ (NextTrigger /\ UNCHANGED vars)
<1>1. CASE FilePoll \/ SaveTriggersDone \/ PreRemoveTriggersDone \/ PreInstallTriggersDone
           \/ UnwindPreInstallTriggersDone \/ UnwindPreRemoveTriggersDone \/ UnwindSaveTriggersDone
  BY <1>1 DEF FilePoll, SaveTriggersDone, PreRemoveTriggersDone, PreInstallTriggersDone,
     UnwindPreInstallTriggersDone,
              UnwindPreRemoveTriggersDone, UnwindSaveTriggersDone, triggerVars, QueuesStill
<1>2. CASE PreRemoveTrigger \/ PreInstallTrigger
  BY <1>2 DEF PreRemoveTrigger, PreInstallTrigger, TriggerSucceeded, TriggerFailed, DropTrigger,
     QueuesStill, NextTrigger
<1>3. CASE UnwindPreInstallTrigger \/ UnwindPreRemoveTrigger
  BY <1>3 DEF UnwindPreInstallTrigger, UnwindPreRemoveTrigger, DropTrigger, QueuesStill, NextTrigger
<1>4. CASE SaveTrigger \/ UnwindSaveTrigger
  BY <1>4 DEF SaveTrigger, UnwindSaveTrigger, RemoveCopy, CopyPostRemoveFile, CopyPostRemoveFileFails,
     RemovePostRemoveFile, QueuesStill
<1> QED
  BY <1>1, <1>2, <1>3, <1>4 DEF UnpackPoll

\* The steps of commit itself: a post trigger is run, or the queues are left alone.
LEMMA CommitQueues ==
  ASSUME StillStep, ~CommitFinish
  PROVE  \/ QueuesStill
         \/ /\ UNCHANGED <<vars, commitVars>>
            /\ \/ commitState = "post_remove_triggers" /\ \E p \in postRemove : NextPostRemove(p, Found("post_remove", p))
               \/ commitState = "post_install_triggers" /\ \E p \in postInstall : NextPostInstall(p, Found("post_install", p))
<1>1. CASE PostTrigger
  BY <1>1 DEF PostTrigger, DropTrigger, QueuesStill
<1>2. CASE CleanupTrigger \/ TriggerCallback
  BY <1>2 DEF CleanupTrigger, RemoveCopy, TriggerCallback, RemovePostRemoveFile, TriggerEnds, QueuesStill
<1>3. CASE ~PostTrigger /\ ~CleanupTrigger /\ ~TriggerCallback
  BY <1>3 DEF StillStep, Paths, PreDownloadPackage, PreDownloadDone, DownloadPackage, DownloadDone,
              DownloadsDone, DownloadEnds, UpdateSystem, PostTriggersDone, CleanupTriggersDone, Goto,
              allVars, triggerVars, QueuesStill
<1> QED
  BY <1>1, <1>2, <1>3

LEMMA EmptyNext == CommitInv /\ EmptyInv /\ [CommitNext]_allVars => EmptyInv'
<1> SUFFICES ASSUME CommitInv, EmptyInv, [CommitNext]_allVars PROVE EmptyInv'
  OBVIOUS
<1>0. OneUnpack /\ SetsEmptied
  BY DEF CommitInv, VerifiedInv, SessionInv
<1>1. CASE CommitBegin
  BY <1>0, <1>1 DEF CommitBegin, OneUnpack, EmptyInv, NoQueues, queueVars, unwindVars, Before
<1>2. CASE UnpackBegin
  BY <1>2 DEF UnpackBegin, NewUnpack, EmptyInv, triggerVars, commitVars, Before
<1>3. CASE UnpackPoll
  <2>1. state # "idle" /\ state' # "idle" /\ commitState = "unpack" /\ commitState' = "unpack"
    BY <1>0, <1>3, UnpackPollNarrows DEF Narrows, UnpackPoll, commitVars, OneUnpack
  <2>2. state' = "done" => packagesToUnpack' = {} /\ packagesToRemove' = {}
    <3>1. CASE FilePoll
      BY <1>0, <3>1, FileMoves DEF StaysApart, EmptyInv, SetsEmptied, MidState, FinalState
    <3>2. CASE ~FilePoll
      BY <1>3, <3>2, TriggerMoves, SelectMoves DEF PreState
    <3> QED
      BY <3>1, <3>2
  <2> QED
    BY <2>1, <2>2 DEF EmptyInv, Before
<1>4. CASE UnpackEnded \/ UnpackFailed \/ CommitCrash \/ CommitFinish
  BY <1>0, <1>4 DEF UnpackEnded, UnpackFailed, CommitCrash, CommitFinish, Finish, NoSession, DropTriggers,
     EmptyInv, NoQueues,
              Before, vars, OneUnpack
<1>5. CASE StatusStep
  <2>1. state = "idle" /\ state' = "idle" /\ commitState' \in {"configure", "purge", "update_sysvars"}
    BY <1>5, StatusSteps DEF StatusStep, ConfigurePackage, ConfigureDone, PurgePackage, PurgeDone, SaveStatus
  <2> QED
    BY <2>1 DEF EmptyInv, Before
<1>6. CASE StillStep /\ ~CommitFinish
  <2>1. UNCHANGED <<state, packagesToUnpack, packagesToRemove>>
    BY <1>6, StillSteps DEF Still, packageVars
  <2>2. CASE QueuesStill
    <3>1. /\ commitState' \in Before /\ state = "idle" => commitState \in Before
          /\ commitState' # "none" \/ commitState = "none"
          /\ commitState' = "post_install_triggers" => commitState = "post_install_triggers" \/ postRemove = {}
          /\ commitState' = "cleanup_triggers" => commitState = "cleanup_triggers" \/ (commitState = "post_install_triggers" /\ postInstall = {})
          /\ commitState' = "done" => commitState \in {"cleanup_triggers", "done"}
      BY <1>6 DEF StillStep, Paths, PreDownloadPackage, PreDownloadDone, DownloadPackage, DownloadDone,
              DownloadsDone, DownloadEnds, UpdateSystem, PostTrigger, PostTriggersDone, CleanupTrigger,
              CleanupTriggersDone,
              TriggerCallback, Goto, allVars, commitVars, Before
    <3> QED
      BY <2>1, <2>2, <3>1 DEF QueuesStill, queueVars, unwindVars, EmptyInv, NoQueues
  <2>3. CASE ~QueuesStill
    BY <1>6, <2>1, <2>3, CommitQueues DEF NextPostRemove, NextPostInstall, commitVars, EmptyInv, NoQueues,
       Before
  <2> QED
    BY <2>2, <2>3
<1> QED
  BY <1>1, <1>2, <1>3, <1>4, <1>5, <1>6 DEF CommitNext, CommitPoll, StillStep, StatusStep

LEMMA UnwindQueuesPoll ==
  ASSUME CommitInv, UnwindInv, UnpackPoll PROVE UnwindInv'
<1>0. state # "idle" /\ FinalCommitted
  BY UnpackPollNarrows DEF Narrows, CommitInv, SessionInv
<1>1. CASE FilePoll
  <2>1. StaysApart /\ ComesBack /\ UNCHANGED unwindVars
    BY <1>0, <1>1, FileMoves, PollsBack DEF FilePoll, triggerVars
  <2>2. state' = "fail" /\ BackedOutWell' => state \in NothingInstalled /\ state \in NothingRun
    BY <1>0, <2>1 DEF ComesBack, NoCopies, NothingInstalled, NothingRun, BeforeInstall, BeforeRun
  <2> QED
    BY <2>1, <2>2 DEF StaysApart, unwindVars, UnwindInv
<1>2. CASE SelectToUnpack \/ SelectToRemove
  <2>1. StaysApart /\ state \in PreState /\ UNCHANGED unwindVars
    BY <1>2, SelectMoves DEF SelectToUnpack, SelectToRemove, AddInstallTriggers, AddRemoveTriggers, triggerVars
  <2> QED
    BY <2>1 DEF StaysApart, unwindVars, UnwindInv, NothingInstalled, NothingRun, BeforeInstall, BeforeRun
<1>3. CASE ~FilePoll /\ ~SelectToUnpack /\ ~SelectToRemove
  <2>1. CASE NextTrigger /\ UNCHANGED vars
    <3>1. UNCHANGED <<state, committed, failed>>
      BY <2>1 DEF vars, sessionVars
    <3> QED
      BY <2>1, <3>1 DEF NextTrigger, NextPreRemove, NextPreInstall, NextPreInstallUnwind,
         NextPreRemoveUnwind, UnwindInv, NothingInstalled, NothingRun,
           BeforeInstall, BeforeRun, PreState, BackedOutWell
  <2>2. CASE QueuesStill /\ StaysApart
    <3>1. state' = "fail" => state = "fail" /\ (BackedOutWell' => BackedOutWell)
      BY <1>3, UnpackPollNarrows DEF UnpackPoll, RemoveCopy, SaveTrigger, SaveTriggersDone, PreRemoveTrigger,
         PreRemoveTriggersDone, PreInstallTrigger,
         PreInstallTriggersDone, UnwindPreInstallTrigger, UnwindPreInstallTriggersDone,
         UnwindPreRemoveTrigger, UnwindPreRemoveTriggersDone,
         UnwindSaveTrigger, UnwindSaveTriggersDone, CopyPostRemove, RunPreRemoveTriggers,
         RunPreInstallTriggers, Verdict, Progress,
         UnwindPreInstallTriggers, UnwindPreRemoveTriggers, UnwindCopyPostRemove, TriggerSucceeded,
         TriggerFailed, vars, sessionVars
    <3> QED
      BY <2>2, <3>1 DEF QueuesStill, unwindVars, StaysApart, UnwindInv
  <2>3. CASE UnwindPreInstallTriggersDone
    BY <2>3 DEF UnwindPreInstallTriggersDone, UnwindPreInstallTriggers, Progress, triggerVars, unwindVars,
       UnwindInv, NothingInstalled, NothingRun,
       BeforeInstall, BeforeRun, PreState
  <2>4. CASE UnwindPreRemoveTriggersDone
    BY <2>4 DEF UnwindPreRemoveTriggersDone, UnwindPreRemoveTriggers, Progress, triggerVars, unwindVars,
       UnwindInv, NothingInstalled, NothingRun,
       BeforeInstall, BeforeRun, PreState
  <2> QED
    BY <1>3, <2>1, <2>2, <2>3, <2>4, TriggerQueues, TriggerMoves
<1> QED
  BY <1>1, <1>2, <1>3

LEMMA UnwindNext == CommitInv /\ EmptyInv /\ UnwindInv /\ [CommitNext]_allVars => UnwindInv'
<1> SUFFICES ASSUME CommitInv, EmptyInv, UnwindInv, [CommitNext]_allVars PROVE UnwindInv'
  OBVIOUS
<1>0. OneUnpack
  BY DEF CommitInv, VerifiedInv
<1>1. CASE UnpackBegin
  BY <1>1 DEF UnpackBegin, NewUnpack, EmptyInv, NoQueues, Before, triggerVars, unwindVars, UnwindInv
<1>2. CASE UnpackPoll
  BY <1>2, UnwindQueuesPoll
<1>3. CASE state' = "idle"
  BY <1>3 DEF UnwindInv, NothingInstalled, NothingRun, BeforeInstall, BeforeRun, PreState
<1>4. CASE StillStep
  <2>1. UNCHANGED state /\ (BackedOutWell' => BackedOutWell)
    BY <1>4, StillSteps DEF Still, sessionVars, BackedOutWell, NoFault, Fault
  <2>2. preInstallUnwind' \in {preInstallUnwind, {}} /\ preRemoveUnwind' \in {preRemoveUnwind, {}}
    <3>1. CASE CommitFinish
      BY <3>1 DEF CommitFinish, DropTriggers
    <3>2. CASE ~CommitFinish
      BY <1>4, <3>2, CommitQueues DEF QueuesStill, unwindVars, NextPostRemove, NextPostInstall
    <3> QED
      BY <3>1, <3>2
  <2> QED
    BY <2>1, <2>2 DEF UnwindInv
<1>5. CASE CommitBegin \/ UnpackEnded \/ UnpackFailed \/ CommitCrash \/ StatusStep
  <2>1. state' = "idle"
    BY <1>0, <1>5, StatusSteps DEF CommitBegin, UnpackEnded, UnpackFailed, CommitCrash, Finish, NoSession,
       OneUnpack
  <2> QED
    BY <1>3, <2>1
<1> QED
  BY <1>1, <1>2, <1>4, <1>5 DEF CommitNext, CommitPoll, StillStep, StatusStep

-------------------------------------------------------------------------------
(* The triggers that the manifests list.                                   *)

Plain(p) == ModuleFile[p] = NoFile

\* The package is unpacked, on the disc or in memory, or was when the session began and
\* can still be so again.
Counts(p) ==
  \/ disk[p].state >= unpacked
  \/ curstat[p].state >= unpacked
  \/ state \in PreState \cup MidState /\ ~committed /\ prevstat[p].state >= unpacked

\* The manifest of a package that counts lists the triggers that every version of it
\* has.  Its backup does so only when it is what is left: a backup that could not be
\* deleted is replaced by the next one.
Lists(p) == \A v \in Version : Scripts(p) \cap Contents[p][v] \subseteq ManifestLeft(p)
ListedInv == SameScripts => \A p \in Package : Plain(p) /\ Counts(p) => Lists(p)

\* The statuses that a poll makes of a package with other files than a module.
LEMMA PlainStatus ==
  ASSUME CommitInv, NoneToRemove, UnpackedInv, Poll, NEW p \in Package, Plain(p)
  PROVE  /\ \/ curstat'[p] = curstat[p] \/ curstat'[p] = disk[p] \/ curstat'[p].state < unpacked
            \/ curstat'[p] = prevstat[p] /\ ~committed
            \/ PostUnpackPackage /\ p \in packagesBeingUnpacked
         /\ disk'[p] = disk[p] \/ disk'[p] = curstat'[p]
<1>0. /\ TypeInv /\ SessionInv /\ curstat \in [Package -> Status]
      /\ state \in Onward => p \notin existingModulePackages
      /\ half_unpacked < unpacked /\ removed < unpacked
  <2>1. TypeInv /\ SessionInv /\ curstat \in [Package -> Status]
    BY DEF CommitInv, TypeInv, TypeOK
  <2>2. state \in Onward => p \notin existingModulePackages
    BY <2>1 DEF SessionInv, ServedInv, Plain
  <2>3. half_unpacked < unpacked /\ removed < unpacked
    BY DEF half_unpacked, unpacked, removed
  <2> QED
    BY <2>1, <2>2, <2>3
<1>1. CASE SetsStill
  BY <1>1 DEF SetsStill
<1>2. CASE PreUnpackSelectPackage
  BY <1>0, <1>2, PreUnpackSelects
<1>3. CASE PreRemoveSelectPackage
  BY <1>0, <1>3 DEF PreRemoveSelectPackage, MarkedForRemoval
<1>4. CASE PostRemovePackage
  <2>1. PICK q \in packagesBeingRemoved : curstat' = curstat \/ curstat' = [curstat EXCEPT ![q].state = removed]
    BY <1>4 DEF PostRemovePackage
  <2>2. disk' = disk
    BY <1>4 DEF PostRemovePackage
  <2>3. curstat'[p] = curstat[p] \/ curstat'[p].state = removed
    <3>1. CASE p = q
      BY <1>0, <2>1, <3>1 DEF Status
    <3>2. CASE p # q
      BY <1>0, <2>1, <3>2
    <3> QED
      BY <3>1, <3>2
  <2> QED
    BY <1>0, <2>2, <2>3
<1>5. CASE PostUnpackPackage
  BY <1>0, <1>5, PostUnpacks
<1>6. CASE PostUnpackDone
  BY <1>0, <1>6 DEF PostUnpackDone, UpdateExistingModules, Throw, CommitStatus, Onward, FinalState
<1>7. CASE UnwindPreRemovePackage
  BY <1>0, <1>7 DEF UnwindPreRemovePackage, Restored, NoneToRemove, UnwindState
<1>8. CASE UnwindPreUnpackPackage
  BY <1>0, <1>8 DEF UnwindPreUnpackPackage
<1>9. CASE UnpackSelectPackage
  BY <1>9, UnpackSelects
<1>10. CASE PreUnpackCheckFile \/ PreRemoveDone \/ UnpackFile \/ ReplaceFile \/ RemoveFile \/ PostRemoveFile
            \/ UnwindReplaceFile \/ UnwindUnpackFile \/ UnwindUnpackPackage \/ UnwindPreUnpackDone
  BY <1>10 DEF PreUnpackCheckFile, PreRemoveDone, UnpackFile, ReplaceFile, RemoveFile, PostRemoveFile,
     UnwindReplaceFile, UnwindUnpackFile,
      UnwindUnpackPackage, UnwindPreUnpackDone, RestoreFileFails, Throw, ThrowPre, CommitStatus, statVars
<1> QED
  BY <1>1, <1>2, <1>3, <1>4, <1>5, <1>6, <1>7, <1>8, <1>9, <1>10, StillPolls DEF SetsPolls

\* ... and the manifests.
LEMMA PlainManifest ==
  ASSUME CommitInv, FilesOfState, Poll, NEW p \in Package, Plain(p)
  PROVE  \/ ManifestLeft(p) \subseteq ManifestLeft(p)'
         \/ PostRemovePackage /\ p \in packagesBeingRemoved /\ p \notin packagesBeingUnpacked /\ curstat'[p].state = removed
         \/ /\ PostUnpackPackage /\ p \in packagesBeingUnpacked
            /\ Contents[p][selstat[p].version] \subseteq ManifestLeft(p)' /\ selstat[p].version \in Version
<1>0. /\ TypeInv /\ SessionInv /\ curstat \in [Package -> Status]
      /\ mfDst \in [Package -> SUBSET (File \cup Dir)] /\ mfBak \in [Package -> SUBSET (File \cup Dir)]
  BY DEF CommitInv, TypeInv, TypeOK
<1>1. state \in Onward => p \notin existingModulePackages /\ p \notin Served
  BY <1>0 DEF SessionInv, ServedInv, Plain
<1>2. CASE UNCHANGED <<mfDst, mfBak>>
  BY <1>2 DEF ManifestLeft
<1>3. CASE PreUnpackSelectPackage
  <2>1. mfDst'[p] = mfDst[p] /\ mfBak'[p] = mfBak[p]
    BY <1>0, <1>3 DEF PreUnpackSelectPackage, ModuleOnSystem, UseModule, ReplaceModule, UnpackAsUsual, Plain
  <2> QED
    BY <2>1 DEF ManifestLeft
<1>4. CASE UnpackSelectPackage
  <2>1. PICK q \in packagesPreUnpacked :
          \/ UNCHANGED <<mfDst, mfBak>>
          \/ /\ mfDst[q] # {}
             /\ mfBak' = [mfBak EXCEPT ![q] = mfDst[q]]
             /\ mfDst' = [mfDst EXCEPT ![q] = {}]
          \/ /\ mfDst' = [mfDst EXCEPT ![q] = Merged(q, selstat[q].version)]
             /\ \E left \in {{}, ManifestLeft(q)} : mfBak' = [mfBak EXCEPT ![q] = left]
    BY <1>4 DEF UnpackSelectPackage, mfVars
  <2>2. CASE p = q
    BY <1>0, <2>1, <2>2 DEF ManifestLeft, Merged, ReadManifest
  <2>3. CASE p # q
    BY <1>0, <2>1, <2>3 DEF ManifestLeft
  <2> QED
    BY <2>2, <2>3
<1>5. CASE PostRemovePackage
  <2>1. PICK q \in packagesBeingRemoved :
          \/ UNCHANGED <<mfDst, mfBak>>
          \/ /\ q \notin packagesBeingUnpacked
             /\ \E x : mfDst' = [mfDst EXCEPT ![q] = x]
             /\ \E x : mfBak' = [mfBak EXCEPT ![q] = x]
             /\ curstat' = [curstat EXCEPT ![q].state = removed]
    BY <1>5, RemovalOutcome DEF PostRemovePackage, mfVars
  <2>2. CASE p = q
    BY <1>0, <1>2, <1>5, <2>1, <2>2 DEF Status
  <2>3. CASE p # q
    BY <1>0, <2>1, <2>3 DEF ManifestLeft
  <2> QED
    BY <2>2, <2>3
<1>6. CASE PostUnpackPackage
  <2>1. PICK q \in packagesBeingUnpacked :
          \/ UNCHANGED <<mfDst, mfBak>>
          \/ /\ mfDst[q] # {}
             /\ mfBak' = [mfBak EXCEPT ![q] = mfDst[q]]
             /\ mfDst' = [mfDst EXCEPT ![q] = {}]
          \/ /\ mfDst' = [mfDst EXCEPT ![q] = mfTmp[q]]
             /\ \E left : mfBak' = [mfBak EXCEPT ![q] = left]
    BY <1>6 DEF PostUnpackPackage
  <2>2. CASE p = q
    <3>1. p \in SelectedPackages
      BY <1>0, <2>2 DEF TypeInv, SelectedInv
    <3>2. selstat[p].state >= unpacked /\ selstat[p].version \in Version
      BY <1>0, <3>1 DEF SelectedPackages, TypeInv, SelectedInv
    <3>3. mfTmp[p] = Contents[p][selstat[p].version]
      BY <1>0, <1>1, <1>6, <2>2, <3>2 DEF SessionInv, OnwardInv, Onward, AsSelected, PostUnpackPackage,
         FinalState
    <3> QED
      BY <1>0, <1>6, <2>1, <2>2, <3>2, <3>3 DEF ManifestLeft
  <2>3. CASE p # q
    BY <1>0, <2>1, <2>3 DEF ManifestLeft
  <2> QED
    BY <2>2, <2>3
<1>7. CASE PostUnpackDone
  <2>1. mfDst'[p] = mfDst[p] /\ mfBak'[p] = mfBak[p]
    <3>1. p \notin existingModulePackages
      BY <1>1, <1>7 DEF PostUnpackDone, Onward, FinalState
    <3> QED
      BY <1>0, <1>7, <3>1 DEF PostUnpackDone, UpdateExistingModules
  <2> QED
    BY <2>1 DEF ManifestLeft
<1>8. CASE SetsStill \/ PreUnpackCheckFile \/ PreRemoveSelectPackage \/ PreRemoveDone \/ UnpackFile \/ ReplaceFile \/ RemoveFile \/ PostRemoveFile
            \/ UnwindReplaceFile \/ UnwindUnpackFile \/ UnwindUnpackPackage \/ UnwindPreRemovePackage \/ UnwindPreUnpackPackage \/ UnwindPreUnpackDone
  BY <1>2, <1>8 DEF SetsStill, PreUnpackCheckFile, PreRemoveSelectPackage, PreRemoveDone, UnpackFile,
     ReplaceFile, RemoveFile, PostRemoveFile,
     UnwindReplaceFile, UnwindUnpackFile, UnwindUnpackPackage, UnwindPreRemovePackage,
     UnwindPreUnpackPackage, UnwindPreUnpackDone, mfVars
<1> QED
  BY <1>3, <1>4, <1>5, <1>6, <1>7, <1>8, StillPolls DEF SetsPolls

LEMMA OwnUnpacked ==
  ASSUME CommitInv, PostUnpackPackage, NEW p \in Package, Plain(p)
  PROVE  \/ curstat'[p] = curstat[p] \/ curstat'[p] = disk[p]
         \/ Contents[p][selstat[p].version] \subseteq ManifestLeft(p)' /\ selstat[p].version \in Version
<1>0. /\ TypeInv /\ SessionInv /\ curstat \in [Package -> Status]
      /\ mfDst \in [Package -> SUBSET (File \cup Dir)] /\ mfBak \in [Package -> SUBSET (File \cup Dir)]
  BY DEF CommitInv, TypeInv, TypeOK
<1>1. CASE curstat' = disk
  BY <1>1
<1>2. ASSUME NEW q \in packagesBeingUnpacked, curstat' = [curstat EXCEPT ![q].state = unpacked],
             mfDst' = [mfDst EXCEPT ![q] = mfTmp[q]]
      PROVE  \/ curstat'[p] = curstat[p]
             \/ Contents[p][selstat[p].version] \subseteq ManifestLeft(p)' /\ selstat[p].version \in Version
  <2>1. CASE p # q
    BY <1>0, <1>2, <2>1
  <2>2. CASE p = q
    <3>1. p \in SelectedPackages /\ p \notin Served
      BY <1>0, <1>2, <2>2 DEF TypeInv, SelectedInv, SessionInv, ServedInv, Onward, FinalState,
         PostUnpackPackage, Plain
    <3>2. selstat[p].state >= unpacked /\ selstat[p].version \in Version
      BY <1>0, <3>1 DEF SelectedPackages, TypeInv, SelectedInv
    <3>3. mfTmp[p] = Contents[p][selstat[p].version]
      BY <1>0, <1>2, <2>2, <3>1, <3>2 DEF SessionInv, OnwardInv, Onward, AsSelected, PostUnpackPackage,
         FinalState
    <3> QED
      BY <1>0, <1>2, <2>2, <3>2, <3>3 DEF ManifestLeft
  <2> QED
    BY <2>1, <2>2
<1> QED
  BY <1>1, <1>2, PostUnpacks

LEMMA ListedPoll ==
  ASSUME CommitInv, NoneToRemove, HalfInv, SideInv, ListedInv, Poll
  PROVE  ListedInv'
<1> SUFFICES ASSUME SameScripts, NEW p \in Package, Plain(p)
             PROVE  Counts(p)' => Lists(p)'
  BY DEF ListedInv
<1>0. /\ UnpackedInv /\ FilesOfState /\ TypeInv /\ SessionInv /\ (Counts(p) => Lists(p))
      /\ half_unpacked < unpacked /\ removed < unpacked
  <2>1. half_unpacked < unpacked /\ removed < unpacked
    BY DEF half_unpacked, unpacked, removed
  <2> QED
    BY <2>1 DEF SideInv, CommitInv, ListedInv
<1>9. /\ curstat'[p].state < unpacked => ~(curstat'[p].state >= unpacked)
      /\ ~(removed >= unpacked) /\ ~(half_unpacked >= unpacked)
  <2>1. TypeInv'
    BY <1>0, TypeNext DEF Next
  <2>2. curstat' \in [Package -> Status]
    BY <2>1 DEF TypeInv, TypeOK
  <2>3. curstat'[p].state \in PkgState
    BY <2>2 DEF Status
  <2> QED
    BY <2>3 DEF PkgState, removed, half_unpacked, unpacked
<1>1. /\ state \in PreState \cup MidState /\ prevstat' = prevstat /\ selstat' = selstat /\ (committed => committed')
  <2>1. state \in PreState \cup MidState
    BY <1>0, PollStates DEF TypeInv, TypeOK, State
  <2>2. committed => committed'
    BY StillPolls, PollsUncommitted DEF SetsStill
  <2> QED
    BY <2>1, <2>2, PollConstants
<1>3. CASE PostUnpackPackage /\ p \in packagesBeingUnpacked /\ ~(ManifestLeft(p) \subseteq ManifestLeft(p)')
  <2>1. Contents[p][selstat[p].version] \subseteq ManifestLeft(p)' /\ selstat[p].version \in Version
    <3>1. ~PostRemovePackage
      BY <1>3 DEF PostRemovePackage, PostUnpackPackage
    <3> QED
      BY <1>0, <1>3, <3>1, PlainManifest
  <2> QED
    BY <2>1 DEF Lists, SameScripts
<1>4. CASE PostRemovePackage /\ p \in packagesBeingRemoved /\ curstat'[p].state = removed
  <2>1. committed' /\ disk'[p].state = half_unpacked
    <3>1. state = "post_remove" /\ state' = "post_remove" /\ UNCHANGED <<committed, disk>>
      BY <1>4 DEF PostRemovePackage, sessionVars
    <3>2. committed
      BY <1>0, <3>1 DEF SessionInv, FinalCommitted, FinalState
    <3> QED
      BY <1>4, <3>1, <3>2 DEF HalfInv, HalfUnpackedOnDisk, MidState, FinalState
  <2>2. ~Counts(p)'
    <3>1. disk'[p].state = half_unpacked /\ curstat'[p].state = removed
      BY <1>4, <2>1
    <3> QED
      BY <1>9, <2>1, <3>1 DEF Counts
  <2> QED
    BY <2>2
<1>5. CASE ManifestLeft(p) \subseteq ManifestLeft(p)'
  <2>1. CASE PostUnpackPackage /\ Contents[p][selstat[p].version] \subseteq ManifestLeft(p)' /\ selstat[p].version \in Version
    BY <2>1 DEF Lists, SameScripts
  <2>2. CASE ~(PostUnpackPackage /\ Contents[p][selstat[p].version] \subseteq ManifestLeft(p)' /\ selstat[p].version \in Version)
    <3>1. Counts(p)' => Counts(p)
      <4>1. /\ \/ curstat'[p] = curstat[p] \/ curstat'[p] = disk[p] \/ curstat'[p].state < unpacked
               \/ curstat'[p] = prevstat[p] /\ ~committed
            /\ disk'[p] = disk[p] \/ disk'[p] = curstat'[p]
        BY <1>0, <2>2, PlainStatus, OwnUnpacked
      <4> QED
        BY <1>9, <1>1, <4>1 DEF Counts
    <3> QED
      BY <1>0, <1>5, <3>1 DEF Lists
  <2> QED
    BY <2>1, <2>2
<1> QED
  BY <1>0, <1>3, <1>4, <1>5, PlainManifest

LEMMA ListedFramed ==
  ASSUME ListedInv, UNCHANGED mfVars, NEW p \in Package, Counts(p)' => Counts(p), Plain(p), SameScripts
  PROVE  Counts(p)' => Lists(p)'
  BY DEF ListedInv, mfVars, Lists, ManifestLeft

LEMMA ListedInit == CommitInit => ListedInv
<1> SUFFICES ASSUME CommitInit, SameScripts, NEW p \in Package
             PROVE  Counts(p) => Lists(p)
  BY DEF ListedInv
<1>1. /\ mfDst[p] = InstalledFiles(curstat, p) /\ mfBak[p] = {} /\ disk = curstat /\ state = "idle" /\ curstat \in Initial
  BY DEF CommitInit, Init, InstalledFiles
<1>2. ManifestLeft(p) = InstalledFiles(curstat, p)
  BY <1>1 DEF ManifestLeft
<1>3. Counts(p) => curstat[p].state = installed /\ curstat[p].version \in Version
  BY <1>1, UnpackAssumption DEF Counts, PreState, MidState, ForwardState, FinalState, UnwindState,
     not_present, removed, unpacked, installed
<1> QED
  BY <1>1, <1>2, <1>3 DEF Lists, SameScripts, InstalledFiles

LEMMA ListedNext == OperationInv /\ ListedInv /\ [CommitNext]_allVars => ListedInv'
<1> SUFFICES ASSUME OperationInv, ListedInv, [CommitNext]_allVars, SameScripts, NEW p \in Package, Plain(p)
             PROVE  Counts(p)' => Lists(p)'
  BY DEF ListedInv
<1>0. CommitInv /\ NoneToRemove /\ HalfInv /\ SideInv
  BY DEF OperationInv
<1>1. CASE CommitBegin \/ StatusStep \/ StillStep
  <2>1. Framed
    BY <1>0, <1>1, FramedSteps
  <2>2. \/ UNCHANGED <<curstat, disk>>
        \/ /\ state = "idle"
           /\ curstat'[p].state >= unpacked => curstat[p].state >= unpacked
           /\ disk' = disk \/ disk' = curstat'
    BY <1>0, <1>1, StatusKeeps, StatusSteps, StillSteps DEF CommitBegin, Still, statVars
  <2>3. state = "idle" => state' \notin PreState \cup MidState
    BY <2>1 DEF Framed, PreState, MidState, ForwardState, FinalState, UnwindState
  <2>4. Counts(p)' => Counts(p)
    BY <2>1, <2>2, <2>3 DEF Framed, Counts
  <2> QED
    BY <2>1, <2>4, ListedFramed DEF Framed
<1>2. CASE UnpackBegin
  <2>1. prevstat = curstat /\ UNCHANGED <<curstat, disk, prevstat, mfVars>>
    BY <1>0, <1>2 DEF UnpackBegin, NewUnpack, CommitInv, Beginning, Before, statVars
  <2> QED
    BY <2>1, ListedFramed DEF Counts
<1>3. CASE UnpackPoll
  <2>1. CASE Poll
    BY <1>0, <2>1, ListedPoll DEF ListedInv
  <2>2. CASE NotFound \/ Still
    <3>1. UNCHANGED <<curstat, disk, mfVars, prevstat, committed>> /\ (state' \in PreState \cup MidState => state \in PreState \cup MidState)
      BY <2>2, NotFoundMoves DEF NotFound, Still, statVars, sessionVars, MidState
    <3> QED
      BY <3>1, ListedFramed DEF Counts
  <2> QED
    BY <1>3, <2>1, <2>2, UnpackPolls
<1>4. CASE UnpackEnded \/ UnpackFailed \/ CommitCrash
  <2>1. NoSession /\ curstat' \in {curstat, disk}
    BY <1>4 DEF UnpackEnded, UnpackFailed, CommitCrash, Finish
  <2>2. state' = "idle" /\ disk' = disk /\ UNCHANGED mfVars
    BY <2>1 DEF NoSession
  <2>3. state' \notin PreState \cup MidState
    BY <2>2 DEF PreState, MidState, ForwardState, FinalState, UnwindState
  <2>4. Counts(p)' => Counts(p)
    BY <2>1, <2>2, <2>3 DEF Counts
  <2> QED
    BY <2>2, <2>4, ListedFramed
<1> QED
  BY <1>1, <1>2, <1>3, <1>4 DEF CommitNext, CommitPoll, StillStep, StatusStep

\* When packages are selected to be removed, the manifest of one that was installed lists
\* the triggers of the version it was installed in.
TriggersGuard == SameScripts \/ sessions <= 1

LEMMA ManifestLists ==
  ASSUME OperationInv, ListedInv, TriggersGuard, state = "pre_remove",
         NEW p \in Package, Plain(p), prevstat[p].state = installed
  PROVE  Scripts(p) \cap ReadManifest(p) = Scripts(p) \cap Contents[p][prevstat[p].version]
<1>0. /\ disk = prevstat /\ ~committed /\ prevstat[p].version \in Version /\ sessions \in Nat
      /\ ReadManifest(p) \subseteq AllContents(p)
      /\ sessions # 0
  <2>1. disk = prevstat
    BY DEF OperationInv, CommitInv, SessionInv, Saved, PreState
  <2>2. ~committed /\ prevstat[p].version \in Version
    BY DEF OperationInv, SideInv, FilesOfState, KeptInv, PreState, installed, unpacked
  <2>3. ReadManifest(p) \subseteq AllContents(p)
    BY DEF OperationInv, SideInv, ManifestsOwn, ReadManifest
  <2>4. sessions \in Nat /\ sessions # 0
    BY DEF OperationInv, CommitInv, StartInv, VerifiedInv, OneUnpack, TypeInv, TypeOK
  <2> QED
    BY <2>1, <2>2, <2>3, <2>4
<1>1. CASE sessions <= 1
  <2>1. First
    BY <1>0, <1>1 DEF First, PreState
  <2>2. ReadManifest(p) = InstalledFiles(disk, p)
    BY <2>1 DEF OperationInv, StartInv, Plain
  <2> QED
    BY <1>0, <2>2 DEF InstalledFiles
<1>2. CASE SameScripts
  <2>1. Counts(p)
    BY <1>0 DEF Counts, installed, unpacked
  <2>2. Lists(p)
    BY <1>2, <2>1 DEF ListedInv
  <2>3. Scripts(p) \cap AllContents(p) \subseteq Contents[p][prevstat[p].version]
    BY <1>0, <1>2 DEF SameScripts, AllContents
  <2> QED
    BY <1>0, <2>2, <2>3 DEF Lists, ManifestLeft, ReadManifest
<1> QED
  BY <1>1, <1>2 DEF TriggersGuard

-------------------------------------------------------------------------------
(* What is queued, and what has been run.                                  *)

\* What is asked for a package, and whether it has been seen to.
Upgrade(p) == UnpackReq(prevstat[p], selstat[p])
Leave(p)   == RemoveReq(prevstat[p], selstat[p])
Come(p)    == p \notin packagesToUnpack /\ Upgrade(p)
Gone(p)    == p \notin packagesToRemove /\ Leave(p)

\* The files that it had, and those of the archive.
OldFiles(p) == IF prevstat[p].state = installed THEN Contents[p][prevstat[p].version] ELSE {}
Archive(p)  == IF Upgrade(p) THEN Contents[p][selstat[p].version] ELSE {}

\* What has been queued for a package, run or not, is what its files ask for.
Queued(p) ==
  /\ p \in preRemove \/ HasRun("pre_remove", p) <=> Gone(p) /\ PreRemoveScript[p] \in OldFiles(p)
  /\ p \in hasRemoveUnwind <=> Gone(p) /\ PostInstallScript[p] \in OldFiles(p)
  /\ p \in postRemove \/ HasRun("post_remove", p) <=> Gone(p) /\ PostRemoveScript[p] \in OldFiles(p)
  /\ p \in preInstall \/ HasRun("pre_install", p) <=> Come(p) /\ PreInstallScript[p] \in Archive(p)
  /\ p \in hasInstallUnwind <=> Come(p) /\ PreInstallScript[p] \in Archive(p) /\ PostRemoveScript[p] \in Archive(p)
  /\ p \in postInstall \/ HasRun("post_install", p) <=> Come(p) /\ PostInstallScript[p] \in Archive(p)
  /\ p \in preInstallUnwind \/ HasRun("abort_pre_install", p) <=>
       HasRun("pre_install", p) /\ PostRemoveScript[p] \in Archive(p)
  /\ p \in preRemoveUnwind \/ HasRun("abort_pre_remove", p) <=>
       (HasRun("pre_install", p) \/ HasRun("pre_remove", p)) /\ PostInstallScript[p] \in OldFiles(p)

Underway == (commitState = "unpack" /\ state # "idle") \/ commitState \in {"configure", "purge"} \cup Late

QueuedInv == TriggersGuard /\ Underway => \A p \in Package : Plain(p) /\ Settled(p) => Queued(p)

\* A package that is to be removed is one to be removed.
InHand ==
  /\ state = "idle" => packagesToRemove = {}
  /\ state \in PreState => \A p \in packagesToRemove : Plain(p) => Leave(p)

\* Nothing is queued or run for a package with just a module.
NoneQueued(p) ==
  /\ p \notin preInstall \cup postInstall \cup preRemove \cup postRemove
  /\ p \notin hasInstallUnwind \cup hasRemoveUnwind \cup preInstallUnwind \cup preRemoveUnwind
  /\ \A a : ~HasRun(a, p)
ModulesInv == ModulesHaveNoTriggers => \A p \in Package : ~Plain(p) => NoneQueued(p)

LEMMA RunAdds ==
  ASSUME IsSeq, NEW action, NEW p, NEW v, RunTrigger(action, p, v)
  PROVE  \A b, q : HasRun(b, q)' <=> HasRun(b, q) \/ (b = action /\ q = p)
<1> DEFINE r == [action |-> action, pkg |-> p, version |-> v]
<1>1. PICK S : ran \in Seq(S)
  BY DEF IsSeq
<1>2. ran' = Append(ran, r)
  BY DEF RunTrigger
<1>3. /\ Len(ran) \in Nat /\ DOMAIN ran = 1..Len(ran) /\ DOMAIN ran' = 1..(Len(ran) + 1)
      /\ \A i \in DOMAIN ran : ran'[i] = ran[i]
      /\ ran'[Len(ran) + 1] = r
  BY <1>1, <1>2
<1>4. /\ \A i \in DOMAIN ran' : i \in DOMAIN ran \/ i = Len(ran) + 1
      /\ Len(ran) + 1 \in DOMAIN ran' /\ \A i \in DOMAIN ran : i \in DOMAIN ran'
  BY <1>3
<1>5. r.action = action /\ r.pkg = p
  OBVIOUS
<1> HIDE DEF r
<1> QED
  BY <1>3, <1>4, <1>5 DEF HasRun

\* A step that leaves the queues alone.
LEMMA RanStill == UNCHANGED ran => \A a, p : HasRun(a, p)' <=> HasRun(a, p)
  BY DEF HasRun

LEMMA QueuedStill ==
  ASSUME NEW p, Queued(p), QueuesStill, UNCHANGED <<prevstat, selstat>>,
         Gone(p)' <=> Gone(p), Come(p)' <=> Come(p)
  PROVE  Queued(p)'
<1>1. UNCHANGED <<preInstall, postInstall, preRemove, postRemove, hasInstallUnwind, hasRemoveUnwind, preInstallUnwind, preRemoveUnwind>>
  BY DEF QueuesStill, queueVars, unwindVars
<1>2. \A a : HasRun(a, p)' <=> HasRun(a, p)
  BY RanStill DEF QueuesStill
<1>3. OldFiles(p)' = OldFiles(p) /\ Archive(p)' = Archive(p)
  BY DEF OldFiles, Archive, Upgrade
<1> QED
  BY <1>1, <1>2, <1>3 DEF Queued

\* The next trigger is run.
RunOf(q, v) ==
  \/ NextPreRemove(q, v) \/ NextPostRemove(q, v) \/ NextPostInstall(q, v)
  \/ NextPreInstallUnwind(q, v) \/ NextPreRemoveUnwind(q, v)
  \/ state = "run_pre_install_triggers" /\ NextPreInstall(q, v)

LEMMA QueuedRun ==
  ASSUME NEW p, Queued(p), IsSeq, UNCHANGED <<prevstat, selstat, packagesToRemove, packagesToUnpack>>,
         NEW q, NEW v, RunOf(q, v),
         state = "run_pre_install_triggers" /\ Upgrade(p) /\ OldFiles(p) # {} => Gone(p)
  PROVE  Queued(p)'
<1>1. /\ OldFiles(p)' = OldFiles(p) /\ Archive(p)' = Archive(p) /\ (Gone(p)' <=> Gone(p)) /\ (Come(p)' <=> Come(p))
      /\ Come(p) => Upgrade(p)
  BY DEF OldFiles, Archive, Upgrade, Gone, Come, Leave
<1> USE DEF Queued, With, queueVars, unwindVars
<1>2. CASE NextPreRemove(q, v)
  <2>1. \A b, x : HasRun(b, x)' <=> HasRun(b, x) \/ (b = "pre_remove" /\ x = q)
    BY <1>2, RunAdds DEF NextPreRemove
  <2> QED
    BY <1>1, <1>2, <2>1 DEF NextPreRemove
<1>3. CASE state = "run_pre_install_triggers" /\ NextPreInstall(q, v)
  <2>1. \A b, x : HasRun(b, x)' <=> HasRun(b, x) \/ (b = "pre_install" /\ x = q)
    BY <1>3, RunAdds DEF NextPreInstall
  <2>2. q = p => Come(p) /\ PreInstallScript[p] \in Archive(p)
    BY <1>3 DEF NextPreInstall
  <2>3. q = p /\ PostInstallScript[p] \in OldFiles(p) => p \in hasRemoveUnwind
    BY <1>1, <1>3, <2>2
  <2> QED
    BY <1>1, <1>3, <2>1, <2>2, <2>3 DEF NextPreInstall
<1>4. CASE NextPostRemove(q, v)
  <2>1. \A b, x : HasRun(b, x)' <=> HasRun(b, x) \/ (b = "post_remove" /\ x = q)
    BY <1>4, RunAdds DEF NextPostRemove
  <2> QED
    BY <1>1, <1>4, <2>1 DEF NextPostRemove
<1>5. CASE NextPostInstall(q, v)
  <2>1. \A b, x : HasRun(b, x)' <=> HasRun(b, x) \/ (b = "post_install" /\ x = q)
    BY <1>5, RunAdds DEF NextPostInstall
  <2> QED
    BY <1>1, <1>5, <2>1 DEF NextPostInstall
<1>6. CASE NextPreInstallUnwind(q, v)
  <2>1. \A b, x : HasRun(b, x)' <=> HasRun(b, x) \/ (b = "abort_pre_install" /\ x = q)
    BY <1>6, RunAdds DEF NextPreInstallUnwind
  <2> QED
    BY <1>1, <1>6, <2>1 DEF NextPreInstallUnwind
<1>7. CASE NextPreRemoveUnwind(q, v)
  <2>1. \A b, x : HasRun(b, x)' <=> HasRun(b, x) \/ (b = "abort_pre_remove" /\ x = q)
    BY <1>7, RunAdds DEF NextPreRemoveUnwind
  <2> QED
    BY <1>1, <1>7, <2>1 DEF NextPreRemoveUnwind
<1> QED
  BY <1>2, <1>3, <1>4, <1>5, <1>6, <1>7 DEF RunOf

LEMMA InHandInit == CommitInit => InHand
  BY DEF CommitInit, Init, InHand, PreState

\* The sets of packages to remove, when one is selected to be unpacked.
LEMMA PlainSelected ==
  ASSUME TypeInv, SelectToUnpack, NEW p \in Package, Plain(p)
  PROVE  /\ p \in packagesToRemove' <=> p \in packagesToRemove
         /\ UNCHANGED <<selstat, prevstat, sessions>>
<1>1. UNCHANGED <<selstat, prevstat, sessions>>
  BY SelectMoves
<1>2. PreUnpackSelectPackage
  BY DEF SelectToUnpack
<1>3. PICK q \in packagesToUnpack :
        \/ UNCHANGED packagesToRemove
        \/ IF ModuleOnSystem(q, selstat[q].version)
           THEN IF ModuleIsOlder(q, selstat[q].version)
                THEN ReplaceModule(q, selstat[q].version) ELSE UseModule(q, selstat[q].version)
           ELSE UnpackAsUsual(q, selstat[q].version)
  BY <1>2 DEF PreUnpackSelectPackage
<1> QED
  BY <1>1, <1>3 DEF ModuleOnSystem, UseModule, ReplaceModule, UnpackAsUsual, Plain

LEMMA InHandNext == CommitInv /\ InHand /\ [CommitNext]_allVars => InHand'
<1> SUFFICES ASSUME CommitInv, InHand, [CommitNext]_allVars PROVE InHand'
  OBVIOUS
<1>0. OneUnpack /\ TypeInv
  BY DEF CommitInv, VerifiedInv
<1>1. CASE CommitBegin \/ StatusStep \/ StillStep
  <2>1. UNCHANGED <<state, packagesToRemove>>
    BY <1>1, FramedSteps DEF Framed, packageVars
  <2>2. state # "idle" => UNCHANGED <<prevstat, selstat>>
    BY <1>1, FramedSteps DEF Framed
  <2>3. "idle" \notin PreState
    BY DEF PreState
  <2> QED
    BY <2>1, <2>2, <2>3 DEF InHand, Leave
<1>2. CASE UnpackBegin
  <2>1. prevstat = curstat /\ UNCHANGED <<selstat, prevstat>> /\ state' = "pre_unpack"
    BY <1>0, <1>2 DEF UnpackBegin, NewUnpack, CommitInv, Beginning, Before
  <2> QED
    BY <1>2, <2>1 DEF UnpackBegin, NewUnpack, InHand, Leave
<1>3. CASE UnpackPoll
  <2>1. state' # "idle"
    BY <1>3, UnpackPollNarrows DEF Narrows
  <2>2. CASE FilePoll \/ (~FilePoll /\ ~SelectToUnpack /\ ~SelectToRemove)
    <3>1. UNCHANGED <<packagesToRemove, selstat, prevstat>> /\ (state' \in PreState => state \in PreState)
      BY <1>3, <2>2, FileMoves, TriggerMoves DEF StaysApart
    <3> QED
      BY <2>1, <3>1 DEF InHand, Leave
  <2>3. CASE SelectToUnpack
    <3>1. state \in PreState /\ UNCHANGED <<selstat, prevstat>>
      BY <2>3, SelectMoves
    <3>2. packagesToRemove' \subseteq Package
      BY <1>0, <1>3, SessionPoll DEF CommitInv, TypeInv, TypeOK
    <3> QED
      BY <1>0, <2>1, <2>3, <3>1, <3>2, PlainSelected DEF InHand, Leave
  <2>4. CASE SelectToRemove
    <3>1. state \in PreState /\ UNCHANGED <<selstat, prevstat>> /\ packagesToRemove' \subseteq packagesToRemove
      BY <2>4, SelectMoves DEF SelectToRemove, PreRemoveSelectPackage
    <3> QED
      BY <2>1, <3>1 DEF InHand, Leave
  <2> QED
    BY <2>2, <2>3, <2>4
<1>4. CASE UnpackEnded \/ UnpackFailed \/ CommitCrash
  <2>1. state' = "idle" /\ packagesToRemove' = {} /\ "idle" \notin PreState
    BY <1>4 DEF UnpackEnded, UnpackFailed, CommitCrash, Finish, NoSession, PreState
  <2> QED
    BY <2>1 DEF InHand
<1> QED
  BY <1>1, <1>2, <1>3, <1>4 DEF CommitNext, CommitPoll, StillStep, StatusStep

-------------------------------------------------------------------------------
(* Packages with just a module.                                            *)

\* What a step does to the queues.
LEMMA QueueSteps ==
  [CommitNext]_allVars =>
    \/ QueuesStill
    \/ DropTriggers /\ commitState' \in {"none", "fail"}
    \/ CommitBegin
    \/ UNCHANGED <<vars, commitVars>> /\ \E q, v : RunOf(q, v)
    \/ UnpackPoll /\ (SelectToUnpack \/ SelectToRemove)
<1> SUFFICES ASSUME [CommitNext]_allVars
             PROVE  \/ QueuesStill \/ (DropTriggers /\ commitState' \in {"none", "fail"}) \/ CommitBegin
                    \/ UNCHANGED <<vars, commitVars>> /\ \E q, v : RunOf(q, v)
                    \/ UnpackPoll /\ (SelectToUnpack \/ SelectToRemove)
  OBVIOUS
<1>1. CASE UnpackPoll
  <2>1. NextTrigger => \E q, v : RunOf(q, v)
    BY DEF NextTrigger, RunOf
  <2> QED
    BY <1>1, <2>1, TriggerQueues DEF UnpackPoll
<1>2. CASE StillStep /\ ~CommitFinish
  <2>1. CASE QueuesStill
    BY <2>1
  <2>2. CASE ~QueuesStill
    <3>1. \E q, v : RunOf(q, v)
      BY <1>2, <2>2, CommitQueues DEF RunOf
    <3> QED
      BY <1>2, <2>2, <3>1, CommitQueues
  <2> QED
    BY <2>1, <2>2
<1>3. CASE StatusStep \/ UnpackBegin
  BY <1>3 DEF StatusStep, ConfigurePackage, ConfigureDone, PurgePackage, PurgeDone, SaveStatus, UnpackBegin,
     triggerVars, QueuesStill
<1>4. CASE UnpackEnded
  BY <1>4 DEF UnpackEnded, triggerVars, QueuesStill
<1>5. CASE UnpackFailed \/ CommitFinish \/ CommitCrash
  BY <1>5 DEF UnpackFailed, CommitFinish, CommitCrash
<1> QED
  BY <1>1, <1>2, <1>3, <1>4, <1>5 DEF CommitNext, CommitPoll, StillStep, StatusStep

LEMMA ModulesInit == CommitInit => ModulesInv
<1> SUFFICES ASSUME CommitInit, NEW p \in Package PROVE NoneQueued(p)
  BY DEF ModulesInv
<1>1. DOMAIN ran = {}
  BY DEF CommitInit, TriggersInit
<1> QED
  BY <1>1 DEF CommitInit, TriggersInit, NoneQueued, HasRun

LEMMA ModulesNext == OperationInv /\ IsSeq /\ ModulesInv /\ [CommitNext]_allVars => ModulesInv'
<1> SUFFICES ASSUME OperationInv, IsSeq, ModulesInv, [CommitNext]_allVars, ModulesHaveNoTriggers,
                    NEW p \in Package, ~Plain(p)
             PROVE  NoneQueued(p)'
  BY DEF ModulesInv, Plain
<1>0. NoneQueued(p) /\ CommitInv /\ ManifestsOwn /\ TypeInv
  BY DEF ModulesInv, OperationInv, SideInv, CommitInv
<1>1. CASE QueuesStill
  BY <1>0, <1>1, RanStill DEF QueuesStill, queueVars, unwindVars, NoneQueued
<1>2. CASE DropTriggers
  BY <1>0, <1>2, RanStill DEF DropTriggers, NoneQueued
<1>3. CASE CommitBegin
  <2>1. UNCHANGED <<queueVars, unwindVars>> /\ DOMAIN ran' = {}
    BY <1>3 DEF CommitBegin
  <2>2. \A a : ~HasRun(a, p)'
    BY <2>1 DEF HasRun
  <2> QED
    BY <1>0, <2>1, <2>2 DEF queueVars, unwindVars, NoneQueued
<1>4. CASE \E q, v : RunOf(q, v)
  <2>1. PICK q, v : RunOf(q, v)
    BY <1>4
  <2>2. q # p
    BY <1>0, <2>1 DEF RunOf, NextPreRemove, NextPreInstall, NextPostRemove, NextPostInstall,
       NextPreInstallUnwind, NextPreRemoveUnwind, NoneQueued
  <2>3. \E a : RunTrigger(a, q, v)
    BY <2>1 DEF RunOf, NextPreRemove, NextPreInstall, NextPostRemove, NextPostInstall, NextPreInstallUnwind,
       NextPreRemoveUnwind
  <2>4. \A a : HasRun(a, p)' <=> HasRun(a, p)
    BY <2>2, <2>3, RunAdds
  <2> QED
    BY <1>0, <2>1, <2>2, <2>4 DEF RunOf, NextPreRemove, NextPreInstall, NextPostRemove, NextPostInstall,
       NextPreInstallUnwind, NextPreRemoveUnwind,
       NoneQueued, With, queueVars, unwindVars
<1>5. CASE UnpackPoll /\ SelectToUnpack
  <2>1. CASE UNCHANGED triggerVars
    BY <1>1, <2>1 DEF triggerVars, QueuesStill
  <2>2. ASSUME NEW q \in packagesPreUnpacked', AddInstallTriggers(q, Contents[q][selstat[q].version])
        PROVE  NoneQueued(p)'
    <3>1. q = p => selstat[p].version \in Version
      <4>1. TypeInv'
        BY <1>0, <1>5, SessionPoll DEF CommitInv
      <4>2. UNCHANGED selstat
        BY <1>5, SelectMoves
      <4> QED
        BY <2>2, <4>1, <4>2 DEF TypeInv, SelectedInv, SelectedPackages
    <3>2. q = p => Scripts(p) \cap Contents[p][selstat[p].version] = {}
      BY <3>1 DEF ModulesHaveNoTriggers, Plain
    <3> QED
      BY <1>0, <2>2, <3>2, RanStill DEF AddInstallTriggers, Scripts, With, NoneQueued, unwindVars
  <2> QED
    BY <1>5, <2>1, <2>2 DEF SelectToUnpack
<1>6. CASE UnpackPoll /\ SelectToRemove
  <2>1. PICK q : AddRemoveTriggers(q, ReadManifest(q))
    BY <1>6 DEF SelectToRemove
  <2>2. Scripts(p) \cap ReadManifest(p) = {}
    BY <1>0 DEF ManifestsOwn, AllContents, ReadManifest, ModulesHaveNoTriggers, Plain
  <2> QED
    BY <1>0, <2>1, <2>2, RanStill DEF AddRemoveTriggers, Scripts, With, NoneQueued, unwindVars
<1> QED
  BY <1>1, <1>2, <1>3, <1>4, <1>5, <1>6, QueueSteps

LEMMA QueuedInit == CommitInit => QueuedInv
  BY DEF CommitInit, Init, QueuedInv, Underway, Late

\* The session begins.
LEMMA QueuedNew ==
  ASSUME CommitInv, EmptyInv, UnpackBegin, NEW p \in Package
  PROVE  Queued(p)'
<1>1. prevstat = curstat /\ UNCHANGED <<selstat, prevstat, triggerVars>> /\ NoQueues /\ ran = <<>>
  BY DEF UnpackBegin, CommitInv, Beginning, EmptyInv, Before
<1>2. ~Gone(p)' /\ ~Come(p)'
  BY <1>1 DEF UnpackBegin, NewUnpack, Gone, Come, Leave, Upgrade
<1>3. \A a : ~HasRun(a, p)'
  <2>1. DOMAIN ran' = {}
    BY <1>1 DEF triggerVars
  <2> QED
    BY <2>1 DEF HasRun
<1>4. p \notin preInstall' \cup postInstall' \cup preRemove' \cup postRemove'
      /\ p \notin hasInstallUnwind' \cup hasRemoveUnwind' \cup preInstallUnwind' \cup preRemoveUnwind'
  BY <1>1 DEF triggerVars, queueVars, unwindVars, NoQueues
<1> QED
  BY <1>2, <1>3, <1>4 DEF Queued

\* A package is selected to be unpacked.
LEMMA QueuedToUnpack ==
  ASSUME CommitInv, UnpackedInv, UnpackPoll, SelectToUnpack, NEW p \in Package, Plain(p), Queued(p)
  PROVE  Queued(p)'
<1>0. TypeInv /\ SetsEmptied /\ PreUnpackSelectPackage
  BY DEF CommitInv, SessionInv, SelectToUnpack
<1>1. UNCHANGED <<selstat, prevstat>> /\ (Gone(p)' <=> Gone(p)) /\ OldFiles(p)' = OldFiles(p)
      /\ Archive(p)' = Archive(p) /\ (Upgrade(p)' <=> Upgrade(p))
  BY <1>0, PlainSelected DEF Gone, Leave, OldFiles, Archive, Upgrade
<1>2. CASE UNCHANGED <<packagesPreUnpacked, packagesToUnpack>>
  <2>1. QueuesStill
    BY <1>2 DEF SelectToUnpack, triggerVars, QueuesStill
  <2>2. Come(p)' <=> Come(p)
    BY <1>1, <1>2 DEF Come
  <2> QED
    BY <1>1, <2>1, <2>2, QueuedStill
<1>3. ASSUME NEW q \in packagesToUnpack, packagesToUnpack' = packagesToUnpack \ {q},
             \/ packagesPreUnpacked' = packagesPreUnpacked \cup {q}
             \/ ModuleFile[q] # NoFile /\ UNCHANGED packagesPreUnpacked
      PROVE  Queued(p)'
  <2>1. q \notin packagesPreUnpacked
    BY <1>0, <1>3 DEF SetsEmptied
  <2>2. CASE UNCHANGED triggerVars /\ p # q
    <3>1. Come(p)' <=> Come(p)
      BY <1>1, <1>3, <2>2 DEF Come
    <3> QED
      BY <1>1, <2>2, <3>1, QueuedStill DEF triggerVars, QueuesStill
  <2>3. CASE AddInstallTriggers(q, Contents[q][selstat[q].version])
    <3>1. \A a : HasRun(a, p)' <=> HasRun(a, p)
      BY <2>3, RanStill DEF AddInstallTriggers
    <3>2. CASE p # q
      <4>1. Come(p)' <=> Come(p)
        BY <1>1, <1>3, <3>2 DEF Come
      <4> QED
        BY <1>1, <2>3, <3>1, <3>2, <4>1 DEF AddInstallTriggers, With, Queued, unwindVars
    <3>3. CASE p = q
      <4>1. Upgrade(p) /\ ~Come(p) /\ Come(p)' /\ Archive(p) = Contents[p][selstat[p].version]
        BY <1>1, <1>3, <3>3 DEF UnpackedInv, ToBeUnpacked, Come, Upgrade, Archive
      <4> QED
        BY <1>1, <2>3, <3>1, <3>3, <4>1 DEF AddInstallTriggers, With, Queued, unwindVars
    <3> QED
      BY <3>2, <3>3
  <2> QED
    BY <1>3, <2>1, <2>2, <2>3 DEF SelectToUnpack, Plain
<1> QED
  BY <1>0, <1>2, <1>3, PreUnpackSelects

\* A package is selected to be removed.
LEMMA QueuedToRemove ==
  ASSUME OperationInv, InHand, ListedInv, TriggersGuard, SelectToRemove, NEW p \in Package, Plain(p),
  Settled(p),
         Queued(p)
  PROVE  Queued(p)'
<1>0. state = "pre_remove" /\ TypeInv
  BY DEF SelectToRemove, PreRemoveSelectPackage, OperationInv, CommitInv
<1>1. UNCHANGED <<selstat, prevstat, packagesToUnpack>> /\ (Come(p)' <=> Come(p)) /\ OldFiles(p)' = OldFiles(p)
      /\ Archive(p)' = Archive(p) /\ (Leave(p)' <=> Leave(p))
  BY SelectMoves DEF SelectToRemove, PreRemoveSelectPackage, Come, Leave, OldFiles, Archive, Upgrade
<1>2. PICK q \in packagesBeingRemoved' \ packagesBeingRemoved : AddRemoveTriggers(q, ReadManifest(q))
  BY DEF SelectToRemove
<1>3. q \in packagesToRemove /\ packagesToRemove' = packagesToRemove \ {q}
  BY <1>2 DEF SelectToRemove, PreRemoveSelectPackage
<1>4. \A a : HasRun(a, p)' <=> HasRun(a, p)
  BY <1>2, RanStill DEF AddRemoveTriggers
<1>5. CASE p # q
  <2>1. Gone(p)' <=> Gone(p)
    BY <1>1, <1>3, <1>5 DEF Gone
  <2>2. /\ p \in preRemove' <=> p \in preRemove
        /\ p \in hasRemoveUnwind' <=> p \in hasRemoveUnwind
        /\ p \in postRemove' <=> p \in postRemove
    BY <1>2, <1>5 DEF AddRemoveTriggers, With
  <2>3. UNCHANGED <<preInstall, postInstall, hasInstallUnwind, preInstallUnwind, preRemoveUnwind>>
    BY <1>2 DEF AddRemoveTriggers, unwindVars
  <2> QED
    BY <1>1, <1>4, <2>1, <2>2, <2>3 DEF Queued
<1>6. CASE p = q
  <2>1. Leave(p)
    BY <1>0, <1>3, <1>6 DEF InHand, PreState
  <2>2. prevstat[p].state = installed
    BY <2>1 DEF Settled, Leave, RemoveReq, not_present, removed, installed
  <2>3. Scripts(p) \cap ReadManifest(p) = Scripts(p) \cap OldFiles(p)
    BY <1>0, <2>2, ManifestLists DEF OldFiles
  <2>4. ~Gone(p) /\ Gone(p)'
    BY <1>1, <1>3, <1>6, <2>1 DEF Gone
  <2>5. /\ p \in preRemove' <=> p \in preRemove \/ PreRemoveScript[p] \in OldFiles(p)
        /\ p \in hasRemoveUnwind' <=> p \in hasRemoveUnwind \/ PostInstallScript[p] \in OldFiles(p)
        /\ p \in postRemove' <=> p \in postRemove \/ PostRemoveScript[p] \in OldFiles(p)
    BY <1>2, <1>6, <2>3 DEF AddRemoveTriggers, With, Scripts
  <2>6. UNCHANGED <<preInstall, postInstall, hasInstallUnwind, preInstallUnwind, preRemoveUnwind>>
    BY <1>2 DEF AddRemoveTriggers, unwindVars
  <2> QED
    BY <1>1, <1>4, <2>4, <2>5, <2>6 DEF Queued
<1> QED
  BY <1>5, <1>6

QueuesInv == OperationInv /\ OrderInv /\ EmptyInv /\ UnwindInv /\ ListedInv /\ InHand /\ ModulesInv /\ QueuedInv

\* A session that is under way does not begin another.
LEMMA StillUnderway ==
  ASSUME QueuesInv, [CommitNext]_allVars, Underway', ~UnpackBegin
  PROVE  Underway /\ UNCHANGED <<sessions, prevstat, selstat>>
<1>0. CommitInv /\ OneUnpack
  BY DEF QueuesInv, OperationInv, CommitInv, VerifiedInv
<1>1. CASE StatusStep
  BY <1>0, <1>1, StatusSteps DEF Underway, sessionVars
<1>2. CASE StillStep
  BY <1>0, <1>2, StillSteps, StillCommits DEF OneUnpack, Still, Underway, Before, Late, sessionVars
<1>3. CASE UnpackPoll
  BY <1>0, <1>3, UnpackPollNarrows, FileMoves, TriggerMoves, SelectMoves DEF Narrows, OneUnpack, Underway
<1>4. CASE UnpackEnded
  BY <1>4 DEF UnpackEnded, Finish, NoSession, sessionVars, Underway
<1>5. CASE CommitBegin \/ UnpackFailed \/ CommitCrash
  BY <1>0, <1>5 DEF CommitBegin, UnpackFailed, CommitCrash, Finish, NoSession, OneUnpack, Underway, Late
<1> QED
  BY <1>1, <1>2, <1>3, <1>4, <1>5 DEF CommitNext, CommitPoll, StillStep, StatusStep

LEMMA QueuedNext == QueuesInv /\ [CommitNext]_allVars => QueuedInv'
<1> SUFFICES ASSUME QueuesInv, [CommitNext]_allVars, TriggersGuard', Underway', NEW p \in Package, Plain(p),
Settled(p)'
             PROVE  Queued(p)'
  BY DEF QueuedInv, Plain
<1>0. OperationInv /\ CommitInv /\ TypeInv /\ OneUnpack /\ IsSeq /\ EmptyInv /\ SetsEmptied /\ UnpackedInv
  BY DEF QueuesInv, OperationInv, OrderInv, CommitInv, VerifiedInv, SessionInv, SideInv
<1>1. CASE UnpackBegin
  BY <1>0, <1>1, QueuedNew
<1>2. CASE ~UnpackBegin
  <2>1. Underway /\ UNCHANGED <<sessions, prevstat, selstat>>
    BY <1>2, StillUnderway
  <2>2. TriggersGuard /\ Settled(p) /\ Queued(p)
    BY <2>1 DEF TriggersGuard, Settled, QueuesInv, QueuedInv
  <2>3. CASE UnpackPoll /\ SelectToUnpack
    BY <1>0, <2>2, <2>3, QueuedToUnpack
  <2>4. CASE UnpackPoll /\ SelectToRemove
    BY <1>0, <2>2, <2>4, QueuedToRemove DEF QueuesInv
  <2>5. CASE ~(UnpackPoll /\ (SelectToUnpack \/ SelectToRemove))
    <3>1. UNCHANGED <<packagesToRemove, packagesToUnpack>>
      <4>1. CASE StatusStep \/ StillStep
        BY <1>0, <4>1, FramedSteps DEF Framed, packageVars
      <4>2. CASE UnpackPoll
        BY <2>5, <4>2, FileMoves, TriggerMoves
      <4>3. CASE UnpackEnded
        BY <1>0, <4>3 DEF UnpackEnded, Finish, NoSession, EmptyInv
      <4>4. CASE CommitBegin \/ UnpackFailed \/ CommitCrash
        BY <1>0, <4>4 DEF CommitBegin, UnpackFailed, CommitCrash, Finish, NoSession, OneUnpack, Underway, Late
      <4> QED
        BY <1>2, <4>1, <4>2, <4>3, <4>4 DEF CommitNext, CommitPoll, StillStep, StatusStep
    <3>2. CASE QueuesStill
      BY <2>1, <2>2, <3>1, <3>2, QueuedStill DEF Gone, Come, Leave, Upgrade
    <3>3. CASE \E q, v : RunOf(q, v)
      <4>1. PICK q, v : RunOf(q, v)
        BY <3>3
      <4>2. state = "run_pre_install_triggers" /\ Upgrade(p) /\ OldFiles(p) # {} => Gone(p)
        <5> SUFFICES ASSUME state = "run_pre_install_triggers", Upgrade(p), OldFiles(p) # {} PROVE Gone(p)
          OBVIOUS
        <5>1. packagesToRemove = {}
          BY <1>0 DEF SetsEmptied, MidState, ForwardState
        <5>2. prevstat[p].state = installed
          BY DEF OldFiles
        <5> QED
          BY <5>1, <5>2 DEF Gone, Leave, Upgrade, UnpackReq, RemoveReq, installed, unpacked, removed
      <4> QED
        BY <1>0, <2>1, <2>2, <3>1, <4>1, <4>2, QueuedRun
    <3>4. commitState' \notin {"none", "fail"}
      <4>1. OneUnpack'
        BY <1>0, CommitInvNext DEF CommitInv, VerifiedInv
      <4> QED
        BY <4>1 DEF Underway, Late
    <3>5. ~CommitBegin
      BY <1>0 DEF CommitBegin, Underway, OneUnpack, Late
    <3> QED
      BY <2>5, <3>2, <3>3, <3>4, <3>5, QueueSteps
  <2> QED
    BY <2>3, <2>4, <2>5
<1> QED
  BY <1>1, <1>2

LEMMA QueuesInit == CommitInit => QueuesInv
<1> SUFFICES ASSUME CommitInit PROVE QueuesInv
  OBVIOUS
<1>1. EmptyInv /\ UnwindInv
  BY DEF CommitInit, Init, TriggersInit, EmptyInv, NoQueues, UnwindInv, Before
<1> QED
  BY <1>1, OperationInit, OrderInit, ListedInit, InHandInit, ModulesInit, QueuedInit DEF QueuesInv

LEMMA QueuesNext == QueuesInv /\ [CommitNext]_allVars => QueuesInv'
<1> SUFFICES ASSUME QueuesInv, [CommitNext]_allVars PROVE QueuesInv'
  OBVIOUS
<1>1. OperationInv /\ CommitInv /\ OrderInv /\ IsSeq /\ EmptyInv /\ UnwindInv /\ ListedInv /\ InHand /\ ModulesInv
  BY DEF QueuesInv, OperationInv, OrderInv
<1>2. OperationInv' /\ OrderInv' /\ EmptyInv' /\ UnwindInv' /\ ListedInv' /\ InHand' /\ ModulesInv'
  BY <1>1, OperationInvNext, OrderNext, EmptyNext, UnwindNext, ListedNext, InHandNext, ModulesNext
<1> QED
  BY <1>2, QueuedNext DEF QueuesInv

LEMMA HasBeenRun == \A a, p : p \in Ran(a) <=> HasRun(a, p)
  BY DEF Ran, HasRun

\* When an operation is backed out well, the unwinding triggers that have been asked for,
\* found or not, are exactly those that undo the triggers that were run.
LEMMA AskedIfFailed ==
  ASSUME QueuesInv, ModulesHaveNoTriggers, TriggersGuard,
         state = "fail", BackedOutWell, NEW p \in Package, Settled(p)
  PROVE  /\ p \in Ran("abort_pre_install") <=>
              p \in Ran("pre_install") /\ PostRemoveScript[p] \in Contents[p][selstat[p].version]
         /\ p \in Ran("abort_pre_remove") <=>
              /\ p \in Ran("pre_remove") \cup Ran("pre_install")
              /\ prevstat[p].state = installed
              /\ PostInstallScript[p] \in Contents[p][prevstat[p].version]
<1>1. preInstallUnwind = {} /\ preRemoveUnwind = {}
  BY DEF QueuesInv, UnwindInv
<1>2. CASE Plain(p)
  <2>1. Queued(p)
    <3>1. Underway
      BY DEF QueuesInv, OrderInv, OneUnpack, Underway
    <3> QED
      BY <1>2, <3>1 DEF QueuesInv, QueuedInv
  <2>2. HasRun("pre_install", p) => Archive(p) = Contents[p][selstat[p].version]
    BY <2>1 DEF Queued, Come, Archive
  <2> QED
    BY <1>1, <2>1, <2>2, HasBeenRun DEF Queued, OldFiles
<1>3. CASE ~Plain(p)
  BY <1>3, HasBeenRun DEF QueuesInv, ModulesInv, NoneQueued
<1> QED
  BY <1>2, <1>3

LEMMA RunIfDone == QueuesInv /\ ModulesHaveNoTriggers /\ TriggersGuard => PostTriggersRun
<1> SUFFICES ASSUME QueuesInv, ModulesHaveNoTriggers, TriggersGuard,
                    commitState = "done", NEW p \in Package, disk[p] # prevstat[p], Settled(p)
             PROVE  /\ prevstat[p].state = installed =>
                         (p \in Ran("post_remove") <=> PostRemoveScript[p] \in Contents[p][prevstat[p].version])
                    /\ disk[p].state = installed =>
                         (p \in Ran("post_install") <=> PostInstallScript[p] \in Contents[p][disk[p].version])
  BY DEF PostTriggersRun
<1>1. /\ CommitInv /\ TypeInv /\ KeptInv /\ CommitDone
      /\ state = "idle" /\ curstat = disk /\ packagesToUnpack = {} /\ packagesToRemove = {}
      /\ postRemove = {} /\ postInstall = {}
  BY DoneIfCommitted DEF QueuesInv, OperationInv, SideInv, CommitInv, VerifiedInv, OneUnpack,
     BetweenSessions, InHand, EmptyInv
<1>2. /\ prevstat[p] \in Status /\ disk[p] \in Status /\ selstat[p] \in Status
      /\ prevstat[p].state \in {not_present, removed, installed}
      /\ selstat[p].state \in {not_present, removed, installed}
  BY <1>1, StatusFacts DEF TypeInv, TypeOK, CommitInv, SessionInv, SelectedStates, Settled
<1>3. CASE Plain(p)
  <2>1. Queued(p)
    BY <1>3 DEF QueuesInv, QueuedInv, Underway, Late
  <2>2. prevstat[p].state = installed => Leave(p)
    <3> SUFFICES ASSUME prevstat[p].state = installed PROVE Leave(p)
      OBVIOUS
    <3>1. CASE selstat[p].state = installed
      <4>1. disk[p] = selstat[p]
        BY <1>1, <1>3, <3>1 DEF CommitDone, Plain
      <4>2. prevstat[p].version # selstat[p].version
        BY <1>2, <3>1, <4>1 DEF Status
      <4> QED
        BY <4>2 DEF Leave, RemoveReq, removed, installed
    <3>2. CASE selstat[p].state # installed
      BY <1>2, <3>2 DEF Leave, RemoveReq, not_present, removed, installed
    <3> QED
      BY <3>1, <3>2
  <2>3. disk[p].state = installed => disk[p] = selstat[p] /\ Upgrade(p)
    <3> SUFFICES ASSUME disk[p].state = installed PROVE disk[p] = selstat[p] /\ Upgrade(p)
      OBVIOUS
    <3>1. selstat[p].state = installed
      <4>1. Unpacked(p)
        BY <1>1 DEF CommitInv, Finishing, Late
      <4> QED
        BY <1>1, <1>2, <4>1 DEF Unpacked, removed, installed
    <3>2. disk[p] = selstat[p]
      BY <1>1, <1>3, <3>1 DEF CommitDone, Plain
    <3>3. prevstat[p].state = installed => prevstat[p].version # selstat[p].version
      BY <1>2, <3>1, <3>2 DEF Status
    <3> QED
      BY <1>2, <3>1, <3>2, <3>3 DEF Upgrade, UnpackReq, not_present, removed, unpacked, installed
  <2> QED
    BY <1>1, <2>1, <2>2, <2>3, HasBeenRun DEF Queued, Gone, Come, OldFiles, Archive
<1>4. CASE ~Plain(p)
  <2>1. ~HasRun("post_remove", p) /\ ~HasRun("post_install", p)
    BY <1>4 DEF QueuesInv, ModulesInv, NoneQueued
  <2>2. /\ prevstat[p].state = installed => prevstat[p].version \in Version
        /\ disk[p].state = installed => disk[p].version \in Version
    BY <1>1 DEF KeptInv, installed, unpacked
  <2>3. \A v \in Version : PostRemoveScript[p] \notin Contents[p][v] /\ PostInstallScript[p] \notin Contents[p][v]
    BY <1>4 DEF ModulesHaveNoTriggers, Plain, Scripts
  <2> QED
    BY <2>1, <2>2, <2>3, HasBeenRun
<1> QED
  BY <1>3, <1>4

LEMMA QueuesSpec == CommitSpec => []QueuesInv
  BY QueuesInit, QueuesNext, PTL DEF CommitSpec

\* PostTriggersRun (commit.cc:644-712, triggers.cc): an operation that ends well has run the
\* post-remove trigger of every package that it has taken away and the post-install trigger
\* of every one that it has installed, and of those no others; under the same hypothesis.
THEOREM PostTriggersAreRun ==
  ASSUME ModulesHaveNoTriggers
  PROVE  CommitSpec => [](TriggersGuard => PostTriggersRun)
<1>1. QueuesInv => (TriggersGuard => PostTriggersRun)
  BY RunIfDone
<1> QED
  BY <1>1, QueuesSpec, PTL

-------------------------------------------------------------------------------
(* Moving the files into place fails for no reason of the session's own.    *)

\* Where a file of a package that is being unpacked will go there is nothing, or what may
\* be overwritten.
FreeInv ==
  state \in ForwardState \ {"remove"} =>
    \A p \in packagesPreUnpacked \cup packagesBeingUnpacked : \A f \in FilesOf(p, selstat[p].version) :
      dst[f] = NoFile \/ f \in filesToRemove \cup filesUnpacked

\* What has been unpacked is of a package that is being unpacked.
OfArchives ==
  state \in ForwardState =>
    \A f \in filesBeingUnpacked : \E p \in packagesBeingUnpacked : f \in FilesOf(p, selstat[p].version)

LEMMA ReplacedOne ==
  ASSUME ReplaceFile, state' # "unwind_replace"
  PROVE  /\ state = "replace" /\ UNCHANGED <<state, filesToUnpack, packageVars>>
         /\ \E g \in filesBeingUnpacked :
              /\ dst' = [dst EXCEPT ![g] = tmp[g]] /\ tmp' = [tmp EXCEPT ![g] = NoFile]
              /\ filesToRemove' = filesToRemove \ {g} /\ filesUnpacked' = filesUnpacked \cup {g}
              /\ filesBeingUnpacked' = filesBeingUnpacked \ {g}
<1>1. state = "replace" /\ state' # ExceptionState[state]
  BY ExceptionValues DEF ReplaceFile
<1> QED
  BY <1>1 DEF ReplaceFile, Throw

LEMMA SelectedOne ==
  ASSUME TypeInv, UnpackSelectPackage, state' # "unwind_unpack"
  PROVE  /\ state = "unpack" /\ filesToUnpack = {}
         /\ UNCHANGED <<state, filesBeingUnpacked, filesUnpacked, filesToRemove>>
         /\ packagesBeingUnpacked \subseteq packagesBeingUnpacked'
         /\ packagesPreUnpacked' \cup packagesBeingUnpacked' = packagesPreUnpacked \cup packagesBeingUnpacked
         /\ \A f \in PackageFile : dst'[f] = dst[f] /\ tmp'[f] = tmp[f]
<1>1. state = "unpack" /\ state' # ExceptionState[state]
  BY ExceptionValues DEF UnpackSelectPackage
<1>2. PICK p \in packagesPreUnpacked :
        /\ dst' = [dst EXCEPT ![ControlFile[p]] = [owner |-> p, version |-> selstat[p].version]]
        /\ tmp' = [tmp EXCEPT ![ControlFile[p]] = NoFile]
        /\ packagesBeingUnpacked' = packagesBeingUnpacked \cup {p}
        /\ packagesPreUnpacked' = packagesPreUnpacked \ {p}
        /\ UNCHANGED state
  BY <1>1 DEF UnpackSelectPackage, Throw
<1>3. p \in Package /\ dst \in SomeFile /\ tmp \in SomeFile
  BY DEF TypeInv, TypeOK
<1>4. \A f \in PackageFile : dst'[f] = dst[f] /\ tmp'[f] = tmp[f]
  BY <1>2, <1>3, ControlNotPackageFile DEF SomeFile, PackageFile
<1>5. filesToUnpack = {} /\ UNCHANGED <<filesBeingUnpacked, filesUnpacked, filesToRemove>>
  BY DEF UnpackSelectPackage, removeVars
<1> QED
  BY <1>1, <1>2, <1>4, <1>5

\* The polls in the states of the way forward.
LEMMA ForwardPolls ==
  ASSUME TypeInv, Poll, state' \in ForwardState, state \in ForwardState
  PROVE  SetsStill \/ UnpackFile \/ UnpackSelectPackage \/ ReplaceFile \/ RemoveFile
<1>1. state \notin PreState \cup FinalState \cup UnwindState
  BY StatesApart DEF MidState
<1> QED
  BY <1>1, StillPolls, StatesApart
     DEF SetsPolls, PreUnpackCheckFile, PreUnpackSelectPackage, PreRemoveSelectPackage, PreRemoveDone,
         PostRemoveFile, PostRemovePackage, PostUnpackPackage, PostUnpackDone,
         UnwindReplaceFile, UnwindUnpackFile, UnwindUnpackPackage, UnwindPreRemovePackage,
         UnwindPreUnpackPackage, UnwindPreUnpackDone, PreState, UnwindState, FinalState

LEMMA PreRemoved ==
  ASSUME TypeInv, Poll, state' \in ForwardState, state \notin ForwardState
  PROVE  /\ state = "pre_remove" /\ state' = "copy_post_remove"
         /\ UNCHANGED <<dst, packagesPreUnpacked, packagesBeingUnpacked, fileVars>>
         /\ filesThatConflict = {}
<1>1. state = "pre_remove" /\ state' = "copy_post_remove"
  BY StatePolls
<1>2. PreRemoveDone
  <2>1. ~SetsStill
    BY <1>1 DEF SetsStill, Advances
  <2> QED
    BY <1>1, <2>1, PrePolls DEF PreUnpackCheckFile, PreUnpackSelectPackage, PreRemoveSelectPackage, PreState
<1>3. state' # ExceptionState[state]
  BY <1>1, ExceptionValues DEF PreState
<1> QED
  BY <1>1, <1>2, <1>3 DEF PreRemoveDone, ThrowPre, Throw, fsVars

LEMMA FreePoll ==
  ASSUME TypeInv, InPlace, FilesOfState, CheckedInv, FreeInv, Poll
  PROVE  FreeInv'
<1> SUFFICES ASSUME state' \in ForwardState, state' # "remove" PROVE FreeInv'
  BY DEF FreeInv
<1>1. UNCHANGED selstat
  BY PollConstants
<1>2. CASE state \notin ForwardState
  <2>1. /\ state = "pre_remove" /\ UNCHANGED <<dst, packagesPreUnpacked, packagesBeingUnpacked, fileVars>>
        /\ filesThatConflict = {}
    BY <1>2, PreRemoved
  <2>2. state \in PreState /\ packagesBeingUnpacked = {} /\ filesToUnpack = {}
    BY <2>1 DEF InPlace, FilesOfState, PreState
  <2>3. UNCHANGED <<filesToRemove, filesUnpacked>>
    BY <2>1 DEF fileVars, removeVars, unpackVars
  <2> QED
    BY <1>1, <2>1, <2>2, <2>3 DEF CheckedInv, FreeInv, FilesOf
<1>3. CASE state \in ForwardState
  <2>1. state # "remove" \/ RemoveFile \/ SetsStill
    BY <1>3, ForwardPolls DEF UnpackFile, UnpackSelectPackage, ReplaceFile
  <2>2. state # "remove"
    BY <2>1 DEF RemoveFile, SetsStill, Advances, ForwardState
  <2>3. CASE SetsStill
    <3>1. UNCHANGED <<dst, packagesPreUnpacked, packagesBeingUnpacked, filesToRemove, filesUnpacked>>
      BY <2>3 DEF SetsStill, packageVars, unpackVars, removeVars
    <3> QED
      BY <1>1, <1>3, <2>2, <3>1 DEF FreeInv, FilesOf
  <2>4. CASE UnpackFile
    <3>1. UNCHANGED <<dst, packagesPreUnpacked, packagesBeingUnpacked, filesToRemove, filesUnpacked>>
      BY <2>4 DEF UnpackFile, packageVars, removeVars
    <3> QED
      BY <1>1, <1>3, <2>2, <3>1 DEF FreeInv, FilesOf
  <2>5. CASE UnpackSelectPackage
    <3>1. state' # "unwind_unpack"
      BY DEF ForwardState
    <3> SUFFICES ASSUME NEW p \in packagesPreUnpacked' \cup packagesBeingUnpacked',
                        NEW f \in FilesOf(p, selstat[p].version)
                 PROVE  dst'[f] = NoFile \/ f \in filesToRemove' \cup filesUnpacked'
      BY <1>1 DEF FreeInv, FilesOf
    <3>2. p \in packagesPreUnpacked \cup packagesBeingUnpacked
      BY <2>5, <3>1, SelectedOne
    <3>3. p \in Package /\ selstat[p].version \in Version
      BY <3>2 DEF TypeInv, SelectedInv, SelectedPackages
    <3>4. f \in PackageFile
      BY <3>3, ClaimedFiles
    <3> QED
      BY <1>3, <2>2, <2>5, <3>1, <3>2, <3>4, SelectedOne DEF FreeInv
  <2>6. CASE ReplaceFile
    <3>1. state' # "unwind_replace" /\ dst \in SomeFile
      BY DEF ForwardState, TypeInv, TypeOK
    <3>2. PICK g \in filesBeingUnpacked :
              /\ dst' = [dst EXCEPT ![g] = tmp[g]]
              /\ filesToRemove' = filesToRemove \ {g} /\ filesUnpacked' = filesUnpacked \cup {g}
      BY <2>6, <3>1, ReplacedOne
    <3>3. UNCHANGED <<packagesPreUnpacked, packagesBeingUnpacked>>
      BY <2>6, <3>1, ReplacedOne DEF packageVars
    <3> SUFFICES ASSUME NEW p \in packagesPreUnpacked \cup packagesBeingUnpacked,
                        NEW f \in FilesOf(p, selstat[p].version)
                 PROVE  dst'[f] = NoFile \/ f \in filesToRemove' \cup filesUnpacked'
      BY <1>1, <3>3 DEF FreeInv, FilesOf
    <3>4. f = g \/ dst'[f] = dst[f]
      BY <3>1, <3>2 DEF SomeFile, FilesOf
    <3> QED
      BY <1>3, <2>2, <3>2, <3>4 DEF FreeInv
  <2>7. ~RemoveFile
    BY <2>2 DEF RemoveFile
  <2> QED
    BY <1>3, <2>3, <2>4, <2>5, <2>6, <2>7, ForwardPolls
<1> QED
  BY <1>2, <1>3

LEMMA OfArchivesPoll ==
  ASSUME TypeInv, FilesOfState, OfArchives, Poll
  PROVE  OfArchives'
<1> SUFFICES ASSUME state' \in ForwardState PROVE OfArchives'
  BY DEF OfArchives
<1>1. UNCHANGED selstat
  BY PollConstants
<1>2. CASE state \notin ForwardState
  <2>1. state = "pre_remove" /\ UNCHANGED fileVars
    BY <1>2, PreRemoved
  <2>2. filesBeingUnpacked' = {}
    BY <2>1 DEF fileVars, unpackVars, FilesOfState, PreState
  <2> QED
    BY <2>2 DEF OfArchives
<1>3. CASE state \in ForwardState
  <2>1. CASE UnpackFile
    <3>1. UNCHANGED packagesBeingUnpacked /\ state = "unpack" /\ state' # ExceptionState[state]
      BY <2>1, ExceptionValues DEF UnpackFile, packageVars, ForwardState
    <3>2. PICK g \in filesToUnpack :
             \/ UNCHANGED filesBeingUnpacked
             \/ g \in File /\ filesBeingUnpacked' = filesBeingUnpacked \cup {g}
      BY <2>1, <3>1 DEF UnpackFile, Throw
    <3>3. pkgname \in packagesBeingUnpacked /\ filesToUnpack \subseteq Contents[pkgname][selstat[pkgname].version]
      BY <3>1, <3>2 DEF FilesOfState
    <3>4. g \in File => g \in FilesOf(pkgname, selstat[pkgname].version)
      BY <3>2, <3>3 DEF FilesOf
    <3> QED
      BY <1>1, <1>3, <3>1, <3>2, <3>3, <3>4 DEF OfArchives, FilesOf
  <2>2. CASE SetsStill \/ RemoveFile \/ ReplaceFile \/ UnpackSelectPackage
    <3>1. state' # "unwind_unpack" /\ state' # "unwind_replace"
      BY DEF ForwardState
    <3>2. filesBeingUnpacked' \subseteq filesBeingUnpacked /\ packagesBeingUnpacked \subseteq packagesBeingUnpacked'
      <4>1. CASE SetsStill \/ RemoveFile
        BY <4>1 DEF SetsStill, RemoveFile, unpackVars, packageVars
      <4>2. CASE ReplaceFile
        BY <3>1, <4>2, ReplacedOne DEF packageVars
      <4>3. CASE UnpackSelectPackage
        BY <3>1, <4>3, SelectedOne
      <4> QED
        BY <2>2, <4>1, <4>2, <4>3
    <3> QED
      BY <1>1, <1>3, <3>2 DEF OfArchives, FilesOf
  <2> QED
    BY <1>3, <2>1, <2>2, ForwardPolls
<1> QED
  BY <1>2, <1>3

\* The states that lead back from what has been moved into place, which no session reaches
\* without a fault in replacing a file or in making a directory.
NoWayBack == state \notin {"unwind_create_empty_dirs", "unwind_replace", "unwind_remove"}

LEMMA NoWayPoll ==
  ASSUME TypeInv, InPlace, FreeInv, OfArchives, NoWayBack, Whole', Poll
  PROVE  NoWayBack'
<1>1. "replace" \notin failed' /\ "mkdir" \notin failed'
  BY DEF Whole
<1>2. CASE SetsStill
  BY <1>1, <1>2 DEF SetsStill, Advances, NoWayBack
<1>3. CASE ReplaceFile
  <2>1. state = "replace"
    BY <1>3 DEF ReplaceFile
  <2>2. PICK f \in filesBeingUnpacked :
          UNCHANGED state \/ ReplaceFileFails(f, f \in filesToRemove, "replace")
    BY <1>3 DEF ReplaceFile
  <2>3. PICK p \in packagesBeingUnpacked : f \in FilesOf(p, selstat[p].version)
    BY <2>1, StatesApart DEF OfArchives
  <2>4. f \notin filesUnpacked
    BY <2>1, <2>2, StatesApart DEF InPlace, Changed
  <2>5. dst[f] = NoFile \/ f \in filesToRemove
    BY <2>1, <2>3, <2>4, StatesApart DEF FreeInv
  <2>6. ~ReplaceFileFails(f, f \in filesToRemove, "replace")
    BY <1>1, <2>5 DEF ReplaceFileFails, Replaceable, Fault
  <2> QED
    BY <2>1, <2>2, <2>6 DEF NoWayBack
<1>4. CASE SetsPolls /\ ~ReplaceFile
  <2> USE ExceptionValues DEF NoWayBack, Throw, ThrowPre, RestoreFileFails
  <2>1. CASE PreUnpackCheckFile \/ PreUnpackSelectPackage \/ PreRemoveSelectPackage \/ PreRemoveDone
    BY <2>1 DEF PreUnpackCheckFile, PreUnpackSelectPackage, PreRemoveSelectPackage, PreRemoveDone, PreState
  <2>2. CASE UnpackFile \/ RemoveFile \/ PostRemoveFile \/ PostRemovePackage
    BY <2>2 DEF UnpackFile, RemoveFile, PostRemoveFile, PostRemovePackage
  <2>3. CASE UnpackSelectPackage
    BY <2>3, UnpackSelects
  <2>4. CASE PostUnpackPackage \/ PostUnpackDone
    BY <2>4 DEF PostUnpackPackage, PostUnpackDone
  <2>5. CASE UnwindReplaceFile \/ UnwindUnpackFile \/ UnwindUnpackPackage
    BY <2>5 DEF UnwindReplaceFile, UnwindUnpackFile, UnwindUnpackPackage, UnwindState
  <2>6. CASE UnwindPreRemovePackage \/ UnwindPreUnpackPackage \/ UnwindPreUnpackDone
    BY <2>6 DEF UnwindPreRemovePackage, UnwindPreUnpackPackage, UnwindPreUnpackDone, UnwindState
  <2> QED
    BY <1>4, <2>1, <2>2, <2>3, <2>4, <2>5, <2>6 DEF SetsPolls
<1> QED
  BY <1>2, <1>3, <1>4, StillPolls

-------------------------------------------------------------------------------
(* Where the scripts of the pre-install triggers are.                      *)

\* The new files of the packages that are upgraded are beside their destinations.
AllTmp ==
  \A p \in Package : Plain(p) /\ Upgrade(p) =>
    \A f \in FilesOf(p, selstat[p].version) : tmp[f] = [owner |-> p, version |-> selstat[p].version]

LEMMA TmpThere ==
  ASSUME OperationInv, KeepInv, state = "run_pre_install_triggers"
  PROVE  AllTmp
<1>0. TypeInv /\ SessionInv /\ InPlace /\ PlacedInv /\ FilesOfState /\ KeptInv
  BY DEF OperationInv, CommitInv, FilesInv, RecoverInv, SideInv, KeepInv
<1>1. state \in ForwardState /\ state \in Onward /\ state \notin FinalState /\ ~UnwoundStatus
  BY DEF ForwardState, Onward, FinalState, UnwoundStatus, UnwindState
<1> SUFFICES ASSUME NEW p \in Package, Plain(p), Upgrade(p), NEW f \in FilesOf(p, selstat[p].version)
             PROVE  tmp[f] = [owner |-> p, version |-> selstat[p].version]
  BY DEF AllTmp
<1>2. p \notin Served
  BY <1>0, <1>1 DEF SessionInv, ServedInv, Plain
<1>3. selstat[p].state >= unpacked
  BY DEF Upgrade, UnpackReq, installed, unpacked
<1>4. AsSelected(p)
  BY <1>0, <1>1, <1>2 DEF SessionInv, OnwardInv
<1>5. p \in ToBeUnpacked
  <2> SUFFICES ASSUME p \notin ToBeUnpacked PROVE FALSE
    OBVIOUS
  <2>1. curstat[p].state >= unpacked /\ curstat[p].version = selstat[p].version
    BY <1>3, <1>4 DEF AsSelected
  <2>2. disk = curstat
    BY <1>0, <1>1 DEF SessionInv, Saved, MidState
  <2>3. disk[p] = prevstat[p]
    BY <1>0, <1>1, <2>1, <2>2 DEF KeptInv, MidState
  <2>4. prevstat[p].state >= unpacked /\ prevstat[p].version = selstat[p].version
    BY <2>1, <2>2, <2>3
  <2>5. prevstat[p] \in Status
    BY <1>0 DEF TypeInv, TypeOK
  <2>6. ~(prevstat[p].state < unpacked)
    BY <2>4, <2>5 DEF Status, PkgState, unpacked
  <2> QED
    BY <2>4, <2>6 DEF Upgrade, UnpackReq
<1>6. packagesToUnpack = {} /\ packagesPreUnpacked = {}
  BY <1>0, <1>1 DEF SessionInv, SetsEmptied, MidState
<1>7. Placed(p, f)
  BY <1>0, <1>1, <1>5, <1>6 DEF PlacedInv, ToBeUnpacked
<1>8. filesToUnpack = {} /\ filesUnpacked = {}
  BY <1>0, <1>1 DEF FilesOfState, InPlace, Changed
<1> QED
  BY <1>7, <1>8 DEF Placed

\* They stay there until the unwinding triggers have been run.
TmpInv == state = "unwind_pre_install_triggers" => AllTmp

LEMMA TmpPoll ==
  ASSUME OperationInv, KeepInv, NoWayBack, TmpInv, SetsStill, state' = "unwind_pre_install_triggers"
  PROVE  AllTmp'
<1>1. state \in {"run_pre_install_triggers", "unwind_pre_install_triggers"}
  BY DEF SetsStill, Advances, NoWayBack
<1>2. AllTmp
  BY <1>1, TmpThere DEF TmpInv
<1>3. UNCHANGED <<tmp, selstat, prevstat>>
  BY DEF SetsStill
<1> QED
  BY <1>2, <1>3 DEF AllTmp, Upgrade, Plain, FilesOf

LEMMA TmpStill == Poll /\ state' = "unwind_pre_install_triggers" => SetsStill
<1> SUFFICES ASSUME Poll, state' = "unwind_pre_install_triggers", SetsPolls PROVE FALSE
  BY StillPolls
<1> USE ExceptionValues DEF Throw, ThrowPre, RestoreFileFails
<1>1. CASE PreUnpackCheckFile \/ PreUnpackSelectPackage \/ PreRemoveSelectPackage \/ PreRemoveDone
  BY <1>1 DEF PreUnpackCheckFile, PreUnpackSelectPackage, PreRemoveSelectPackage, PreRemoveDone, PreState
<1>2. CASE UnpackFile \/ ReplaceFile \/ RemoveFile \/ PostRemoveFile \/ PostRemovePackage
  BY <1>2 DEF UnpackFile, ReplaceFile, RemoveFile, PostRemoveFile, PostRemovePackage
<1>3. CASE UnpackSelectPackage
  BY <1>3, UnpackSelects
<1>4. CASE PostUnpackPackage \/ PostUnpackDone
  BY <1>4 DEF PostUnpackPackage, PostUnpackDone
<1>5. CASE UnwindReplaceFile \/ UnwindUnpackFile \/ UnwindUnpackPackage
  BY <1>5 DEF UnwindReplaceFile, UnwindUnpackFile, UnwindUnpackPackage, UnwindState
<1>6. CASE UnwindPreRemovePackage \/ UnwindPreUnpackPackage \/ UnwindPreUnpackDone
  BY <1>6 DEF UnwindPreRemovePackage, UnwindPreUnpackPackage, UnwindPreUnpackDone, UnwindState
<1> QED
  BY <1>1, <1>2, <1>3, <1>4, <1>5, <1>6 DEF SetsPolls

ReadyInv == FreeInv /\ OfArchives /\ NoWayBack /\ TmpInv
ReadyWhole == Guarded /\ Whole => ReadyInv

LEMMA ReadyIdle == state = "idle" \/ state = "pre_unpack" => ReadyInv
  BY DEF ReadyInv, FreeInv, OfArchives, NoWayBack, TmpInv, ForwardState

LEMMA ReadyNext == SafeInv /\ ReadyWhole /\ [CommitNext]_allVars => ReadyWhole'
<1> SUFFICES ASSUME SafeInv, ReadyWhole, [CommitNext]_allVars, Guarded', Whole' PROVE ReadyInv'
  BY DEF ReadyWhole
<1>0. /\ OperationInv /\ KeepInv /\ ReadyInv /\ CommitInv /\ TypeInv /\ InPlace /\ FilesOfState /\ CheckedInv
  BY WholeBefore DEF SafeInv, KeptWhole, ReadyWhole, OperationInv, CommitInv, KeepInv, FilesInv, RecoverInv,
     SideInv
<1>1. ASSUME UNCHANGED <<state, dst, tmp, packagesPreUnpacked, packagesBeingUnpacked, filesBeingUnpacked,
                          filesToRemove, filesUnpacked, selstat, prevstat>>
      PROVE  ReadyInv'
  <2>1. FreeInv' /\ OfArchives' /\ NoWayBack'
    BY <1>0, <1>1 DEF ReadyInv, FreeInv, OfArchives, NoWayBack, FilesOf
  <2>2. TmpInv'
    BY <1>0, <1>1 DEF ReadyInv, TmpInv, AllTmp, Upgrade, FilesOf, Plain
  <2> QED
    BY <2>1, <2>2 DEF ReadyInv
<1>2. ASSUME state' \in {"idle", "pre_unpack"}, TRUE PROVE ReadyInv'
  BY <1>2 DEF ReadyInv, FreeInv, OfArchives, NoWayBack, TmpInv, ForwardState
<1>3. CASE CommitBegin \/ StatusStep \/ StillStep
  <2>1. Framed
    BY <1>0, <1>3, FramedSteps
  <2>2. CASE state = "idle"
    BY <1>2, <2>1, <2>2 DEF Framed
  <2>3. CASE state # "idle"
    <3>1. UNCHANGED <<selstat, prevstat>>
      BY <2>1, <2>3 DEF Framed
    <3> QED
      BY <1>1, <2>1, <3>1 DEF Framed, fsVars, packageVars, fileVars, unpackVars, removeVars
  <2> QED
    BY <2>2, <2>3
<1>4. CASE UnpackBegin
  BY <1>2, <1>4 DEF UnpackBegin, NewUnpack
<1>5. CASE UnpackEnded \/ UnpackFailed \/ CommitCrash
  BY <1>2, <1>5 DEF UnpackEnded, UnpackFailed, CommitCrash, Finish, NoSession
<1>6. CASE UnpackPoll
  <2>1. CASE Poll
    <3>1. FreeInv' /\ OfArchives' /\ NoWayBack'
      BY <1>0, <2>1, FreePoll, OfArchivesPoll, NoWayPoll DEF ReadyInv
    <3>2. TmpInv'
      BY <1>0, <2>1, TmpStill, TmpPoll DEF ReadyInv, TmpInv
    <3> QED
      BY <3>1, <3>2 DEF ReadyInv
  <2>2. CASE NotFound
    <3>1. SetsStill /\ UNCHANGED <<dst, tmp, packagesPreUnpacked, packagesBeingUnpacked, filesBeingUnpacked,
                                   filesToRemove, filesUnpacked, selstat, prevstat>>
      BY <2>2, NotFoundStill DEF SetsStill, packageVars, unpackVars, removeVars
    <3>2. state' \notin ForwardState /\ NoWayBack'
      BY <2>2, NotFoundMoves, StatesApart DEF NoWayBack
    <3>3. TmpInv'
      BY <1>0, <3>1, TmpPoll DEF ReadyInv, TmpInv
    <3> QED
      BY <3>2, <3>3 DEF ReadyInv, FreeInv, OfArchives
  <2>3. CASE Still
    BY <1>1, <2>3 DEF Still, fsVars, packageVars, fileVars, unpackVars, removeVars, sessionVars
  <2> QED
    BY <1>6, <2>1, <2>2, <2>3, UnpackPolls
<1> QED
  BY <1>3, <1>4, <1>5, <1>6 DEF CommitNext, CommitPoll, StillStep, StatusStep

-------------------------------------------------------------------------------
(* The files of the packages that were there.                              *)

LEMMA OldInPlace ==
  ASSUME OperationInv, KeepInv, Whole, NEW p \in Package, Plain(p), NEW f \in File, f \in OldFiles(p),
         state \in PreState \cup (ForwardState \ {"replace", "remove"}) \cup {"unwind_pre_remove_triggers"}
  PROVE  dst[f] = [owner |-> p, version |-> prevstat[p].version]
<1>0. TypeInv /\ InPlace /\ RestoredInv /\ FilesOfState /\ KeptInv /\ OrigInv
  BY DEF OperationInv, CommitInv, FilesInv, RecoverInv, SideInv, KeepInv
<1>1. prevstat[p].state = installed /\ f \in Contents[p][prevstat[p].version]
  BY DEF OldFiles
<1>2. prevstat[p].version \in Version
  BY <1>0, <1>1 DEF KeptInv, installed, unpacked
<1>3. f \in FilesOf(p, prevstat[p].version) /\ f \in PackageFile
  <2>1. f \in FilesOf(p, prevstat[p].version)
    BY <1>1 DEF FilesOf
  <2> QED
    BY <1>2, <2>1, ClaimedFiles
<1>4. orig[f] = [owner |-> p, version |-> prevstat[p].version]
  <2>1. Intact(orig, p, prevstat[p].version)
    BY <1>0, <1>1 DEF OrigInv, installed, unpacked, PreState, ForwardState
  <2>2. ModuleFile[p] \notin Contents[p][prevstat[p].version]
    BY <1>2, UnpackAssumption DEF Plain
  <2> QED
    BY <1>3, <2>1, <2>2 DEF Intact
<1>5. CASE state \in PreState \cup (ForwardState \ {"replace", "remove"})
  <2>1. Changed = {} /\ dst[f] = orig[f]
    <3>1. Changed = {}
      BY <1>0, <1>5, StatesApart DEF InPlace
    <3>2. \A q \in packagesBeingUnpacked : q \in Package
      BY <1>0 DEF TypeInv, TypeOK
    <3>3. Untouched(f)
      BY <1>3, <3>1, <3>2, ControlNotPackageFile DEF Untouched
    <3> QED
      BY <1>0, <1>5, <3>1, <3>3 DEF InPlace
  <2> QED
    BY <1>4, <2>1
<1>6. CASE state = "unwind_pre_remove_triggers"
  <2>1. state \in UnwindState /\ state # "unwind_replace"
    BY <1>6 DEF UnwindState
  <2>2. "mkdir" \notin failed /\ "replace" \notin failed
    BY DEF Whole
  <2>3. ~committed
    BY <1>0, <2>1, <2>2 DEF FilesOfState
  <2>4. LeftLost = {} /\ filesUnpacked = {}
    BY <1>0, <2>1, <2>2, <2>3 DEF RestoredInv
  <2>5. orig[f] # NoFile
    <3>1. [owner |-> p, version |-> prevstat[p].version] # NoFile
      BY <1>2, NewFile, UnpackAssumption
    <3> QED
      BY <1>4, <3>1
  <2> QED
    BY <1>3, <1>4, <2>4, <2>5 DEF LeftChanged, LeftLost
<1> QED
  BY <1>5, <1>6

-------------------------------------------------------------------------------
(* Triggers are queued for packages.                                       *)

QueuesOn ==
  /\ preInstall \subseteq Package /\ postInstall \subseteq Package
  /\ preRemove \subseteq Package /\ postRemove \subseteq Package
  /\ preInstallUnwind \subseteq Package /\ preRemoveUnwind \subseteq Package

LEMMA QueuesOnNext == OperationInv /\ QueuesOn /\ [CommitNext]_allVars => QueuesOn'
<1> SUFFICES ASSUME OperationInv, QueuesOn, [CommitNext]_allVars PROVE QueuesOn'
  OBVIOUS
<1>0. TypeInv' /\ TypeInv
  BY CommitInvNext DEF OperationInv, CommitInv
<1>1. CASE QueuesStill
  BY <1>1 DEF QueuesStill, queueVars, unwindVars, QueuesOn
<1>2. CASE DropTriggers
  BY <1>2 DEF DropTriggers, QueuesOn
<1>3. CASE CommitBegin
  BY <1>3 DEF CommitBegin, queueVars, unwindVars, QueuesOn
<1>4. CASE \E q, v : RunOf(q, v)
  <2>1. PICK q, v : RunOf(q, v)
    BY <1>4
  <2> QED
    BY <2>1 DEF RunOf, NextPreRemove, NextPreInstall, NextPostRemove, NextPostInstall, NextPreInstallUnwind,
                NextPreRemoveUnwind, With, queueVars, unwindVars, QueuesOn
<1>5. CASE SelectToUnpack
  <2>1. UNCHANGED triggerVars \/ \E p \in Package : AddInstallTriggers(p, Contents[p][selstat[p].version])
    BY <1>0, <1>5 DEF SelectToUnpack, TypeInv, TypeOK
  <2> QED
    BY <2>1 DEF AddInstallTriggers, With, triggerVars, queueVars, unwindVars, QueuesOn
<1>6. CASE SelectToRemove
  <2>1. \E p \in Package : AddRemoveTriggers(p, ReadManifest(p))
    BY <1>0, <1>6 DEF SelectToRemove, TypeInv, TypeOK
  <2> QED
    BY <2>1 DEF AddRemoveTriggers, With, unwindVars, QueuesOn
<1> QED
  BY <1>1, <1>2, <1>3, <1>4, <1>5, <1>6, QueueSteps

-------------------------------------------------------------------------------
(* The copies that the post-remove triggers are run from.                  *)

\* Until the copies have been made, and from then on until they are removed.
Copying == state \in PreState \cup {"copy_post_remove"}
Copied  == \/ state \in (ForwardState \ {"copy_post_remove"}) \cup FinalState \cup {"done"}
           \/ commitState \in {"configure", "purge"} \cup (Late \ {"cleanup_triggers", "done"})

CopyOf(p) == [file |-> PostRemoveScript[p], version |-> prevstat[p].version]

\* The script of a post-remove trigger that is queued is to be copied or has been.
CopiedInv ==
  \A p \in postRemove : Plain(p) /\ Settled(p) =>
    /\ Copying => PostRemoveScript[p] \in postRemoveFilesToCopy \/ CopyOf(p) \in saved
    /\ Copied => CopyOf(p) \in saved

CopiedOnce == \A c, d \in saved : c.file = d.file => c = d

LEMMA CopiesStill ==
  [CommitNext]_allVars =>
    \/ UNCHANGED saved
    \/ \E f, v : CopyPostRemoveFile(f, v)
    \/ \E f : saved' = {c \in saved : c.file # f}
<1> SUFFICES ASSUME [CommitNext]_allVars, ~UNCHANGED saved
             PROVE  (\E f, v : CopyPostRemoveFile(f, v)) \/ \E f : saved' = {c \in saved : c.file # f}
  OBVIOUS
<1>1. CASE UnpackPoll
  <2>1. CASE SaveTrigger \/ UnwindSaveTrigger
    BY <2>1 DEF SaveTrigger, UnwindSaveTrigger, CopyPostRemoveFileFails, RemovePostRemoveFile, RemoveCopy
  <2>2. CASE SelectToUnpack \/ SelectToRemove
    BY <2>2 DEF SelectToUnpack, SelectToRemove, AddInstallTriggers, AddRemoveTriggers, triggerVars, copyVars
  <2>3. CASE PreRemoveTrigger \/ PreInstallTrigger \/ UnwindPreInstallTrigger \/ UnwindPreRemoveTrigger
    BY <2>3 DEF PreRemoveTrigger, PreInstallTrigger, UnwindPreInstallTrigger, UnwindPreRemoveTrigger,
       TriggerSucceeded,
                TriggerFailed, DropTrigger, NextPreRemove, NextPreInstall, NextPreInstallUnwind,
                NextPreRemoveUnwind,
                copyVars
  <2>4. CASE FilePoll \/ SaveTriggersDone \/ PreRemoveTriggersDone \/ PreInstallTriggersDone
             \/ UnwindPreInstallTriggersDone \/ UnwindPreRemoveTriggersDone \/ UnwindSaveTriggersDone
    BY <2>4 DEF FilePoll, SaveTriggersDone, PreRemoveTriggersDone, PreInstallTriggersDone,
                UnwindPreInstallTriggersDone, UnwindPreRemoveTriggersDone, UnwindSaveTriggersDone,
                triggerVars, copyVars
  <2> QED
    BY <1>1, <2>1, <2>2, <2>3, <2>4 DEF UnpackPoll
<1>2. CASE CleanupTrigger
  BY <1>2 DEF CleanupTrigger, RemovePostRemoveFile, RemoveCopy
<1>3. CASE StatusStep \/ UnpackBegin \/ UnpackEnded \/ UnpackFailed \/ CommitCrash \/ CommitBegin
  BY <1>3 DEF StatusStep, ConfigurePackage, ConfigureDone, PurgePackage, PurgeDone, SaveStatus, UnpackBegin,
              UnpackEnded, UnpackFailed, CommitCrash, CommitBegin, DropTriggers, triggerVars, copyVars
<1>4. CASE StillStep /\ ~CleanupTrigger
  BY <1>4 DEF StillStep, Paths, PreDownloadPackage, PreDownloadDone, DownloadPackage, DownloadDone,
              DownloadsDone, DownloadEnds, UpdateSystem, PostTrigger, PostTriggersDone, CleanupTriggersDone,
              CommitFinish,
              TriggerCallback, TriggerEnds, NextPostRemove, NextPostInstall, DropTrigger, DropTriggers,
              Goto, allVars,
              triggerVars, copyVars
<1> QED
  BY <1>1, <1>2, <1>3, <1>4 DEF CommitNext, CommitPoll, StillStep, StatusStep

LEMMA CopiedOnceNext == CopiedOnce /\ [CommitNext]_allVars => CopiedOnce'
<1> SUFFICES ASSUME CopiedOnce, [CommitNext]_allVars PROVE CopiedOnce'
  OBVIOUS
<1>1. ASSUME NEW f, NEW v, CopyPostRemoveFile(f, v) PROVE CopiedOnce'
  BY <1>1 DEF CopyPostRemoveFile, CopiedOnce
<1> QED
  BY <1>1, CopiesStill DEF CopiedOnce

\* The polls that have nothing to do with triggers make no copies.
LEMMA FileCopies ==
  ASSUME TypeInv, FilePoll
  PROVE  state # "copy_post_remove" /\ (state \in PreState /\ state' \in Ahead => state' \in BeforeRun)
<1>1. state # "copy_post_remove"
  BY DEF FilePoll, FinalPoll, PreUnpackCheckFile, PreUnpackCheckEmptyDir, PreUnpackDone, PreRemoveDone,
         RemoveFilesReplacedByDirs, UnpackFile, UnpackSelectPackage, UnpackDone, ReplaceFile,
         ReplaceCheckEmptyDir,
         ReplaceDone, RemoveFile, RemoveDir, RemoveDone, PostRemoveFile, PostRemovePackage, PostRemoveDone,
         CreateEmptyDir, CreateEmptyDirsDone, PostUnpackPackage, PostUnpackDone, UnwindCreateEmptyDir,
         UnwindCreateEmptyDirsDone, UnwindReplaceFile, UnwindReplaceDone, UnwindRemoveDir, UnwindRemoveDone,
         UnwindUnpackFile, UnwindUnpackPackage, UnwindUnpackDone, UnwindRemoveFilesReplacedByDirs,
         UnwindPreRemovePackage, UnwindPreRemoveDone, UnwindPreUnpackPackage, UnwindPreUnpackDone
<1>2. ASSUME state \in PreState, state' \in Ahead PROVE state' \in BeforeRun
  <2>1. Poll
    BY DEF FilePoll, Poll, PrePoll, ForwardPoll, UnwindPoll
  <2>2. state' # "fail"
    BY <1>2 DEF Ahead, PreState, ForwardState, FinalState
  <2>3. CASE SetsStill
    BY <1>2, <2>2, <2>3 DEF SetsStill, Advances, PreState, BeforeRun
  <2>4. CASE PreUnpackCheckFile \/ PreUnpackSelectPackage \/ PreRemoveSelectPackage \/ PreRemoveDone
    BY <1>2, <2>2, <2>4, ExceptionValues
       DEF PreUnpackCheckFile, PreUnpackSelectPackage, PreRemoveSelectPackage, PreRemoveDone, ThrowPre,
       Throw, BeforeRun
  <2> QED
    BY <1>2, <2>1, <2>3, <2>4, PrePolls
<1> QED
  BY <1>1, <1>2

\* The states of commit in which the copies are there.
Keeping == {"configure", "purge"} \cup (Late \ {"cleanup_triggers", "done"})

LEMMA StillCopies ==
  ASSUME StillStep, ~CommitFinish, commitState # "cleanup_triggers"
  PROVE  /\ postRemove' \subseteq postRemove /\ UNCHANGED <<postRemoveFilesToCopy, saved>>
         /\ commitState' \in Keeping => commitState \in Keeping
<1>1. CASE PostTrigger
  BY <1>1 DEF PostTrigger, NextPostRemove, NextPostInstall, DropTrigger, queueVars, copyVars, commitVars
<1>2. CASE TriggerCallback \/ UNCHANGED allVars
  BY <1>2 DEF TriggerCallback, TriggerEnds, allVars, triggerVars, commitVars, queueVars, copyVars
<1>3. CASE StillStep /\ ~PostTrigger /\ ~TriggerCallback /\ ~UNCHANGED allVars
  <2>1. UNCHANGED triggerVars
    BY <1>3 DEF StillStep, Paths, PreDownloadPackage, PreDownloadDone, DownloadPackage, DownloadDone,
       DownloadsDone,
                DownloadEnds, UpdateSystem, PostTriggersDone, CleanupTriggersDone, CleanupTrigger, Goto
  <2>2. commitState' \in Keeping => commitState \in Keeping
    BY <1>3 DEF StillStep, Paths, PreDownloadPackage, PreDownloadDone, DownloadPackage, DownloadDone,
       DownloadsDone,
                DownloadEnds, UpdateSystem, PostTriggersDone, CleanupTriggersDone, CleanupTrigger, Goto,
                Keeping, Late
  <2> QED
    BY <2>1, <2>2 DEF triggerVars, queueVars, copyVars
<1> QED
  BY <1>1, <1>2, <1>3

\* A step that makes no copies and queues no post-remove trigger.
CopiesKept ==
  /\ postRemove' \subseteq postRemove /\ UNCHANGED <<postRemoveFilesToCopy, saved>>
  /\ (Copying' => Copying) /\ (Copied' => Copied)

LEMMA PollCopies ==
  ASSUME CommitInv, UnpackPoll, Copying' \/ Copied', ~SelectToRemove, ~SaveTrigger, ~SaveTriggersDone
  PROVE  CopiesKept
<1>0. commitState = "unpack" /\ commitState' = "unpack" /\ TypeInv /\ Narrows
  BY UnpackPollNarrows DEF CommitInv, VerifiedInv, OneUnpack, UnpackPoll, commitVars, Narrows
<1>1. /\ Ahead = PreState \cup ForwardState \cup FinalState \cup {"done"} /\ BeforeRun = PreState \cup {"copy_post_remove"}
      /\ PreState \cap ((ForwardState \ {"copy_post_remove"}) \cup FinalState \cup {"done"}) = {}
  BY DEF Ahead, BeforeRun, PreState, ForwardState, FinalState
<1>2. /\ Copying <=> state \in BeforeRun
      /\ Copied <=> state \in Ahead \ BeforeRun
      /\ Copying' <=> state' \in BeforeRun
      /\ Copied' <=> state' \in Ahead \ BeforeRun
  <2>1. commitState \notin {"configure", "purge"} \cup (Late \ {"cleanup_triggers", "done"})
    BY <1>0 DEF Late
  <2>2. Ahead \ BeforeRun = (ForwardState \ {"copy_post_remove"}) \cup FinalState \cup {"done"}
    BY <1>1 DEF PreState, ForwardState, FinalState
  <2>3. (Copying <=> state \in BeforeRun) /\ (Copying' <=> state' \in BeforeRun)
    BY <1>1 DEF Copying
  <2>4. (Copied <=> state \in Ahead \ BeforeRun) /\ (Copied' <=> state' \in Ahead \ BeforeRun)
    BY <1>0, <2>1, <2>2 DEF Copied
  <2> QED
    BY <2>3, <2>4
<1>3. state' \in Ahead /\ state \in Ahead
  <2>1. BeforeRun \subseteq Ahead
    BY DEF Ahead, BeforeRun, PreState, ForwardState
  <2>2. state' \in Ahead
    BY <1>2, <2>1
  <2> QED
    BY <1>0, <2>2 DEF Narrows
<1>4. Copying' => Copying
  BY <1>0, <1>2 DEF Narrows
<1>5. CASE FilePoll
  <2>1. UNCHANGED triggerVars
    BY <1>5 DEF FilePoll
  <2>2. Copied' => Copied
    BY <1>0, <1>1, <1>2, <1>3, <1>5, FileCopies
  <2> QED
    BY <1>4, <2>1, <2>2 DEF triggerVars, queueVars, copyVars, CopiesKept
<1>6. CASE SelectToUnpack
  <2>1. UNCHANGED <<postRemove, postRemoveFilesToCopy, saved>>
    BY <1>6 DEF SelectToUnpack, AddInstallTriggers, triggerVars, queueVars, copyVars
  <2>2. ~Copied'
    BY <1>1, <1>2, <1>3, <1>6, SelectMoves DEF Ahead, PreState, ForwardState, FinalState
  <2> QED
    BY <1>4, <2>1, <2>2 DEF CopiesKept
<1>7. CASE PreRemoveTrigger \/ PreInstallTrigger \/ PreRemoveTriggersDone \/ PreInstallTriggersDone
  <2>1. UNCHANGED <<postRemove, postRemoveFilesToCopy, saved>>
    BY <1>7 DEF PreRemoveTrigger, PreInstallTrigger, PreRemoveTriggersDone, PreInstallTriggersDone,
       TriggerSucceeded,
                TriggerFailed, DropTrigger, NextPreRemove, NextPreInstall, triggerVars, queueVars, copyVars
  <2>2. state \in {"run_pre_remove_triggers", "run_pre_install_triggers"}
    BY <1>7 DEF PreRemoveTrigger, PreInstallTrigger, PreRemoveTriggersDone, PreInstallTriggersDone,
       TriggerSucceeded,
                TriggerFailed, RunPreRemoveTriggers, RunPreInstallTriggers, Verdict
  <2>3. Copied
    BY <2>2 DEF Copied, ForwardState
  <2> QED
    BY <1>4, <2>1, <2>3 DEF CopiesKept
<1>8. CASE \/ UnwindPreInstallTrigger \/ UnwindPreInstallTriggersDone \/ UnwindPreRemoveTrigger
           \/ UnwindPreRemoveTriggersDone \/ UnwindSaveTrigger \/ UnwindSaveTriggersDone
  <2>1. state \in {"unwind_pre_install_triggers", "unwind_pre_remove_triggers", "unwind_copy_post_remove"}
    BY <1>8 DEF UnwindPreInstallTrigger, UnwindPreInstallTriggersDone, UnwindPreRemoveTrigger,
       UnwindPreRemoveTriggersDone,
                UnwindSaveTrigger, UnwindSaveTriggersDone, UnwindPreInstallTriggers, UnwindPreRemoveTriggers,
                UnwindCopyPostRemove
  <2> QED
    BY <1>3, <2>1 DEF Ahead, PreState, ForwardState, FinalState
<1> QED
  BY <1>5, <1>6, <1>7, <1>8 DEF UnpackPoll

LEMMA CopySteps ==
  ASSUME CommitInv, [CommitNext]_allVars, Copying' \/ Copied'
  PROVE  UnpackBegin \/ CopiesKept \/ (UnpackPoll /\ (SelectToRemove \/ SaveTrigger \/ SaveTriggersDone))
<1>0. OneUnpack /\ TypeInv
  BY DEF CommitInv, VerifiedInv
<1>1. /\ Copying => state # "idle" /\ commitState = "unpack"
      /\ Copying' => state' # "idle"
      /\ Copied <=> state \in (ForwardState \ {"copy_post_remove"}) \cup FinalState \cup {"done"} \/ commitState \in Keeping
      /\ Copied' <=> state' \in (ForwardState \ {"copy_post_remove"}) \cup FinalState \cup {"done"} \/ commitState' \in Keeping
  BY <1>0 DEF Copying, Copied, Keeping, PreState, OneUnpack
<1>2. CASE UnpackPoll
  BY <1>2, PollCopies
<1>3. CASE StillStep
  <2>1. state' = state
    BY <1>3, StillSteps DEF Still
  <2>2. ~CommitFinish /\ commitState # "cleanup_triggers"
    <3>1. CASE state = "idle"
      <4>1. commitState' \in Keeping
        BY <1>1, <2>1, <3>1 DEF ForwardState, FinalState
      <4> QED
        BY <1>3, <4>1, StillCommits DEF CommitFinish, Keeping, Late, StillStep, Paths, PreDownloadPackage,
              PreDownloadDone, DownloadPackage, DownloadDone, DownloadsDone, DownloadEnds, UpdateSystem,
              PostTrigger,
              PostTriggersDone, CleanupTrigger, CleanupTriggersDone, TriggerCallback, Goto, allVars, commitVars
    <3>2. CASE state # "idle"
      BY <1>0, <3>2 DEF OneUnpack, CommitFinish
    <3> QED
      BY <3>1, <3>2
  <2> QED
    BY <1>1, <1>3, <2>1, <2>2, StillCopies DEF CopiesKept, Copying
<1>4. CASE StatusStep
  <2>1. commitState \in Keeping /\ state' = state /\ state = "idle"
    BY <1>4, StatusSteps DEF Keeping
  <2>2. UNCHANGED triggerVars
    BY <1>4 DEF StatusStep, ConfigurePackage, ConfigureDone, PurgePackage, PurgeDone, SaveStatus
  <2> QED
    BY <1>1, <2>1, <2>2 DEF CopiesKept, triggerVars, queueVars, copyVars
<1>5. CASE UnpackEnded
  <2>1. Copied /\ UNCHANGED triggerVars /\ state' = "idle"
    BY <1>5 DEF UnpackEnded, Finish, NoSession, Copied
  <2> QED
    BY <1>1, <2>1 DEF CopiesKept, triggerVars, queueVars, copyVars
<1>6. CASE UnpackFailed \/ CommitCrash \/ CommitBegin
  BY <1>0, <1>1, <1>6 DEF UnpackFailed, CommitCrash, CommitBegin, Finish, NoSession, OneUnpack, Keeping,
     Late, ForwardState,
                          FinalState
<1> QED
  BY <1>2, <1>3, <1>4, <1>5, <1>6 DEF CommitNext, CommitPoll, StillStep, StatusStep

CopiedWhole == Guarded /\ Whole /\ TriggersGuard => CopiedInv

LEMMA CopiedNext ==
  SafeInv /\ QueuesInv /\ QueuesOn /\ CopiedWhole /\ [CommitNext]_allVars => CopiedWhole'
<1> SUFFICES ASSUME SafeInv, QueuesInv, QueuesOn, CopiedWhole, [CommitNext]_allVars,
                    Guarded', Whole', TriggersGuard', Copying' \/ Copied',
                    NEW p \in postRemove', Plain(p), Settled(p)'
             PROVE  /\ Copying' => PostRemoveScript[p] \in postRemoveFilesToCopy' \/ CopyOf(p)' \in saved'
                    /\ Copied' => CopyOf(p)' \in saved'
  BY DEF CopiedWhole, CopiedInv, Plain
<1>0. /\ OperationInv /\ CommitInv /\ EmptyInv /\ KeepInv /\ Whole /\ TriggersGuard /\ CopiedInv /\ OneUnpack
  BY WholeBefore, SessionsCount
     DEF SafeInv, KeptWhole, CopiedWhole, OperationInv, TriggersGuard, QueuesInv, CommitInv, VerifiedInv
<1>1. CASE UnpackBegin
  <2>1. postRemove' = {}
    BY <1>0, <1>1 DEF UnpackBegin, triggerVars, queueVars, EmptyInv, NoQueues, Before
  <2> QED
    BY <2>1
<1>2. CASE ~UnpackBegin
  <2>1. Underway'
    <3>1. OneUnpack'
      BY <1>0, CommitInvNext DEF CommitInv, VerifiedInv
    <3> QED
      BY <3>1 DEF Copying, Copied, Underway, OneUnpack, PreState, ForwardState, FinalState
  <2>2. Underway /\ UNCHANGED <<sessions, prevstat, selstat>>
    BY <1>2, <2>1, StillUnderway
  <2>3. Settled(p) /\ CopyOf(p)' = CopyOf(p)
    BY <2>2 DEF Settled, CopyOf
  <2>4. CASE CopiesKept
    BY <1>0, <2>3, <2>4 DEF CopiesKept, CopiedInv
  <2>5. CASE UnpackPoll /\ SelectToRemove
    <3>1. PICK q : AddRemoveTriggers(q, ReadManifest(q))
      BY <2>5 DEF SelectToRemove
    <3>2. ~Copied' /\ Copying
      <4>1. state \in PreState /\ state' \in PreState \cup {"fail"}
        BY <2>5, SelectMoves
      <4>2. commitState' = "unpack"
        BY <1>0, <2>5, <4>1 DEF UnpackPoll, commitVars, OneUnpack, PreState
      <4> QED
        BY <4>1, <4>2 DEF Copied, Copying, PreState, ForwardState, FinalState, Late
    <3>3. CASE p \in postRemove
      BY <1>0, <2>3, <3>1, <3>2, <3>3 DEF AddRemoveTriggers, CopiedInv
    <3>4. CASE p \notin postRemove
      BY <3>1, <3>2, <3>4 DEF AddRemoveTriggers, Scripts
    <3> QED
      BY <3>3, <3>4
  <2>6. CASE UnpackPoll /\ SaveTrigger
    <3>1. PICK f \in postRemoveFilesToCopy :
            \/ dst[f] # NoFile /\ CopyPostRemoveFile(f, dst[f].version) /\ UNCHANGED vars
            \/ state' = "unwind_copy_post_remove"
      BY <2>6 DEF SaveTrigger, Progress
    <3>2. state = "copy_post_remove" /\ commitState' = "unpack" /\ Copying
      BY <1>0, <2>6 DEF SaveTrigger, UnpackPoll, commitVars, OneUnpack, Copying
    <3>3. state' = "copy_post_remove" /\ CopyPostRemoveFile(f, dst[f].version)
      <4>1. state' # "unwind_copy_post_remove"
        BY <3>2 DEF Copying, Copied, PreState, ForwardState, FinalState, Late
      <4> QED
        BY <3>1, <3>2, <4>1 DEF vars
    <3>4. ~Copied' /\ p \in postRemove
      BY <3>2, <3>3 DEF Copied, CopyPostRemoveFile, queueVars, PreState, ForwardState, FinalState, Late
    <3>5. CASE PostRemoveScript[p] # f
      BY <1>0, <2>3, <3>2, <3>3, <3>4, <3>5 DEF CopiedInv, CopyPostRemoveFile, CopyOf
    <3>6. CASE PostRemoveScript[p] = f
      <4>1. p \in Package /\ f \in File
        BY <3>4, <3>6, CommitAssumption DEF QueuesOn
      <4>2. Queued(p)
        BY <1>0, <2>2, <2>3, <4>1 DEF QueuesInv, QueuedInv
      <4>3. f \in OldFiles(p)
        BY <3>4, <3>6, <4>2 DEF Queued
      <4>4. state \in ForwardState \ {"replace", "remove"}
        BY <3>2 DEF ForwardState
      <4>5. dst[f].version = prevstat[p].version
        <5>1. state \in PreState \cup (ForwardState \ {"replace", "remove"}) \cup {"unwind_pre_remove_triggers"}
          BY <4>4
        <5>2. dst[f] = [owner |-> p, version |-> prevstat[p].version]
          BY <1>0, <4>1, <4>3, <5>1, OldInPlace
        <5> QED
          BY <5>2
      <4> QED
        BY <2>3, <3>3, <3>4, <3>6, <4>5 DEF CopyPostRemoveFile, CopyOf
    <3> QED
      BY <3>5, <3>6
  <2>7. CASE UnpackPoll /\ SaveTriggersDone
    <3>1. postRemoveFilesToCopy = {} /\ UNCHANGED triggerVars /\ Copying
      BY <2>7 DEF SaveTriggersDone, CopyPostRemove, Verdict, Copying
    <3> QED
      BY <1>0, <2>3, <3>1 DEF CopiedInv, triggerVars, queueVars, copyVars
  <2> QED
    BY <1>0, <1>2, <2>4, <2>5, <2>6, <2>7, CopySteps
<1> QED
  BY <1>1, <1>2

-------------------------------------------------------------------------------
(* What a trigger finds.                                                   *)

\* The next trigger of package q is run, of what is found there and then.
RunFound(q) ==
  \/ state = "run_pre_remove_triggers" /\ NextPreRemove(q, Found("pre_remove", q))
  \/ state = "run_pre_install_triggers" /\ NextPreInstall(q, Found("pre_install", q))
  \/ state = "unwind_pre_install_triggers" /\ NextPreInstallUnwind(q, Found("abort_pre_install", q))
  \/ state = "unwind_pre_remove_triggers" /\ NextPreRemoveUnwind(q, Found("abort_pre_remove", q))
  \/ commitState = "post_remove_triggers" /\ NextPostRemove(q, Found("post_remove", q))
  \/ commitState = "post_install_triggers" /\ NextPostInstall(q, Found("post_install", q))

LEMMA RanSteps ==
  [CommitNext]_allVars =>
    UNCHANGED ran \/ CommitBegin \/ (UNCHANGED <<vars, commitVars>> /\ \E q : RunFound(q))
<1> SUFFICES ASSUME [CommitNext]_allVars, ~UNCHANGED ran, ~CommitBegin
             PROVE  UNCHANGED <<vars, commitVars>> /\ \E q : RunFound(q)
  OBVIOUS
<1>1. CASE UnpackPoll
  <2>1. ~SelectToUnpack /\ ~SelectToRemove
    BY DEF SelectToUnpack, SelectToRemove, AddInstallTriggers, AddRemoveTriggers, triggerVars
  <2>2. NextTrigger /\ UNCHANGED vars
    BY <1>1, <2>1, TriggerQueues DEF QueuesStill
  <2>3. \E q : RunFound(q)
    BY <2>2 DEF NextTrigger, RunFound
  <2> QED
    BY <1>1, <2>2, <2>3 DEF UnpackPoll
<1>2. CASE StillStep /\ ~CommitFinish
  BY <1>2, CommitQueues DEF QueuesStill, RunFound
<1>3. CASE StatusStep \/ UnpackBegin \/ UnpackEnded \/ UnpackFailed \/ CommitFinish \/ CommitCrash
  BY <1>3 DEF StatusStep, ConfigurePackage, ConfigureDone, PurgePackage, PurgeDone, SaveStatus, UnpackBegin,
     UnpackEnded,
              UnpackFailed, CommitFinish, CommitCrash, DropTriggers, triggerVars
<1> QED
  BY <1>1, <1>2, <1>3 DEF CommitNext, CommitPoll, StillStep, StatusStep

\* What is selected, and what was there, stand until the next operation.
LEMMA SelectionStands ==
  CommitInv /\ [CommitNext]_allVars => CommitBegin \/ UNCHANGED <<prevstat, selstat>>
<1> SUFFICES ASSUME CommitInv, [CommitNext]_allVars, ~CommitBegin PROVE UNCHANGED <<prevstat, selstat>>
  OBVIOUS
<1>1. CASE UnpackPoll
  BY <1>1, FileMoves, TriggerMoves, SelectMoves
<1>2. CASE StatusStep \/ StillStep
  BY <1>2, StatusSteps, StillSteps DEF Still, sessionVars
<1>3. CASE UnpackBegin \/ UnpackEnded \/ UnpackFailed \/ CommitCrash
  BY <1>3 DEF UnpackBegin, UnpackEnded, UnpackFailed, CommitCrash, Finish, NoSession, sessionVars
<1> QED
  BY <1>1, <1>2, <1>3 DEF CommitNext, CommitPoll, StillStep, StatusStep

\* The version that a trigger should find.
Wanted(action, p) ==
  IF action \in {"pre_remove", "post_remove",
  "abort_pre_remove"} THEN prevstat[p].version ELSE selstat[p].version

ScriptsInv == SafeInv /\ QueuesInv /\ ReadyWhole /\ QueuesOn /\ CopiedOnce /\ CopiedWhole
ScriptsGuard == Guarded /\ Whole /\ TriggersGuard

LEMMA VersionIs == \A p \in Package, v \in Version : VersionOf([owner |-> p, version |-> v]) = v
<1> SUFFICES ASSUME NEW p \in Package, NEW v \in Version PROVE VersionOf([owner |-> p, version |-> v]) = v
  OBVIOUS
<1>1. [owner |-> p, version |-> v] # NoFile
  BY NewFile, UnpackAssumption
<1> QED
  BY <1>1 DEF VersionOf

\* What is to be unpacked has a version, and so have the files that a package had.
LEMMA SelectedVersion ==
  ASSUME OperationInv, state # "idle", NEW p \in Package, Upgrade(p)
  PROVE  selstat[p].version \in Version
<1>1. FirstInv /\ sessions \in Nat
  BY DEF OperationInv, SideInv, CommitInv, TypeInv, TypeOK
<1>2. selstat \in Selections
  BY <1>1 DEF FirstInv
<1> QED
  BY <1>2, StatusesType DEF Upgrade, UnpackReq

LEMMA OldVersion ==
  ASSUME OperationInv, NEW p \in Package, OldFiles(p) # {}
  PROVE  prevstat[p].version \in Version
<1>1. KeptInv /\ prevstat[p].state = installed
  BY DEF OperationInv, SideInv, OldFiles
<1> QED
  BY <1>1 DEF KeptInv, installed, unpacked

\* What is known of a package whose trigger is about to be run.
LEMMA TriggerQueued ==
  ASSUME ScriptsInv, ScriptsGuard, ModulesHaveNoTriggers, NEW q, RunFound(q)
  PROVE  q \in Package /\ Plain(q) /\ (Settled(q) => Queued(q))
<1>1. q \in Package
  BY DEF ScriptsInv, QueuesOn, RunFound, NextPreRemove, NextPreInstall, NextPreInstallUnwind,
     NextPreRemoveUnwind,
         NextPostRemove, NextPostInstall
<1>2. Plain(q)
  <2> SUFFICES ASSUME ~Plain(q) PROVE FALSE
    OBVIOUS
  <2>1. NoneQueued(q)
    BY <1>1 DEF ScriptsInv, QueuesInv, ModulesInv
  <2> QED
    BY <2>1 DEF NoneQueued, RunFound, NextPreRemove, NextPreInstall, NextPreInstallUnwind, NextPreRemoveUnwind,
                NextPostRemove, NextPostInstall
<1>3. Underway
  <2>1. OneUnpack
    BY DEF ScriptsInv, QueuesInv, OrderInv
  <2> QED
    BY <2>1 DEF Underway, OneUnpack, Late, RunFound
<1> QED
  BY <1>1, <1>2, <1>3 DEF ScriptsInv, ScriptsGuard, QueuesInv, QueuedInv

LEMMA FoundRemove ==
  ASSUME ScriptsInv, ScriptsGuard, NEW q \in Package, Plain(q), Settled(q), Queued(q)
  PROVE  /\ state = "run_pre_remove_triggers" /\ q \in preRemove => Found("pre_remove", q) = prevstat[q].version
         /\ state = "unwind_pre_remove_triggers" /\ q \in preRemoveUnwind =>
              Found("abort_pre_remove", q) = prevstat[q].version
<1>0. OperationInv /\ KeepInv /\ Whole
  BY DEF ScriptsInv, ScriptsGuard, SafeInv, KeptWhole
<1>1. ASSUME state = "run_pre_remove_triggers", q \in preRemove
      PROVE  Found("pre_remove", q) = prevstat[q].version
  <2>1. PreRemoveScript[q] \in File /\ PreRemoveScript[q] \in OldFiles(q)
    BY <1>1, CommitAssumption DEF Queued
  <2>2. state \in PreState \cup (ForwardState \ {"replace", "remove"}) \cup {"unwind_pre_remove_triggers"}
    BY <1>1 DEF ForwardState
  <2>3. dst[PreRemoveScript[q]] = [owner |-> q, version |-> prevstat[q].version] /\ prevstat[q].version \in Version
    BY <1>0, <2>1, <2>2, OldInPlace, OldVersion
  <2> QED
    BY <2>3, VersionIs DEF Found
<1>2. ASSUME state = "unwind_pre_remove_triggers", q \in preRemoveUnwind
      PROVE  Found("abort_pre_remove", q) = prevstat[q].version
  <2>1. PostInstallScript[q] \in File /\ PostInstallScript[q] \in OldFiles(q)
    BY <1>2, CommitAssumption DEF Queued
  <2>2. state \in PreState \cup (ForwardState \ {"replace", "remove"}) \cup {"unwind_pre_remove_triggers"}
    BY <1>2
  <2>3. dst[PostInstallScript[q]] = [owner |-> q, version |-> prevstat[q].version] /\ prevstat[q].version \in Version
    BY <1>0, <2>1, <2>2, OldInPlace, OldVersion
  <2> QED
    BY <2>3, VersionIs DEF Found
<1> QED
  BY <1>1, <1>2

LEMMA FoundInstall ==
  ASSUME ScriptsInv, ScriptsGuard, NEW q \in Package, Plain(q), Settled(q), Queued(q)
  PROVE  /\ state = "run_pre_install_triggers" /\ q \in preInstall => Found("pre_install", q) = selstat[q].version
         /\ state = "unwind_pre_install_triggers" /\ q \in preInstallUnwind =>
              Found("abort_pre_install", q) = selstat[q].version
<1>0. OperationInv /\ KeepInv /\ TmpInv
  BY DEF ScriptsInv, ScriptsGuard, SafeInv, KeptWhole, ReadyWhole, ReadyInv
<1>1. ASSUME state = "run_pre_install_triggers", q \in preInstall
      PROVE  Found("pre_install", q) = selstat[q].version
  <2>1. PreInstallScript[q] \in File /\ Upgrade(q) /\ PreInstallScript[q] \in Contents[q][selstat[q].version]
    BY <1>1, CommitAssumption DEF Queued, Come, Archive
  <2>2. AllTmp
    BY <1>0, <1>1, TmpThere
  <2>3. tmp[PreInstallScript[q]] = [owner |-> q, version |-> selstat[q].version]
    BY <2>1, <2>2 DEF AllTmp, FilesOf
  <2>4. selstat[q].version \in Version
    BY <1>0, <1>1, <2>1, SelectedVersion
  <2> QED
    BY <2>3, <2>4, VersionIs DEF Found
<1>2. ASSUME state = "unwind_pre_install_triggers", q \in preInstallUnwind
      PROVE  Found("abort_pre_install", q) = selstat[q].version
  <2>1. PostRemoveScript[q] \in File /\ Upgrade(q) /\ PostRemoveScript[q] \in Contents[q][selstat[q].version]
    BY <1>2, CommitAssumption DEF Queued, Archive
  <2>2. AllTmp
    BY <1>0, <1>2 DEF TmpInv
  <2>3. tmp[PostRemoveScript[q]] = [owner |-> q, version |-> selstat[q].version]
    BY <2>1, <2>2 DEF AllTmp, FilesOf
  <2>4. selstat[q].version \in Version
    BY <1>0, <1>2, <2>1, SelectedVersion
  <2> QED
    BY <2>3, <2>4, VersionIs DEF Found
<1> QED
  BY <1>1, <1>2

LEMMA FoundPostRemove ==
  ASSUME ScriptsInv, ScriptsGuard, NEW q \in Package, Plain(q), Settled(q), q \in postRemove,
         commitState = "post_remove_triggers"
  PROVE  Found("post_remove", q) = prevstat[q].version
<1>1. CopyOf(q) \in saved
  BY DEF ScriptsInv, ScriptsGuard, CopiedWhole, CopiedInv, Copied, Late
<1>2. CopyOf(q).file = PostRemoveScript[q] /\ CopyOf(q).version = prevstat[q].version
  BY DEF CopyOf
<1> DEFINE copies == {c \in saved : c.file = PostRemoveScript[q]}
<1>3. copies = {CopyOf(q)}
  <2>1. CopyOf(q) \in copies
    BY <1>1, <1>2
  <2>2. \A c \in copies : c = CopyOf(q)
    BY <1>1, <1>2 DEF ScriptsInv, CopiedOnce
  <2> HIDE DEF copies
  <2> QED
    BY <2>1, <2>2
<1>4. Found("post_remove", q) = IF copies = {} THEN 0 ELSE (CHOOSE c \in copies : TRUE).version
  BY DEF Found
<1> HIDE DEF copies
<1>5. (CHOOSE c \in copies : TRUE) \in copies
  BY <1>3
<1> QED
  BY <1>2, <1>3, <1>4, <1>5

LEMMA FoundPostInstall ==
  ASSUME ScriptsInv, ScriptsGuard, NEW q \in Package, Plain(q), Settled(q), Queued(q), q \in postInstall,
         commitState = "post_install_triggers"
  PROVE  Found("post_install", q) = selstat[q].version
<1>0. /\ CommitInv /\ OnDisk /\ KeptInv /\ OneUnpack
  BY DEF ScriptsInv, ScriptsGuard, SafeInv, KeptWhole, KeepInv, OperationInv, SideInv, CommitInv, VerifiedInv
<1>1. PostInstallScript[q] \in File /\ Upgrade(q) /\ PostInstallScript[q] \in Contents[q][selstat[q].version]
  BY CommitAssumption DEF Queued, Come, Archive
<1>2. selstat[q].state = installed
  BY <1>0, <1>1, StatusFacts
     DEF CommitInv, SessionInv, SelectedStates, Upgrade, UnpackReq, not_present, removed, unpacked, installed
<1>3. curstat[q].state >= unpacked /\ curstat[q].version = selstat[q].version
  BY <1>0, <1>2 DEF CommitInv, Finishing, Late, Unpacked, ByModule, Plain
<1>4. curstat = disk
  BY <1>0 DEF CommitInv, BetweenSessions, OneUnpack
<1>5. selstat[q].version \in Version /\ Intact(dst, q, selstat[q].version)
  BY <1>0, <1>3, <1>4 DEF KeptInv, OnDisk
<1>6. ModuleFile[q] \notin Contents[q][selstat[q].version]
  BY <1>5, UnpackAssumption DEF Plain
<1>7. dst[PostInstallScript[q]] = [owner |-> q, version |-> selstat[q].version]
  BY <1>1, <1>5, <1>6 DEF Intact, FilesOf
<1> QED
  BY <1>5, <1>7, VersionIs DEF Found

LEMMA FoundIsWanted ==
  ASSUME ScriptsInv, ScriptsGuard, ModulesHaveNoTriggers, NEW q, RunFound(q), Settled(q)
  PROVE  \E action : RunTrigger(action, q, Wanted(action, q))
<1>1. q \in Package /\ Plain(q) /\ Queued(q)
  BY TriggerQueued
<1>2. CASE state = "run_pre_remove_triggers" /\ NextPreRemove(q, Found("pre_remove", q))
  <2>1. Found("pre_remove", q) = Wanted("pre_remove", q)
    BY <1>1, <1>2, FoundRemove DEF NextPreRemove, Wanted
  <2> QED
    BY <1>2, <2>1 DEF NextPreRemove
<1>3. CASE state = "run_pre_install_triggers" /\ NextPreInstall(q, Found("pre_install", q))
  <2>1. Found("pre_install", q) = Wanted("pre_install", q)
    BY <1>1, <1>3, FoundInstall DEF NextPreInstall, Wanted
  <2> QED
    BY <1>3, <2>1 DEF NextPreInstall
<1>4. CASE state = "unwind_pre_install_triggers" /\ NextPreInstallUnwind(q, Found("abort_pre_install", q))
  <2>1. Found("abort_pre_install", q) = Wanted("abort_pre_install", q)
    BY <1>1, <1>4, FoundInstall DEF NextPreInstallUnwind, Wanted
  <2> QED
    BY <1>4, <2>1 DEF NextPreInstallUnwind
<1>5. CASE state = "unwind_pre_remove_triggers" /\ NextPreRemoveUnwind(q, Found("abort_pre_remove", q))
  <2>1. Found("abort_pre_remove", q) = Wanted("abort_pre_remove", q)
    BY <1>1, <1>5, FoundRemove DEF NextPreRemoveUnwind, Wanted
  <2> QED
    BY <1>5, <2>1 DEF NextPreRemoveUnwind
<1>6. CASE commitState = "post_remove_triggers" /\ NextPostRemove(q, Found("post_remove", q))
  <2>1. Found("post_remove", q) = Wanted("post_remove", q)
    BY <1>1, <1>6, FoundPostRemove DEF NextPostRemove, Wanted
  <2> QED
    BY <1>6, <2>1 DEF NextPostRemove
<1>7. CASE commitState = "post_install_triggers" /\ NextPostInstall(q, Found("post_install", q))
  <2>1. Found("post_install", q) = Wanted("post_install", q)
    BY <1>1, <1>7, FoundPostInstall DEF NextPostInstall, Wanted
  <2> QED
    BY <1>7, <2>1 DEF NextPostInstall
<1> QED
  BY <1>2, <1>3, <1>4, <1>5, <1>6, <1>7 DEF RunFound

\* Each of the triggers that have been run has found the version it should.
RightVersion(r) == Settled(r.pkg) => r.version = Wanted(r.action, r.pkg)
FoundInv == ScriptsGuard => \A i \in DOMAIN ran : RightVersion(ran[i])

LEMMA FoundNext ==
  ModulesHaveNoTriggers /\ ScriptsInv /\ FoundInv /\ [CommitNext]_allVars => FoundInv'
<1> SUFFICES ASSUME ModulesHaveNoTriggers, ScriptsInv, FoundInv, [CommitNext]_allVars, ScriptsGuard',
                    NEW i \in DOMAIN ran'
             PROVE  RightVersion(ran[i])'
  BY DEF FoundInv
<1>0. ScriptsGuard /\ CommitInv /\ IsSeq
  BY WholeBefore, SessionsCount
     DEF ScriptsInv, ScriptsGuard, TriggersGuard, SafeInv, OperationInv, QueuesInv, OrderInv
<1>1. CASE CommitBegin
  <2>1. DOMAIN ran' = {}
    BY <1>1 DEF CommitBegin
  <2> QED
    BY <2>1
<1>2. CASE ~CommitBegin
  <2>1. UNCHANGED <<prevstat, selstat>>
    BY <1>0, <1>2, SelectionStands
  <2>2. ASSUME NEW r, RightVersion(r), ran'[i] = r PROVE RightVersion(ran[i])'
    BY <2>1, <2>2 DEF RightVersion, Settled, Wanted
  <2>3. ASSUME i \in DOMAIN ran, ran'[i] = ran[i] PROVE RightVersion(ran[i])'
    BY <1>0, <2>2, <2>3 DEF FoundInv
  <2>5. CASE UNCHANGED ran
    BY <2>3, <2>5
  <2>6. CASE \E q : RunFound(q)
    <3>1. PICK q : RunFound(q)
      BY <2>6
    <3>2. PICK action, v : RunTrigger(action, q, v) /\ (Settled(q) => v = Wanted(action, q))
      <4>1. CASE Settled(q)
        BY <1>0, <3>1, <4>1, FoundIsWanted
      <4>2. CASE ~Settled(q)
        BY <3>1, <4>2 DEF RunFound, NextPreRemove, NextPreInstall, NextPreInstallUnwind, NextPreRemoveUnwind,
                          NextPostRemove, NextPostInstall
      <4> QED
        BY <4>1, <4>2
    <3> DEFINE r == [action |-> action, pkg |-> q, version |-> v]
    <3>3. (i \in DOMAIN ran /\ ran'[i] = ran[i]) \/ ran'[i] = r
      <4>1. PICK S : ran \in Seq(S)
        BY <1>0 DEF IsSeq
      <4>2. ran' = Append(ran, r)
        BY <3>2 DEF RunTrigger
      <4> HIDE DEF r
      <4> QED
        BY <4>1, <4>2
    <3>4. RightVersion(r)
      BY <3>2 DEF RightVersion
    <3> HIDE DEF r
    <3> QED
      BY <2>2, <2>3, <3>3, <3>4
  <2> QED
    BY <1>2, <2>5, <2>6, RanSteps
<1> QED
  BY <1>1, <1>2

LEMMA ScriptsInit == Consistent /\ CommitInit => ScriptsInv /\ FoundInv
<1> SUFFICES ASSUME Consistent, CommitInit PROVE ScriptsInv /\ FoundInv
  OBVIOUS
<1>1. state = "idle" /\ TriggersInit
  BY DEF CommitInit, Init
<1>2. ReadyWhole
  BY <1>1, ReadyIdle DEF ReadyWhole
<1>3. QueuesOn /\ CopiedOnce /\ CopiedWhole /\ FoundInv
  <2>1. DOMAIN ran = {}
    BY <1>1 DEF TriggersInit
  <2> QED
    BY <1>1, <2>1 DEF TriggersInit, QueuesOn, CopiedOnce, CopiedWhole, CopiedInv, FoundInv
<1> QED
  BY <1>2, <1>3, SafeInit, QueuesInit DEF ScriptsInv

LEMMA ScriptsNext ==
  Consistent /\ ScriptsInv /\ [CommitNext]_allVars => ScriptsInv'
<1> SUFFICES ASSUME Consistent, ScriptsInv, [CommitNext]_allVars PROVE ScriptsInv'
  OBVIOUS
<1>1. SafeInv' /\ QueuesInv'
  BY SafeNext, QueuesNext DEF ScriptsInv
<1>2. ReadyWhole' /\ CopiedOnce' /\ CopiedWhole'
  BY ReadyNext, CopiedOnceNext, CopiedNext DEF ScriptsInv
<1>3. QueuesOn'
  BY QueuesOnNext DEF ScriptsInv, QueuesInv
<1> QED
  BY <1>1, <1>2, <1>3 DEF ScriptsInv

\* TriggersFindScripts (trigger.cc:77-95, unpack.cc:353-470, :735-826, commit.cc:644-712):
\* every trigger that is run for a settled package, forward or backward, finds its script
\* where it is looked for, and in the version that it is run for; for any packages, scripts,
\* failures and crashes but those that leave a file or a directory out of place.  In the
\* first session, and in every one if no two packages have a file in common and every
\* version of a package has the same triggers.
THEOREM ScriptsAreFound ==
  ASSUME Consistent, ModulesHaveNoTriggers
  PROVE  CommitSpec => [](Guarded /\ TriggersGuard => TriggersFindScripts)
<1>1. CommitInit => ScriptsInv /\ FoundInv
  BY ScriptsInit
<1>2. ScriptsInv /\ FoundInv /\ [CommitNext]_allVars => ScriptsInv' /\ FoundInv'
  BY ScriptsNext, FoundNext
<1>3. FoundInv => (Guarded /\ TriggersGuard => TriggersFindScripts)
  BY DEF FoundInv, ScriptsGuard, Whole, RightVersion, Wanted, TriggersFindScripts
<1> QED
  BY <1>1, <1>2, <1>3, PTL DEF CommitSpec

\* What an unwinding trigger is run for has a version.
LEMMA UnwoundVersion ==
  ASSUME ScriptsInv, ScriptsGuard, ModulesHaveNoTriggers, state = "fail", BackedOutWell,
         NEW p \in Package, Settled(p)
  PROVE  /\ p \in Ran("abort_pre_install") => selstat[p].version \in Version
         /\ p \in Ran("abort_pre_remove") => prevstat[p].version \in Version
<1>1. QueuesInv /\ OperationInv /\ TriggersGuard
  BY DEF ScriptsInv, ScriptsGuard, QueuesInv
<1>2. ASSUME p \in Ran("abort_pre_remove") PROVE prevstat[p].version \in Version
  <2>1. prevstat[p].state = installed /\ PostInstallScript[p] \in Contents[p][prevstat[p].version]
    BY <1>1, <1>2, AskedIfFailed
  <2> QED
    BY <1>1, <2>1, OldVersion DEF OldFiles
<1>3. ASSUME p \in Ran("abort_pre_install") PROVE selstat[p].version \in Version
  <2>1. Plain(p)
    <3> SUFFICES ASSUME ~Plain(p) PROVE FALSE
      OBVIOUS
    <3> QED
      BY <1>1, <1>3, HasBeenRun DEF QueuesInv, ModulesInv, NoneQueued
  <2>2. Queued(p)
    <3>1. Underway
      BY <1>1 DEF QueuesInv, OrderInv, OneUnpack, Underway
    <3> QED
      BY <1>1, <2>1, <3>1 DEF QueuesInv, QueuedInv
  <2>3. Upgrade(p)
    BY <1>3, <2>2, HasBeenRun DEF Queued, Come
  <2> QED
    BY <1>1, <2>3, SelectedVersion
<1> QED
  BY <1>2, <1>3

LEMMA UnwoundIfFailed ==
  ModulesHaveNoTriggers /\ ScriptsInv /\ FoundInv /\ Guarded /\ TriggersGuard => TriggersUnwound
<1> SUFFICES ASSUME ModulesHaveNoTriggers, ScriptsInv, FoundInv, Guarded, TriggersGuard,
                    state = "fail", ~committed, failed \cap {"restore", "mkdir"} = {},
                    NEW p \in Package, Settled(p)
             PROVE  /\ p \in Ran("abort_pre_install") <=>
                         p \in Ran("pre_install") /\ PostRemoveScript[p] \in Contents[p][selstat[p].version]
                    /\ p \in Ran("abort_pre_remove") <=>
                         /\ p \in Ran("pre_remove") \cup Ran("pre_install")
                         /\ prevstat[p].state = installed
                         /\ PostInstallScript[p] \in Contents[p][prevstat[p].version]
                    /\ "replace" \notin failed =>
                         \A action \in {"abort_pre_install", "abort_pre_remove"} :
                           p \in Ran(action) => p \in Undone(action)
  BY DEF TriggersUnwound
<1>1. QueuesInv /\ BackedOutWell
  BY DEF ScriptsInv, BackedOutWell
<1>2. ASSUME "replace" \notin failed, NEW action \in {"abort_pre_install", "abort_pre_remove"},
             p \in Ran(action)
      PROVE  p \in Undone(action)
  <2>1. ScriptsGuard
    BY <1>2 DEF ScriptsGuard, Whole
  <2>2. PICK i \in DOMAIN ran : ran[i].action = action /\ ran[i].pkg = p
    BY <1>2 DEF Ran
  <2>3. ran[i].version = Wanted(action, p)
    BY <2>1, <2>2 DEF FoundInv, RightVersion
  <2>4. Wanted(action, p) # 0
    BY <1>1, <1>2, <2>1, UnwoundVersion, VersionAssumption DEF Wanted
  <2> QED
    BY <2>2, <2>3, <2>4 DEF Undone
<1>3. /\ p \in Ran("abort_pre_install") <=>
           p \in Ran("pre_install") /\ PostRemoveScript[p] \in Contents[p][selstat[p].version]
      /\ p \in Ran("abort_pre_remove") <=>
           /\ p \in Ran("pre_remove") \cup Ran("pre_install")
           /\ prevstat[p].state = installed
           /\ PostInstallScript[p] \in Contents[p][prevstat[p].version]
  BY <1>1, AskedIfFailed
<1> QED
  BY <1>2, <1>3

\* TriggersUnwound (unpack.cc:735-826, trigger.cc:75-105, triggers.cc): when an operation is
\* backed out of, the unwinding triggers that are run for a package are exactly those that
\* are to undo the triggers that were run for it; and each of them finds its script and so has
\* undone what it is for, unless a file could not be moved into place.  In the first
\* session, and in every one if no two packages have a file in common and every version of
\* a package has the same triggers.
THEOREM FailureIsUnwound ==
  ASSUME Consistent, ModulesHaveNoTriggers
  PROVE  CommitSpec => [](Guarded /\ TriggersGuard => TriggersUnwound)
<1>1. CommitInit => ScriptsInv /\ FoundInv
  BY ScriptsInit
<1>2. ScriptsInv /\ FoundInv /\ [CommitNext]_allVars => ScriptsInv' /\ FoundInv'
  BY ScriptsNext, FoundNext
<1>3. ScriptsInv /\ FoundInv => (Guarded /\ TriggersGuard => TriggersUnwound)
  BY UnwoundIfFailed
<1> QED
  BY <1>1, <1>2, <1>3, PTL DEF CommitSpec
===============================================================================
