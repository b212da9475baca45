----------------------------- MODULE Commit_proofs -----------------------------
(***************************************************************************)
(* For every set of packages, any cache, any transfers, failures and       *)
(* crashes: no archive is opened that has not been verified, and triggers  *)
(* are run in the order in which each finds the system it expects.         *)
(***************************************************************************)
EXTENDS Commit, TLAPS

\* The states in which archives are opened, and the packages whose archives are.
Opening == PreState \cup ForwardState
ToOpen  == packagesToUnpack \cup packagesPreUnpacked \cup packagesBeingUnpacked

\* There is an unpack object only in the state that polls it.
OneUnpack == state # "idle" => commitState = "unpack"

Opened == state \in Opening => ToOpen \subseteq cached

\* Up to the unpacking every package is in one of three sets, and what is ready has its
\* archive if it needs one.
Before == {"paths", "pre_download", "download", "unpack"}
Sorted ==
  commitState \in Before /\ state = "idle" =>
    /\ Package \subseteq packagesToProcess \cup packagesToDownload \cup packagesReady
    /\ packagesReady \cap (packagesToProcess \cup packagesToDownload) = {}
    /\ packagesToDownload \cap packagesToProcess = {}
    /\ \A p \in packagesReady : UnpackReq(curstat[p], selstat[p]) => p \in cached
    /\ commitState \in {"download", "unpack"} => packagesToProcess = {}
    /\ commitState = "unpack" => packagesToDownload = {}

VerifiedInv == OneUnpack /\ Opened /\ Sorted

\* The states before the first pre-remove trigger, those before the first pre-install
\* trigger, those that a session that does not fail goes through, and with them those
\* before the unwinding of pre-remove triggers.
BeforeRun     == PreState \cup {"copy_post_remove"}
BeforeInstall == BeforeRun \cup {"run_pre_remove_triggers", "remove_files_replaced_by_dirs",
                                 "unpack"}
Ahead         == PreState \cup ForwardState \cup FinalState \cup {"done"}
BeforeAbort   == Ahead \cup {"unwind_create_empty_dirs", "unwind_replace", "unwind_remove",
                             "unwind_pre_install_triggers"}

-------------------------------------------------------------------------------
(* The unpack object. *)

\* No poll of the unpack object adds a package to the sets, or goes back.
Narrows ==
  /\ state # "idle" /\ state' # "idle"
  /\ state' \in Opening => state \in Opening /\ ToOpen' \subseteq ToOpen
  /\ state' \in BeforeRun => state \in BeforeRun
  /\ state' \in BeforeInstall => state \in BeforeInstall
  /\ state' \in Ahead => state \in Ahead
  /\ state' \in BeforeAbort => state \in BeforeAbort

LEMMA PollNarrows == Poll => Narrows
<1> SUFFICES ASSUME Poll
             PROVE  Narrows
  OBVIOUS
<1> USE DEF Narrows, Opening, ToOpen, BeforeRun, BeforeInstall, Ahead, BeforeAbort, statVars, packageVars, Throw, ThrowPre, Progress, Verdict,
            ExceptionState, State, PreState, MidState, ForwardState, FinalState, UnwindState, EndState
<1>1. CASE PreUnpackCheckFile \/ PreUnpackCheckEmptyDir \/ PreUnpackDone
  BY <1>1 DEF PreUnpackCheckFile, PreUnpackCheckEmptyDir, PreUnpackDone
<1>2. CASE PreUnpackSelectPackage
  BY <1>2 DEF PreUnpackSelectPackage, UseModule, ReplaceModule, UnpackAsUsual
<1>3. CASE PreRemoveSelectPackage \/ PreRemoveDone
  BY <1>3 DEF PreRemoveSelectPackage, PreRemoveDone
<1>4. CASE CopyPostRemove \/ RunPreRemoveTriggers \/ RemoveFilesReplacedByDirs
           \/ RunPreInstallTriggers
  BY <1>4 DEF CopyPostRemove, RunPreRemoveTriggers, RemoveFilesReplacedByDirs,
              RunPreInstallTriggers
<1>5. CASE UnpackFile \/ UnpackDone
  BY <1>5 DEF UnpackFile, UnpackDone
<1>6. CASE UnpackSelectPackage
  BY <1>6 DEF UnpackSelectPackage
<1>7. CASE ReplaceFile \/ ReplaceCheckEmptyDir \/ ReplaceDone
  BY <1>7 DEF ReplaceFile, ReplaceCheckEmptyDir, ReplaceDone
<1>8. CASE RemoveFile \/ RemoveDir \/ RemoveDone
  BY <1>8 DEF RemoveFile, RemoveDir, RemoveDone
<1>9. CASE FinalPoll
  BY <1>9 DEF FinalPoll, PostRemoveFile, PostRemovePackage, PostRemoveDone, CreateEmptyDir,
              CreateEmptyDirsDone, PostUnpackPackage, PostUnpackDone
<1>10. CASE UnwindPoll
  BY <1>10 DEF UnwindPoll, UnwindCreateEmptyDir, UnwindCreateEmptyDirsDone, UnwindReplaceFile,
               UnwindReplaceDone, UnwindRemoveDir, UnwindRemoveDone, UnwindPreInstallTriggers,
               UnwindUnpackFile, UnwindUnpackPackage, UnwindUnpackDone,
               UnwindRemoveFilesReplacedByDirs, UnwindPreRemoveTriggers, UnwindCopyPostRemove,
               UnwindPreRemovePackage, UnwindPreRemoveDone, UnwindPreUnpackPackage,
               UnwindPreUnpackDone, RestoreFileFails
<1> QED BY <1>1, <1>2, <1>3, <1>4, <1>5, <1>6, <1>7, <1>8, <1>9, <1>10
           DEF Poll, PrePoll, ForwardPoll

\* A poll with its triggers in single steps is a poll, or leaves the sets alone.
LEMMA UnpackPollNarrows == UnpackPoll => Narrows
<1> SUFFICES ASSUME UnpackPoll
             PROVE  Narrows
  OBVIOUS
<1>1. CASE FilePoll \/ SelectToUnpack \/ SelectToRemove
  <2>1. Poll
    BY <1>1 DEF FilePoll, SelectToUnpack, SelectToRemove, Poll, PrePoll, ForwardPoll, UnwindPoll
  <2> QED BY <2>1, PollNarrows
<1>2. CASE \/ SaveTriggersDone \/ PreRemoveTriggersDone \/ PreInstallTriggersDone
           \/ UnwindPreInstallTriggersDone \/ UnwindPreRemoveTriggersDone \/ UnwindSaveTriggersDone
  <2>1. Poll
    BY <1>2 DEF SaveTriggersDone, PreRemoveTriggersDone, PreInstallTriggersDone,
                UnwindPreInstallTriggersDone, UnwindPreRemoveTriggersDone, UnwindSaveTriggersDone,
                Poll, ForwardPoll, UnwindPoll
  <2> QED BY <2>1, PollNarrows
<1>3. CASE SaveTrigger \/ PreRemoveTrigger \/ PreInstallTrigger
  <2>1. CASE Poll
    BY <2>1, PollNarrows
  <2>2. CASE UNCHANGED vars /\ state \in {"copy_post_remove", "run_pre_remove_triggers",
                                          "run_pre_install_triggers"}
    BY <2>2 DEF vars, packageVars, Narrows, ToOpen
  <2>3. CASE /\ state \in {"copy_post_remove", "run_pre_remove_triggers",
                           "run_pre_install_triggers"}
             /\ \E s \in UnwindState : Progress(s)
    BY <2>3 DEF Progress, Narrows, Opening, PreState, ForwardState, FinalState, UnwindState,
                BeforeRun, BeforeInstall, Ahead, BeforeAbort
  <2>4. CASE /\ state = "copy_post_remove" /\ state' = "unwind_copy_post_remove"
             /\ UNCHANGED packageVars
    BY <2>4 DEF Narrows, Opening, PreState, ForwardState, FinalState, BeforeRun, BeforeInstall,
                Ahead, BeforeAbort
  <2> QED BY <1>3, <2>1, <2>2, <2>3, <2>4
             DEF SaveTrigger, PreRemoveTrigger, PreInstallTrigger, TriggerSucceeded, TriggerFailed,
                 Poll, ForwardPoll, UnwindState
<1>4. CASE UnwindPreInstallTrigger \/ UnwindPreRemoveTrigger \/ UnwindSaveTrigger
  <2>1. UNCHANGED <<state, packageVars>> /\ state \in UnwindState
    BY <1>4 DEF UnwindPreInstallTrigger, UnwindPreRemoveTrigger, UnwindSaveTrigger, RemoveCopy, vars,
                UnwindState
  <2> QED BY <2>1 DEF packageVars, Narrows, ToOpen, UnwindState
<1> QED BY <1>1, <1>2, <1>3, <1>4 DEF UnpackPoll

-------------------------------------------------------------------------------
(* The commit object. *)

LEMMA VerifiedInit == CommitInit => VerifiedInv
BY DEF CommitInit, Init, VerifiedInv, OneUnpack, Opened, Sorted, Opening, PreState, ForwardState,
       Before

LEMMA VerifiedNext == VerifiedInv /\ [CommitNext]_allVars => VerifiedInv'
<1> SUFFICES ASSUME VerifiedInv, [CommitNext]_allVars
             PROVE  VerifiedInv'
  OBVIOUS
<1>1. state = "idle" => state \notin Opening
  BY DEF Opening, PreState, ForwardState
<1> USE DEF VerifiedInv, OneUnpack, Opened, Sorted, Before
\* Without an unpack object before and after.
<1>2. CASE CommitBegin
  <2>1. state = "idle" /\ state' = "idle" /\ commitState' = "paths"
    BY <1>2 DEF CommitBegin
  <2>2. packagesToProcess' = Package /\ packagesToDownload' = {} /\ packagesReady' = {}
    BY <1>2 DEF CommitBegin
  <2> QED BY <1>1, <2>1, <2>2 DEF Opening, PreState, ForwardState
<1>3. CASE Paths \/ PreDownloadDone \/ DownloadsDone
  <2>1. UNCHANGED <<state, curstat, selstat, packagesToProcess, packagesToDownload, packagesReady,
                    cached>>
    BY <1>3 DEF Paths, PreDownloadDone, DownloadsDone, Goto, vars, statVars, sessionVars, commitSets
  <2>2. state = "idle"
    BY <1>3 DEF Paths, PreDownloadDone, DownloadsDone
  <2> QED BY <1>1, <1>3, <2>1, <2>2
             DEF Paths, PreDownloadDone, DownloadsDone, Goto, Opening, PreState, ForwardState
<1>4. CASE PreDownloadPackage
  <2>1. UNCHANGED <<state, curstat, selstat, cached, commitState>> /\ commitState = "pre_download"
    BY <1>4 DEF PreDownloadPackage, vars, statVars, sessionVars
  <2>2. state = "idle"
    BY <2>1
  <2>3. PICK p \in packagesToProcess :
          /\ packagesToProcess' = packagesToProcess \ {p}
          /\ IF UnpackReq(curstat[p], selstat[p]) /\ p \notin cached
             THEN packagesToDownload' = packagesToDownload \cup {p} /\ UNCHANGED packagesReady
             ELSE packagesReady' = packagesReady \cup {p} /\ UNCHANGED packagesToDownload
    BY <1>4 DEF PreDownloadPackage
  <2> QED BY <1>1, <2>1, <2>2, <2>3 DEF Opening, PreState, ForwardState
<1>5. CASE DownloadPackage
  <2>1. /\ UNCHANGED <<state, curstat, selstat, commitState, packagesToProcess, packagesToDownload,
                       packagesReady>>
        /\ commitState = "download"
    BY <1>5 DEF DownloadPackage, vars, statVars, sessionVars, commitSets
  <2>2. PICK p \in packagesToDownload : cached' = cached \ {p}
    BY <1>5 DEF DownloadPackage
  <2> QED BY <1>1, <2>1, <2>2 DEF Opening, PreState, ForwardState
<1>6. CASE DownloadDone
  <2>1. /\ UNCHANGED <<state, curstat, selstat, cached, packagesToProcess>>
        /\ commitState = "download"
    BY <1>6 DEF DownloadDone, vars, statVars, sessionVars
  <2>2. \/ commitState' = "fail"
        \/ /\ commitState' = commitState /\ dload.pkg \in cached
           /\ packagesReady' = packagesReady \cup {dload.pkg}
           /\ packagesToDownload' = packagesToDownload \ {dload.pkg}
    BY <1>6 DEF DownloadDone, Downloaded
  <2> QED BY <1>1, <2>1, <2>2 DEF Opening, PreState, ForwardState
\* The unpack object.
<1>7. CASE UnpackBegin
  <2>1. /\ UNCHANGED <<commitState, selstat, cached>> /\ commitState = "unpack" /\ state = "idle"
        /\ state' = "pre_unpack"
        /\ packagesToUnpack' = {p \in Package : UnpackReq(curstat[p], selstat[p])}
        /\ packagesPreUnpacked' = {} /\ packagesBeingUnpacked' = {}
    BY <1>7 DEF UnpackBegin, NewUnpack, EmptySets, commitVars
  <2> QED BY <2>1 DEF ToOpen
<1>8. CASE UnpackPoll
  <2>1. Narrows /\ UNCHANGED <<commitState, cached>>
    BY <1>8, UnpackPollNarrows DEF UnpackPoll, commitVars
  <2> QED BY <2>1 DEF Narrows
<1>9. CASE UnpackEnded \/ UnpackFailed
  <2>1. state' = "idle" /\ commitState' \in {"configure", "fail"}
    BY <1>9 DEF UnpackEnded, UnpackFailed, Finish, NoSession
  <2> QED BY <2>1 DEF Opening, PreState, ForwardState
\* After it.
<1>10. CASE \/ ConfigurePackage \/ ConfigureDone \/ PurgePackage \/ PurgeDone \/ UpdateSystem
            \/ PostTriggersDone \/ CleanupTriggersDone \/ CommitFinish
  <2>1. UNCHANGED state /\ commitState \notin Before /\ commitState' \notin Before
    BY <1>10 DEF ConfigurePackage, ConfigureDone, PurgePackage, PurgeDone, SaveStatus, UpdateSystem,
                 PostTriggersDone, CleanupTriggersDone, CommitFinish, Goto, vars
  <2> QED BY <2>1 DEF Opening, PreState, ForwardState
<1>11. CASE PostTrigger \/ CleanupTrigger \/ TriggerCallback
  <2>1. UNCHANGED <<state, statVars, sessionVars, packageVars, commitVars>>
    BY <1>11 DEF PostTrigger, CleanupTrigger, TriggerCallback, RemoveCopy, vars
  <2> QED BY <2>1 DEF statVars, sessionVars, packageVars, commitVars, commitSets, ToOpen
<1>12. CASE CommitCrash
  BY <1>12 DEF CommitCrash, NoSession, Opening, PreState, ForwardState
\* From outside, the cache only grows.
<1>13. CASE DownloadEnds
  <2>1. /\ UNCHANGED <<state, curstat, selstat, packageVars, commitState, commitSets>>
        /\ cached \subseteq cached'
    BY <1>13 DEF DownloadEnds, statVars, sessionVars
  <2> QED BY <2>1 DEF packageVars, commitSets, ToOpen
<1>14. CASE UNCHANGED allVars
  BY <1>14 DEF allVars, vars, statVars, sessionVars, packageVars, commitVars, commitSets, ToOpen
<1> QED BY <1>2, <1>3, <1>4, <1>5, <1>6, <1>7, <1>8, <1>9, <1>10, <1>11, <1>12, <1>13, <1>14
           DEF CommitNext, CommitPoll

\* For every set of packages and any cache, transfers, failures and crashes: no archive
\* is opened that verify_cached_file() has not accepted since it was last written.
THEOREM Verified == CommitSpec => []VerifiedArchives
<1>1. VerifiedInv => VerifiedArchives
  BY DEF VerifiedInv, Opened, Opening, ToOpen, VerifiedArchives
<1> QED BY <1>1, VerifiedInit, VerifiedNext, PTL DEF CommitSpec

-------------------------------------------------------------------------------
(* The triggers that have run. *)

Pre    == {"pre_remove", "pre_install"}
Posts  == {"post_remove", "post_install"}
Aborts == {"abort_pre_install", "abort_pre_remove"}

\* The rank of TriggerOrder.
Rank == [pre_remove |-> 1, pre_install |-> 2, post_remove |-> 3, post_install |-> 4,
         abort_pre_install |-> 5, abort_pre_remove |-> 6]

\* The states of commit between the unpacking and the last triggers.
Updating == {"configure", "purge", "update_sysvars", "update_sprites", "update_boot_options",
             "boot_files", "run_files", "add_files_to_apps"}

\* The triggers that may have run.
May ==
  IF commitState \in {"paths", "pre_download", "download"} THEN {}
  ELSE IF commitState = "unpack"
       THEN IF state \in {"idle"} \cup BeforeRun THEN {}
            ELSE IF state \in BeforeInstall THEN {"pre_remove"}
            ELSE IF state \in Ahead THEN Pre
            ELSE IF state \in BeforeAbort THEN Pre \cup {"abort_pre_install"}
            ELSE Pre \cup Aborts
  ELSE IF commitState \in Updating THEN Pre
  ELSE IF commitState = "post_remove_triggers" THEN Pre \cup {"post_remove"}
  ELSE IF commitState = "post_install_triggers" THEN Pre \cup Posts
  ELSE Pre \cup Posts \cup Aborts

HasRun(action, p) == \E i \in DOMAIN ran : ran[i].action = action /\ ran[i].pkg = p

\* What is queued to be run has not been run.
Fresh ==
  /\ \A p \in preRemove        : ~HasRun("pre_remove", p)
  /\ \A p \in preInstall       : ~HasRun("pre_install", p)
  /\ \A p \in postRemove       : ~HasRun("post_remove", p)
  /\ \A p \in postInstall      : ~HasRun("post_install", p)
  /\ \A p \in preInstallUnwind : ~HasRun("abort_pre_install", p)
  /\ \A p \in preRemoveUnwind  : ~HasRun("abort_pre_remove", p)

IsSeq   == \E S : ran \in Seq(S)
Allowed == \A i \in DOMAIN ran : ran[i].action \in May

OrderInv == OneUnpack /\ IsSeq /\ Allowed /\ Fresh /\ TriggerOrder

\* A trigger that is run after those that may have run before it, and not again, keeps
\* the order.
LEMMA RunKeepsOrder ==
  ASSUME IsSeq, TriggerOrder, NEW action, NEW p, NEW v, RunTrigger(action, p, v),
         NEW before,
         \A i \in DOMAIN ran : ran[i].action \in before,
         ~HasRun(action, p),
         \/ action = "pre_remove"        /\ before \subseteq {"pre_remove"}
         \/ action = "pre_install"       /\ before \subseteq Pre
         \/ action = "post_remove"       /\ before \subseteq Pre \cup {"post_remove"}
         \/ action = "post_install"      /\ before \subseteq Pre \cup Posts
         \/ action = "abort_pre_install" /\ before \subseteq Pre \cup {"abort_pre_install"}
         \/ action = "abort_pre_remove"  /\ before \subseteq Pre \cup Aborts
  PROVE  /\ IsSeq' /\ TriggerOrder'
         /\ \A i \in (DOMAIN ran)' : ran'[i].action \in before \cup {action}
         /\ \A b, q : HasRun(b, q)' <=> HasRun(b, q) \/ (b = action /\ q = p)
<1> DEFINE r == [action |-> action, pkg |-> p, version |-> v]
<1>1. PICK S : ran \in Seq(S)
  BY DEF IsSeq
<1>2. ran' = Append(ran, r)
  BY DEF RunTrigger
<1>3. ran' \in Seq(S \cup {r})
  <2>1. ran \in Seq(S \cup {r}) /\ r \in S \cup {r}
    BY <1>1
  <2> HIDE DEF r
  <2> QED BY <1>2, <2>1
<1>4. /\ Len(ran) \in Nat /\ DOMAIN ran = 1..Len(ran) /\ DOMAIN ran' = 1..(Len(ran) + 1)
      /\ \A i \in DOMAIN ran : ran'[i] = ran[i]
      /\ ran'[Len(ran) + 1] = r
  BY <1>1, <1>2
<1>5. \A i \in DOMAIN ran' : i \in DOMAIN ran \/ i = Len(ran) + 1
  BY <1>4
<1>6. r.action = action /\ r.pkg = p
  OBVIOUS
<1> HIDE DEF r
<1>7. \A b, q : HasRun(b, q)' <=> HasRun(b, q) \/ (b = action /\ q = p)
  <2>1. Len(ran) + 1 \in DOMAIN ran' /\ \A i \in DOMAIN ran : i \in DOMAIN ran'
    BY <1>4
  <2> QED BY <1>4, <1>5, <1>6, <2>1 DEF HasRun
<1>8. \A i \in DOMAIN ran' : ran'[i].action \in before \cup {action}
  BY <1>4, <1>5, <1>6
<1>9. TriggerOrder'
  <2>1. SUFFICES ASSUME NEW i \in DOMAIN ran', NEW j \in DOMAIN ran', i < j
        PROVE  /\ Rank[ran'[i].action] <= Rank[ran'[j].action]
               /\ ran'[i].action = ran'[j].action => ran'[i].pkg # ran'[j].pkg
               /\ ~(ran'[i].action \in Posts /\ ran'[j].action \in Aborts)
    BY DEF TriggerOrder, Rank, Posts, Aborts
  <2>2. CASE j \in DOMAIN ran
    <3>1. i \in DOMAIN ran
      BY <1>4, <2>1, <2>2
    <3> QED BY <1>4, <2>1, <2>2, <3>1 DEF TriggerOrder, Rank, Posts, Aborts
  <2>3. CASE j = Len(ran) + 1
    <3>1. i \in DOMAIN ran /\ ran'[i] = ran[i] /\ ran[i].action \in before
      BY <1>4, <1>5, <2>1, <2>3
    <3>2. ran'[j].action = action /\ ran'[j].pkg = p
      BY <1>4, <1>6, <2>3
    <3>3. ran[i].action = action => ran[i].pkg # p
      BY <3>1 DEF HasRun
    <3>4. /\ Rank[ran[i].action] <= Rank[action]
          /\ ~(ran[i].action \in Posts /\ action \in Aborts)
      BY <3>1 DEF Rank, Pre, Posts, Aborts
    <3> QED BY <3>1, <3>2, <3>3, <3>4
  <2> QED BY <1>5, <2>2, <2>3
<1> QED BY <1>3, <1>7, <1>8, <1>9 DEF IsSeq

\* A step that runs nothing and queues nothing.
LEMMA QuietStep ==
  ASSUME OrderInv, OneUnpack', UNCHANGED ran, May \subseteq May',
         preRemove' \subseteq preRemove, preInstall' \subseteq preInstall,
         postRemove' \subseteq postRemove, postInstall' \subseteq postInstall,
         preInstallUnwind' \subseteq preInstallUnwind, preRemoveUnwind' \subseteq preRemoveUnwind
  PROVE  OrderInv'
<1>1. IsSeq' /\ Allowed' /\ TriggerOrder'
  BY DEF OrderInv, IsSeq, Allowed, TriggerOrder
<1>2. \A b, p : HasRun(b, p)' <=> HasRun(b, p)
  BY DEF HasRun
<1>3. Fresh'
  BY <1>2 DEF OrderInv, Fresh
<1> QED BY <1>1, <1>3 DEF OrderInv

\* A step that queues, before anything has run.
LEMMA QueueStep ==
  ASSUME OrderInv, OneUnpack', UNCHANGED ran, May = {}
  PROVE  OrderInv'
<1>1. \A i \in DOMAIN ran : FALSE
  BY DEF OrderInv, Allowed
<1>2. IsSeq' /\ Allowed' /\ TriggerOrder' /\ Fresh'
  BY <1>1 DEF OrderInv, IsSeq, Allowed, TriggerOrder, Fresh, HasRun
<1> QED BY <1>2 DEF OrderInv

\* No poll of the unpack object narrows what may have run.
LEMMA MayGrows ==
  ASSUME Narrows, commitState = "unpack", UNCHANGED commitState
  PROVE  May \subseteq May'
BY DEF Narrows, May, Pre, Aborts

LEMMA OrderInit == CommitInit => OrderInv
<1> SUFFICES ASSUME CommitInit
             PROVE  OrderInv
  OBVIOUS
<1>1. ran = <<>> /\ state = "idle"
  BY DEF CommitInit, Init, TriggersInit
<1>2. ran \in Seq({}) /\ \A i \in DOMAIN ran : FALSE
  BY <1>1
<1> QED BY <1>1, <1>2 DEF OrderInv, OneUnpack, IsSeq, Allowed, TriggerOrder, Fresh, HasRun

-------------------------------------------------------------------------------
(* The triggers that the unpack object runs. *)

LEMMA PreRemoveStep ==
  ASSUME OrderInv, NEW p, NEW v, NextPreRemove(p, v), UNCHANGED <<vars, commitVars>>,
         state = "run_pre_remove_triggers"
  PROVE  OrderInv'
<1>1. commitState = "unpack" /\ UNCHANGED <<state, commitState>>
  BY DEF OrderInv, OneUnpack, vars, commitVars
<1>2. May = {"pre_remove"} /\ May' = {"pre_remove"}
  BY <1>1 DEF May, BeforeRun, BeforeInstall, PreState
<1>3. RunTrigger("pre_remove", p, v) /\ p \in preRemove /\ ~HasRun("pre_remove", p)
  BY DEF NextPreRemove, OrderInv, Fresh
<1>4. /\ IsSeq' /\ TriggerOrder'
      /\ \A i \in (DOMAIN ran)' : ran'[i].action \in May \cup {"pre_remove"}
      /\ \A b, q : HasRun(b, q)' <=> HasRun(b, q) \/ (b = "pre_remove" /\ q = p)
  BY <1>2, <1>3, RunKeepsOrder DEF OrderInv, Allowed
<1>5. ~\E q : HasRun("abort_pre_remove", q)
  BY <1>2 DEF OrderInv, Allowed, HasRun
<1>6. Fresh'
  BY <1>4, <1>5 DEF NextPreRemove, OrderInv, Fresh, With
<1> QED BY <1>1, <1>2, <1>4, <1>6 DEF OrderInv, OneUnpack, Allowed

LEMMA PreInstallStep ==
  ASSUME OrderInv, NEW p, NEW v, NextPreInstall(p, v), UNCHANGED <<vars, commitVars>>,
         state = "run_pre_install_triggers"
  PROVE  OrderInv'
<1>1. commitState = "unpack" /\ UNCHANGED <<state, commitState>>
  BY DEF OrderInv, OneUnpack, vars, commitVars
<1>2. May = Pre /\ May' = Pre
  BY <1>1 DEF May, BeforeRun, BeforeInstall, Ahead, PreState, ForwardState
<1>3. RunTrigger("pre_install", p, v) /\ p \in preInstall /\ ~HasRun("pre_install", p)
  BY DEF NextPreInstall, OrderInv, Fresh
<1>4. /\ IsSeq' /\ TriggerOrder'
      /\ \A i \in (DOMAIN ran)' : ran'[i].action \in May \cup {"pre_install"}
      /\ \A b, q : HasRun(b, q)' <=> HasRun(b, q) \/ (b = "pre_install" /\ q = p)
  BY <1>2, <1>3, RunKeepsOrder DEF OrderInv, Allowed
<1>5. ~\E q : HasRun("abort_pre_remove", q) \/ HasRun("abort_pre_install", q)
  BY <1>2 DEF OrderInv, Allowed, HasRun, Pre
<1>6. Fresh'
  BY <1>4, <1>5 DEF NextPreInstall, OrderInv, Fresh, With
<1> QED BY <1>1, <1>2, <1>4, <1>6 DEF OrderInv, OneUnpack, Allowed, Pre

LEMMA AbortPreInstallStep ==
  ASSUME OrderInv, NEW p, NEW v, NextPreInstallUnwind(p, v), UNCHANGED <<vars, commitVars>>,
         state = "unwind_pre_install_triggers"
  PROVE  OrderInv'
<1>1. commitState = "unpack" /\ UNCHANGED <<state, commitState>>
  BY DEF OrderInv, OneUnpack, vars, commitVars
<1>2. May = Pre \cup {"abort_pre_install"} /\ May' = May
  BY <1>1 DEF May, BeforeRun, BeforeInstall, Ahead, BeforeAbort, PreState, ForwardState, FinalState
<1>3. /\ RunTrigger("abort_pre_install", p, v) /\ p \in preInstallUnwind
      /\ ~HasRun("abort_pre_install", p)
  BY DEF NextPreInstallUnwind, OrderInv, Fresh
<1>4. /\ IsSeq' /\ TriggerOrder'
      /\ \A i \in (DOMAIN ran)' : ran'[i].action \in May \cup {"abort_pre_install"}
      /\ \A b, q : HasRun(b, q)' <=> HasRun(b, q) \/ (b = "abort_pre_install" /\ q = p)
  BY <1>2, <1>3, RunKeepsOrder DEF OrderInv, Allowed
<1>5. Fresh'
  BY <1>4 DEF NextPreInstallUnwind, queueVars, OrderInv, Fresh
<1> QED BY <1>1, <1>2, <1>4, <1>5 DEF OrderInv, OneUnpack, Allowed

LEMMA AbortPreRemoveStep ==
  ASSUME OrderInv, NEW p, NEW v, NextPreRemoveUnwind(p, v), UNCHANGED <<vars, commitVars>>,
         state = "unwind_pre_remove_triggers"
  PROVE  OrderInv'
<1>1. commitState = "unpack" /\ UNCHANGED <<state, commitState>>
  BY DEF OrderInv, OneUnpack, vars, commitVars
<1>2. May = Pre \cup Aborts /\ May' = May
  BY <1>1 DEF May, BeforeRun, BeforeInstall, Ahead, BeforeAbort, PreState, ForwardState, FinalState
<1>3. /\ RunTrigger("abort_pre_remove", p, v) /\ p \in preRemoveUnwind
      /\ ~HasRun("abort_pre_remove", p)
  BY DEF NextPreRemoveUnwind, OrderInv, Fresh
<1>4. /\ IsSeq' /\ TriggerOrder'
      /\ \A i \in (DOMAIN ran)' : ran'[i].action \in May \cup {"abort_pre_remove"}
      /\ \A b, q : HasRun(b, q)' <=> HasRun(b, q) \/ (b = "abort_pre_remove" /\ q = p)
  BY <1>2, <1>3, RunKeepsOrder DEF OrderInv, Allowed
<1>5. Fresh'
  BY <1>4 DEF NextPreRemoveUnwind, queueVars, OrderInv, Fresh
<1> QED BY <1>1, <1>2, <1>4, <1>5 DEF OrderInv, OneUnpack, Allowed, Aborts

\* A poll of the unpack object.
LEMMA PollKeepsOrder ==
  ASSUME OrderInv, UnpackPoll
  PROVE  OrderInv'
<1>1. Narrows
  BY UnpackPollNarrows
<1>2. UNCHANGED commitVars /\ commitState = "unpack" /\ UNCHANGED commitState /\ OneUnpack'
  BY <1>1 DEF UnpackPoll, commitVars, Narrows, OrderInv, OneUnpack
<1>3. May \subseteq May'
  BY <1>1, <1>2, MayGrows
<1>4. CASE UNCHANGED <<ran, queueVars, unwindVars>>
  BY <1>2, <1>3, <1>4, QuietStep DEF queueVars, unwindVars
<1>5. CASE SelectToUnpack \/ SelectToRemove
  <2>1. state \in BeforeRun /\ UNCHANGED ran
    BY <1>5 DEF SelectToUnpack, PreUnpackSelectPackage, SelectToRemove, PreRemoveSelectPackage,
                AddInstallTriggers, AddRemoveTriggers, triggerVars, BeforeRun, PreState
  <2>2. May = {}
    BY <1>2, <2>1 DEF May
  <2> QED BY <1>2, <2>1, <2>2, QueueStep
<1>6. CASE PreRemoveTrigger
  <2>1. CASE DropTrigger
    BY <1>4, <2>1 DEF DropTrigger
  <2>2. CASE ~DropTrigger
    <3>1. /\ state = "run_pre_remove_triggers" /\ UNCHANGED vars
          /\ \E p \in preRemove : NextPreRemove(p, Found("pre_remove", p))
      BY <1>6, <2>2 DEF PreRemoveTrigger, TriggerSucceeded, TriggerFailed
    <3> QED BY <1>2, <3>1, PreRemoveStep
  <2> QED BY <2>1, <2>2
<1>7. CASE PreInstallTrigger
  <2>1. CASE DropTrigger
    BY <1>4, <2>1 DEF DropTrigger
  <2>2. CASE ~DropTrigger
    <3>1. /\ state = "run_pre_install_triggers" /\ UNCHANGED vars
          /\ \E p \in preInstall : NextPreInstall(p, Found("pre_install", p))
      BY <1>7, <2>2 DEF PreInstallTrigger, TriggerSucceeded, TriggerFailed
    <3> QED BY <1>2, <3>1, PreInstallStep
  <2> QED BY <2>1, <2>2
<1>8. CASE UnwindPreInstallTrigger
  <2>1. CASE DropTrigger
    BY <1>4, <2>1 DEF DropTrigger
  <2>2. CASE ~DropTrigger
    <3>1. /\ state = "unwind_pre_install_triggers" /\ UNCHANGED vars
          /\ \E p \in preInstallUnwind : NextPreInstallUnwind(p, Found("abort_pre_install", p))
      BY <1>8, <2>2 DEF UnwindPreInstallTrigger
    <3> QED BY <1>2, <3>1, AbortPreInstallStep
  <2> QED BY <2>1, <2>2
<1>9. CASE UnwindPreRemoveTrigger
  <2>1. CASE DropTrigger
    BY <1>4, <2>1 DEF DropTrigger
  <2>2. CASE ~DropTrigger
    <3>1. /\ state = "unwind_pre_remove_triggers" /\ UNCHANGED vars
          /\ \E p \in preRemoveUnwind : NextPreRemoveUnwind(p, Found("abort_pre_remove", p))
      BY <1>9, <2>2 DEF UnwindPreRemoveTrigger
    <3> QED BY <1>2, <3>1, AbortPreRemoveStep
  <2> QED BY <2>1, <2>2
<1>10. CASE SaveTrigger \/ UnwindSaveTrigger
  <2>1. UNCHANGED <<ran, queueVars, unwindVars>>
    BY <1>10 DEF SaveTrigger, UnwindSaveTrigger, RemoveCopy, CopyPostRemoveFile,
                 CopyPostRemoveFileFails, RemovePostRemoveFile
  <2> QED BY <1>4, <2>1
<1>11. CASE UNCHANGED triggerVars
  BY <1>4, <1>11 DEF triggerVars
<1> QED BY <1>5, <1>6, <1>7, <1>8, <1>9, <1>10, <1>11
           DEF UnpackPoll, FilePoll, SaveTriggersDone, PreRemoveTriggersDone,
               PreInstallTriggersDone, UnwindPreInstallTriggersDone, UnwindPreRemoveTriggersDone,
               UnwindSaveTriggersDone

-------------------------------------------------------------------------------
(* The triggers that the commit object runs. *)

LEMMA PostRemoveStep ==
  ASSUME OrderInv, NEW p, NEW v, NextPostRemove(p, v), UNCHANGED <<vars, commitVars>>,
         commitState = "post_remove_triggers"
  PROVE  OrderInv'
<1>1. UNCHANGED <<state, commitState>>
  BY DEF vars, commitVars
<1>2. May = Pre \cup {"post_remove"} /\ May' = May
  BY <1>1 DEF May, Updating
<1>3. RunTrigger("post_remove", p, v) /\ p \in postRemove /\ ~HasRun("post_remove", p)
  BY DEF NextPostRemove, OrderInv, Fresh
<1>4. /\ IsSeq' /\ TriggerOrder'
      /\ \A i \in (DOMAIN ran)' : ran'[i].action \in May \cup {"post_remove"}
      /\ \A b, q : HasRun(b, q)' <=> HasRun(b, q) \/ (b = "post_remove" /\ q = p)
  BY <1>2, <1>3, RunKeepsOrder DEF OrderInv, Allowed
<1>5. Fresh'
  BY <1>4 DEF NextPostRemove, unwindVars, OrderInv, Fresh
<1> QED BY <1>1, <1>2, <1>4, <1>5 DEF OrderInv, OneUnpack, Allowed

LEMMA PostInstallStep ==
  ASSUME OrderInv, NEW p, NEW v, NextPostInstall(p, v), UNCHANGED <<vars, commitVars>>,
         commitState = "post_install_triggers"
  PROVE  OrderInv'
<1>1. UNCHANGED <<state, commitState>>
  BY DEF vars, commitVars
<1>2. May = Pre \cup Posts /\ May' = May
  BY <1>1 DEF May, Updating
<1>3. RunTrigger("post_install", p, v) /\ p \in postInstall /\ ~HasRun("post_install", p)
  BY DEF NextPostInstall, OrderInv, Fresh
<1>4. /\ IsSeq' /\ TriggerOrder'
      /\ \A i \in (DOMAIN ran)' : ran'[i].action \in May \cup {"post_install"}
      /\ \A b, q : HasRun(b, q)' <=> HasRun(b, q) \/ (b = "post_install" /\ q = p)
  BY <1>2, <1>3, RunKeepsOrder DEF OrderInv, Allowed
<1>5. Fresh'
  BY <1>4 DEF NextPostInstall, unwindVars, OrderInv, Fresh
<1> QED BY <1>1, <1>2, <1>4, <1>5 DEF OrderInv, OneUnpack, Allowed, Posts

LEMMA OrderNext == OrderInv /\ [CommitNext]_allVars => OrderInv'
<1> SUFFICES ASSUME OrderInv, [CommitNext]_allVars
             PROVE  OrderInv'
  OBVIOUS
<1>0. OneUnpack
  BY DEF OrderInv
<1>1. CASE CommitBegin
  <2>1. ran' = <<>> /\ OneUnpack'
    BY <1>0, <1>1 DEF CommitBegin, OneUnpack
  <2>2. ran' \in Seq({}) /\ \A i \in DOMAIN ran' : FALSE
    BY <2>1
  <2> QED BY <2>1, <2>2 DEF OrderInv, IsSeq, Allowed, TriggerOrder, Fresh, HasRun
<1>2. CASE \/ Paths \/ PreDownloadPackage \/ PreDownloadDone \/ DownloadPackage \/ DownloadDone
           \/ DownloadsDone \/ DownloadEnds
  <2>1. UNCHANGED <<triggerVars, state>>
    BY <1>2 DEF Paths, PreDownloadPackage, PreDownloadDone, DownloadPackage, DownloadDone,
                DownloadsDone, DownloadEnds, Goto, vars
  <2>2. state = "idle" \/ (commitState' = commitState)
    BY <1>0, <1>2 DEF Paths, PreDownloadPackage, PreDownloadDone, DownloadPackage, DownloadDone,
                DownloadsDone, DownloadEnds, Goto, OneUnpack
  <2>3. \/ commitState' = commitState
        \/ /\ commitState \in {"paths", "pre_download", "download"}
           /\ commitState' \in {"pre_download", "download", "unpack", "fail"}
    BY <1>2 DEF Paths, PreDownloadPackage, PreDownloadDone, DownloadPackage, DownloadDone,
                DownloadsDone, DownloadEnds, Goto
  <2>4. May \subseteq May' /\ OneUnpack'
    BY <1>0, <2>1, <2>2, <2>3 DEF May, OneUnpack
  <2> QED BY <2>1, <2>4, QuietStep DEF triggerVars, queueVars, unwindVars
<1>3. CASE UnpackBegin
  <2>1. /\ UNCHANGED <<triggerVars, commitState>> /\ commitState = "unpack" /\ state = "idle"
        /\ state' = "pre_unpack"
    BY <1>3 DEF UnpackBegin, NewUnpack, commitVars
  <2>2. May = {} /\ OneUnpack'
    BY <2>1 DEF May, OneUnpack
  <2> QED BY <2>1, <2>2, QueueStep DEF triggerVars
<1>4. CASE UnpackPoll
  BY <1>4, PollKeepsOrder
<1>5. CASE UnpackEnded
  <2>1. /\ UNCHANGED triggerVars /\ commitState = "unpack" /\ state = "done"
        /\ state' = "idle" /\ commitState' = "configure"
    BY <1>5 DEF UnpackEnded, Finish, NoSession
  <2>2. May = Pre /\ May' = Pre /\ OneUnpack'
    BY <2>1 DEF May, Ahead, BeforeInstall, BeforeRun, PreState, Updating, OneUnpack
  <2> QED BY <2>1, <2>2, QuietStep DEF triggerVars, queueVars, unwindVars
<1>6. CASE UnpackFailed \/ CommitFinish \/ CommitCrash
  <2>1. /\ UNCHANGED ran /\ commitState' \in {"fail", "none"}
        /\ preRemove' = {} /\ preInstall' = {} /\ postRemove' = {} /\ postInstall' = {}
        /\ preInstallUnwind' = {} /\ preRemoveUnwind' = {}
    BY <1>6 DEF UnpackFailed, CommitFinish, CommitCrash, DropTriggers
  <2>2. OneUnpack'
    BY <1>0, <1>6 DEF UnpackFailed, CommitFinish, CommitCrash, Finish, NoSession, vars, OneUnpack
  <2>3. May \subseteq May'
    BY <2>1 DEF May, Updating, Pre, Posts, Aborts
  <2> QED BY <2>1, <2>2, <2>3, QuietStep
<1>7. CASE \/ ConfigurePackage \/ ConfigureDone \/ PurgePackage \/ PurgeDone \/ UpdateSystem
           \/ PostTriggersDone \/ CleanupTrigger \/ CleanupTriggersDone
  <2>1. UNCHANGED <<state, ran, queueVars, unwindVars>>
    BY <1>7 DEF ConfigurePackage, ConfigureDone, PurgePackage, PurgeDone, SaveStatus, UpdateSystem,
                PostTriggersDone, CleanupTrigger, RemoveCopy, RemovePostRemoveFile,
                CleanupTriggersDone, Goto, vars, triggerVars
  <2>2. CASE ConfigurePackage \/ PurgePackage \/ CleanupTrigger
    <3>1. commitState' = commitState
      BY <2>2 DEF ConfigurePackage, PurgePackage, CleanupTrigger, commitVars
    <3>2. May' = May /\ OneUnpack'
      BY <1>0, <2>1, <3>1 DEF May, OneUnpack
    <3> QED BY <2>1, <3>2, QuietStep DEF queueVars, unwindVars
  <2>3. CASE ConfigureDone \/ PurgeDone \/ UpdateSystem
    <3>1. /\ commitState \in Updating /\ commitState' \in Updating \cup {"post_remove_triggers"}
      BY <2>3 DEF ConfigureDone, PurgeDone, SaveStatus, UpdateSystem, Goto, Updating
    <3>2. May \subseteq May' /\ OneUnpack'
      BY <1>0, <2>1, <3>1 DEF May, Updating, OneUnpack
    <3> QED BY <2>1, <3>2, QuietStep DEF queueVars, unwindVars
  <2>4. CASE PostTriggersDone \/ CleanupTriggersDone
    <3>1. \/ commitState = "post_remove_triggers" /\ commitState' = "post_install_triggers"
          \/ commitState = "post_install_triggers" /\ commitState' = "cleanup_triggers"
          \/ commitState = "cleanup_triggers" /\ commitState' = "done"
      BY <2>4 DEF PostTriggersDone, CleanupTriggersDone, Goto
    <3>2. May \subseteq May' /\ OneUnpack'
      BY <1>0, <2>1, <3>1 DEF May, Updating, Pre, Posts, Aborts, OneUnpack
    <3> QED BY <2>1, <3>2, QuietStep DEF queueVars, unwindVars
  <2> QED BY <1>7, <2>2, <2>3, <2>4
<1>8. CASE PostTrigger
  <2>1. UNCHANGED <<vars, commitVars>>
    BY <1>8 DEF PostTrigger
  <2>2. CASE DropTrigger
    <3>1. May' = May /\ OneUnpack'
      BY <1>0, <2>1 DEF May, OneUnpack, vars, commitVars
    <3> QED BY <2>2, <3>1, QuietStep DEF DropTrigger, queueVars, unwindVars
  <2>3. CASE ~DropTrigger
    BY <1>8, <2>1, <2>3, PostRemoveStep, PostInstallStep DEF PostTrigger
  <2> QED BY <2>2, <2>3
<1>9. CASE TriggerCallback \/ UNCHANGED allVars
  <2>1. UNCHANGED <<ran, queueVars, unwindVars, state, commitState>>
    BY <1>9 DEF TriggerCallback, TriggerEnds, allVars, triggerVars, vars, commitVars
  <2>2. May' = May /\ OneUnpack'
    BY <1>0, <2>1 DEF May, OneUnpack
  <2> QED BY <2>1, <2>2, QuietStep DEF queueVars, unwindVars
<1> QED BY <1>1, <1>2, <1>3, <1>4, <1>5, <1>6, <1>7, <1>8, <1>9 DEF CommitNext, CommitPoll

\* For every set of packages and scripts, and any failures and crashes: no trigger is run
\* twice in an operation, and each kind is run in its turn, first the pre triggers and
\* then either the post triggers or the ones that unwind.
THEOREM Ordered == CommitSpec => []TriggerOrder
<1>1. OrderInv => TriggerOrder
  BY DEF OrderInv
<1> QED BY <1>1, OrderInit, OrderNext, PTL DEF CommitSpec
===============================================================================
