-------------------------------- MODULE Triggers -------------------------------
(***************************************************************************)
(* The triggers of a session (triggers.h, triggers.cc) and the one that is *)
(* running (trigger.h, trigger.cc): queues filled while the packages are   *)
(* looked at, taken from while triggers are run, and the lists of what has *)
(* to be unwound if the session fails.  The operations are the actions of  *)
(* Commit, which is where the states are that call them.                   *)
(*                                                                         *)
(* Scripts are four files of a package, named by their destinations.  The  *)
(* environment variables handed to a trigger are left out, and so are      *)
(* packages with other files among their triggers.                         *)
(***************************************************************************)
EXTENDS Naturals, Sequences

CONSTANTS
  PreInstallScript,   \* [Package -> File]: RiscPkg.Triggers.PreInstall, and so on
  PostInstallScript,
  PreRemoveScript,
  PostRemoveScript,
  NoTrigger         \* no trigger at work

VARIABLES
  preInstall, postInstall, preRemove, postRemove,  \* the packages with triggers to run
  hasInstallUnwind, hasRemoveUnwind,               \* flags of trigger_info
  preInstallUnwind, preRemoveUnwind,               \* the packages with triggers to unwind
  postRemoveFilesToCopy, postRemoveFiles,
  saved,            \* the copies in the PRTriggers directories: [file, version]
  trigger,          \* the _trigger of unpack, and later of commit: [action, pkg, state]
  ran               \* history: the triggers run in this session, and the version
                    \* of the script that each found, 0 if there was none

queueVars   == <<preInstall, postInstall, preRemove, postRemove, hasInstallUnwind, hasRemoveUnwind>>
unwindVars  == <<preInstallUnwind, preRemoveUnwind>>
copyVars    == <<postRemoveFilesToCopy, postRemoveFiles, saved>>
triggerVars == <<queueVars, unwindVars, copyVars, trigger, ran>>

TriggersInit ==
  /\ preInstall = {} /\ postInstall = {} /\ preRemove = {} /\ postRemove = {}
  /\ hasInstallUnwind = {} /\ hasRemoveUnwind = {}
  /\ preInstallUnwind = {} /\ preRemoveUnwind = {}
  /\ postRemoveFilesToCopy = {} /\ postRemoveFiles = {}
  /\ trigger = NoTrigger
  /\ saved = {} /\ ran = <<>>

\* The objects are destroyed: what is on the disc stays.
DropTriggers ==
  /\ preInstall' = {} /\ postInstall' = {} /\ preRemove' = {} /\ postRemove' = {}
  /\ hasInstallUnwind' = {} /\ hasRemoveUnwind' = {}
  /\ preInstallUnwind' = {} /\ preRemoveUnwind' = {}
  /\ postRemoveFilesToCopy' = {} /\ postRemoveFiles' = {}
  /\ trigger' = NoTrigger
  /\ UNCHANGED <<saved, ran>>

\* S with p if c holds.
With(S, p, c) == IF c THEN S \cup {p} ELSE S

-------------------------------------------------------------------------------
(* Filling the queues.                                                     *)

\* unpack::pre_unpack_select_package(): package p is to be unpacked, and mf is
\* the list of its archive.
AddInstallTriggers(p, mf) ==
  /\ preInstall' = With(preInstall, p, PreInstallScript[p] \in mf)
  /\ hasInstallUnwind' = With(hasInstallUnwind, p, {PreInstallScript[p], PostRemoveScript[p]} \subseteq mf)
  /\ postInstall' = With(postInstall, p, PostInstallScript[p] \in mf)
  /\ UNCHANGED <<preRemove, postRemove, hasRemoveUnwind, unwindVars, copyVars, trigger, ran>>

Scripts(p) == {PreInstallScript[p], PostInstallScript[p], PreRemoveScript[p], PostRemoveScript[p]}

\* unpack::pre_remove_select_package(): p is to be removed, and mf is its manifest.
AddRemoveTriggers_NoCopies(p, mf) ==
  /\ preRemove' = With(preRemove, p, PreRemoveScript[p] \in mf)
  /\ hasRemoveUnwind' = With(hasRemoveUnwind, p, PostInstallScript[p] \in mf)
  /\ postRemove' = With(postRemove, p, PostRemoveScript[p] \in mf)
  /\ UNCHANGED <<preInstall, postInstall, hasInstallUnwind, unwindVars, copyVars, trigger, ran>>
AddRemoveTriggers(p, mf) ==
  /\ preRemove' = With(preRemove, p, PreRemoveScript[p] \in mf)
  /\ hasRemoveUnwind' = With(hasRemoveUnwind, p, PostInstallScript[p] \in mf)
  /\ IF PostRemoveScript[p] \in mf
     THEN /\ postRemove' = postRemove \cup {p}
          /\ postRemoveFilesToCopy' = postRemoveFilesToCopy \cup (Scripts(p) \cap mf)
     ELSE UNCHANGED <<postRemove, postRemoveFilesToCopy>>
  /\ UNCHANGED <<preInstall, postInstall, hasInstallUnwind, unwindVars,
                 postRemoveFiles, saved, trigger, ran>>

-------------------------------------------------------------------------------
(* The copies that post-remove triggers are run from.                      *)

\* copy_post_remove_file(), for a file that has version v.
CopyPostRemoveFile(f, v) ==
  /\ saved' = {c \in saved : c.file # f} \cup {[file |-> f, version |-> v]}
  /\ postRemoveFiles' = postRemoveFiles \cup {f}
  /\ postRemoveFilesToCopy' = postRemoveFilesToCopy \ {f}
  /\ UNCHANGED <<queueVars, unwindVars, trigger, ran>>

\* What was there is deleted before the copy fails, unless it cannot be.
CopyPostRemoveFileFails(f, deleted) ==
  /\ saved' = IF deleted THEN {c \in saved : c.file # f} ELSE saved
  /\ UNCHANGED <<queueVars, unwindVars, postRemoveFilesToCopy, postRemoveFiles, trigger, ran>>

RemovePostRemoveFile(f, deleted) ==
  /\ saved' = IF deleted THEN {c \in saved : c.file # f} ELSE saved
  /\ postRemoveFiles' = postRemoveFiles \ {f}
  /\ UNCHANGED <<queueVars, unwindVars, postRemoveFilesToCopy, trigger, ran>>

-------------------------------------------------------------------------------
(* Taking the next trigger and running it.  It has found version v of its  *)
(* script.                                                                 *)

RunTrigger(action, p, v) ==
  /\ trigger' = [action |-> action, pkg |-> p, state |-> "running"]
  /\ ran' = Append(ran, [action |-> action, pkg |-> p, version |-> v])

NextPreRemove(p, v) ==
  /\ p \in preRemove
  /\ RunTrigger("pre_remove", p, v)
  /\ preRemoveUnwind' = With(preRemoveUnwind, p, p \in hasRemoveUnwind)
  /\ preRemove' = preRemove \ {p}
  /\ UNCHANGED <<preInstall, postInstall, postRemove, hasInstallUnwind, hasRemoveUnwind,
                 preInstallUnwind, copyVars>>

NextPreInstall_NoUnwind(p, v) ==
  /\ p \in preInstall
  /\ RunTrigger("pre_install", p, v)
  /\ preInstallUnwind' = With(preInstallUnwind, p, p \in hasInstallUnwind)
  /\ preInstall' = preInstall \ {p}
  /\ UNCHANGED <<postInstall, preRemove, postRemove, hasInstallUnwind, hasRemoveUnwind,
                 preRemoveUnwind, copyVars>>
NextPreInstall(p, v) ==
  /\ p \in preInstall
  /\ RunTrigger("pre_install", p, v)
  /\ preInstallUnwind' = With(preInstallUnwind, p, p \in hasInstallUnwind)
  /\ preRemoveUnwind' = With(preRemoveUnwind, p, p \in hasRemoveUnwind)
  /\ preInstall' = preInstall \ {p}
  /\ UNCHANGED <<postInstall, preRemove, postRemove, hasInstallUnwind, hasRemoveUnwind, copyVars>>

NextPostRemove_Again(p, v) ==
  /\ p \in postRemove
  /\ RunTrigger("post_remove", p, v)
  /\ UNCHANGED <<queueVars, unwindVars, copyVars>>
NextPostRemove(p, v) ==
  /\ p \in postRemove
  /\ RunTrigger("post_remove", p, v)
  /\ postRemove' = postRemove \ {p}
  /\ UNCHANGED <<preInstall, postInstall, preRemove, hasInstallUnwind, hasRemoveUnwind,
                 unwindVars, copyVars>>

NextPostInstall(p, v) ==
  /\ p \in postInstall
  /\ RunTrigger("post_install", p, v)
  /\ postInstall' = postInstall \ {p}
  /\ UNCHANGED <<preInstall, preRemove, postRemove, hasInstallUnwind, hasRemoveUnwind,
                 unwindVars, copyVars>>

NextPreInstallUnwind(p, v) ==
  /\ p \in preInstallUnwind
  /\ RunTrigger("abort_pre_install", p, v)
  /\ preInstallUnwind' = preInstallUnwind \ {p}
  /\ UNCHANGED <<queueVars, preRemoveUnwind, copyVars>>

NextPreRemoveUnwind(p, v) ==
  /\ p \in preRemoveUnwind
  /\ RunTrigger("abort_pre_remove", p, v)
  /\ preRemoveUnwind' = preRemoveUnwind \ {p}
  /\ UNCHANGED <<queueVars, preInstallUnwind, copyVars>>

Finished == trigger # NoTrigger /\ trigger.state \in {"success", "error"}

\* The result has been seen, and the trigger is deleted.
DropTrigger == trigger' = NoTrigger /\ UNCHANGED <<queueVars, unwindVars, copyVars, ran>>

\* The front end calls trigger_finished() or trigger_start_failed().  A script
\* that is not there cannot be started.
TriggerEnds(canFail) ==
  /\ trigger # NoTrigger /\ trigger.state = "running"
  /\ \E result \in (IF ran[Len(ran)].version # 0 THEN {"success"} ELSE {})
                   \cup (IF ran[Len(ran)].version = 0 \/ canFail THEN {"error"} ELSE {}) :
        trigger' = [trigger EXCEPT !.state = result]
  /\ UNCHANGED <<queueVars, unwindVars, copyVars, ran>>
===============================================================================
