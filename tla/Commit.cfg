SPECIFICATION CommitSpec
CONSTANTS
  P = P
  Q = Q
  preP = preP
  postP = postP
  postrmP = postrmP
  preQ = preQ
  postQ = postQ
  prermQ = prermQ
  ctrlP = ctrlP
  ctrlQ = ctrlQ
  absent = absent
  Foreign = Foreign
  NoFile = NoFile
  NoPackage = NoPackage
  NoTrigger = NoTrigger
  NoDownload = NoDownload
  Version = {1, 2}
  Package = {P, Q}
  File = {preP, postP, postrmP, preQ, postQ, prermQ, ctrlP, ctrlQ, absent}
  Dir = {}
  ControlFile <- MCControlFile
  Contents <- MCContents
  ModuleFile <- MCModuleFile
  PreInstallScript <- MCPreInstall
  PostInstallScript <- MCPostInstall
  PreRemoveScript <- MCPreRemove
  PostRemoveScript <- MCPostRemove
  Initial <- MCInitial
  Selections <- MCSelections
  Unsupported = {}
  StrayFile = {}
  Faults = {"paths", "download", "zip", "extract", "control", "activate", "replace", "commit", "copy", "trigger", "restore", "remove", "delete", "crash"}
  MaxFaults <- TwoOrOne
  MaxSessions = 2
INVARIANTS VerifiedArchives TriggerOrder TriggersFindScripts TriggersUnwound PostTriggersRun CopiesRemoved CommitDone
PROPERTY CommitEnds
CHECK_DEADLOCK FALSE
