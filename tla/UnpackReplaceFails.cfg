SPECIFICATION Spec
CONSTANTS
  P = P
  Q = Q
  fileA = fileA
  fileB = fileB
  fileC = fileC
  ctrlP = ctrlP
  ctrlQ = ctrlQ
  dirE = dirE
  dirG = dirG
  dirH = dirH
  Foreign = Foreign
  NoFile = NoFile
  NoPackage = NoPackage
  Version = {1, 2}
  Package = {P, Q}
  File = {fileA, fileB, fileC, ctrlP, ctrlQ}
  Dir = {dirE, dirG, dirH}
  ControlFile <- MCControlFile
  Contents <- MCContents
  ModuleFile <- MCModuleFile
  Initial <- MCInitial
  Selections <- MCSelections
  Unsupported = {}
  StrayFile = {fileC, ctrlP}
  Faults = {"replace"}
  MaxFaults <- One
  MaxSessions = 1
INVARIANT FilesAsBefore
CHECK_DEADLOCK FALSE
