SPECIFICATION Spec
CONSTANTS
  m = m
  q = q
  mod = mod
  man = man
  b = b
  cm = cm
  cq = cq
  Foreign = Foreign
  NoFile = NoFile
  NoPackage = NoPackage
  Version = {1, 2}
  Package = {m, q}
  File = {mod, man, b, cm, cq}
  Dir = {}
  ControlFile <- MCControlFile
  Contents <- MCContents
  ModuleFile <- MCModuleFile
  Initial <- MCInitial
  Selections <- MCSelections
  Unsupported <- MCUnsupported
  StrayFile = {mod}
  Faults = {"activate", "commit", "module", "delete", "crash"}
  MaxFaults <- TwoInAll
  MaxSessions = 3
INVARIANTS InstalledIntact ModuleServes
PROPERTY RemovalSucceeds
CHECK_DEADLOCK FALSE
