SPECIFICATION ComponentsSpec
CONSTANTS
  LookAt = LookAt
  Run = Run
  AddToApps = AddToApps
  NoPath = NoPath
  NoFile = NoFile
  NoCommand = NoCommand
  Leaf <- Names
  BootDrive <- HardDisc
  Aliased <- Aliases
  Defaults <- DefaultTable
  ToBe <- Loaded
  Section <- Sections
  After <- Befores
  Command <- Commands
  Command2 <- Seconds
  Comp <- Comps
  Movable <- Movables
  Choice <- Picks
  Plans <- Requests
  InitialPaths <- Tables
  Desktop <- Desktops
  PreDesktop <- PreDesktops
  SysvarFiles <- Sysvars
  SpriteFiles <- Sprites
  SpriteSuffixes = {"22"}
  Faults = {"choices", "paths", "packages", "sysvars", "options", "done", "crash"}
  MaxFaults = 1
  MaxSessions = 3
INVARIANTS OptionsFollow VariablesFollow
PROPERTIES OthersKept ChoicesApplied PassesEnd
CHECK_DEADLOCK FALSE
