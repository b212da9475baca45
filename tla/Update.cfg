SPECIFICATION UpdateSpec
CONSTANTS
  P = P
  Q = Q
  alpha = alpha
  beta = beta
  X = X
  pi = pi
  NoObject = NoObject
  NoRecord = NoRecord
  Unknown = {pi}
  Spelling <- Spelt
  Module = {alpha, beta, X}
  OneLetter = {X}
  Package = {P, Q}
  Source = {1, 2, 3}
  Served <- Lists
  DefaultSources <- Defaults
  Initials <- Databases
  Machines <- Hosts
  Overrides <- Wishes
  MaxUpdates = 2
  MaxStarts = 2
  MaxChanges = 2
INVARIANTS BestIsBest InstalledAreKnown SourcesWin IdsIdentify
CHECK_DEADLOCK FALSE
