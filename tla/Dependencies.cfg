SPECIFICATION DependenciesSpec
CONSTANTS
  Version = {1, 2}
  NumPackages = 4
  Env = {1, 2, 3}
  Available = {1, 2}
  Priority <- MCPriority
  Catalogues <- MCCatalogues
  Selections <- MCSelections
INVARIANTS DependenciesTypeOK DependenciesMet SeedKept MetIsLeftAlone NeededIsKept AutoIsNeeded
PROPERTIES FlagsOnlyRise Returns
CHECK_DEADLOCK FALSE
