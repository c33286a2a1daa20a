SPECIFICATION Spec
CONSTANTS
  Networks <- MCNetworks
  Ladder <- MCLadder
  FallbackPasses = 2
  HasAp = TRUE
  Airs <- MCAirs
  MaxCommands = 2
  MaxReboots = 0
  MaxAirs = 0
INVARIANT StatusNamesNetwork
