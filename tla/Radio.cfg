SPECIFICATION FairSpec
CONSTANTS
  Networks <- MCNetworks
  Ladder <- MCLadder
  FallbackPasses = 2
  HasAp = TRUE
  Airs <- MCAirs
  MaxCommands = 2
  MaxReboots = 1
  MaxAirs = 1
INVARIANTS TypeOK IntentHeld WindowOpen
PROPERTIES WayIn ReachesIntent StatusSettles
