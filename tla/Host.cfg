SPECIFICATION FairSpec
CONSTANTS
  Code = 3
  Places <- MCPlaces
  Units = 2
  Banks = {main, data}
  Largest = main
  MaxTrouble = 2
  HaltFirst = TRUE
  MaxDebuggers = 2
  MaxPackets = 3
  MaxRuns = 2
  Mixes <- MCMixes
INVARIANTS TypeOK StoppedIsHalted BreakpointsAreArmed NothingLeftArmed ResetReturned BackedUp RunToReleases
PROPERTIES StepsOnce DebuggerHeard CommandEnds
CHECK_DEADLOCK FALSE
