SPECIFICATION Spec
CONSTANTS
  Code = 3
  Places <- MCPlaces
  Units = 2
  Banks = {main, data}
  Largest = main
  MaxTrouble = 2
  HaltFirst = TRUE
  MaxDebuggers = 2
  MaxPackets = 3
  MaxRuns = 2
  Mixes <- MCProgram
INVARIANT EveryFormatPrograms
CHECK_DEADLOCK FALSE
