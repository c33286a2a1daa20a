SPECIFICATION FairSpec
CONSTANTS
  Space = 8
  Window = 4
  Block = 2
  Retries = 1
  Starts <- MCStarts
  Counts <- MCCounts
  MaxCommands = 4
  MaxTrouble = 2
INVARIANTS TypeOK WordsRight RawWordsRight WritesLand LossTold
PROPERTIES FaultCleared CommandsEnd
CHECK_DEADLOCK FALSE
