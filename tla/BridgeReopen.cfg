SPECIFICATION Spec
CONSTANTS
  Links <- MCUsb
  Streams <- MCNone
  Depth = 1
  SeqModulus = 6
  LinkRoom = 4
  TxCapacity = 12
  ReadChunk = 3
  PendingLimit = 6
  MaxCalls <- MCNine
  MaxSessions <- MCFour
  MaxNoise <- MCZero
INVARIANT ReplyMatches
CHECK_DEADLOCK FALSE
