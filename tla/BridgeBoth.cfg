SPECIFICATION FairSpec
CONSTANTS
  Links <- MCLinks
  Streams <- MCNet
  Depth = 2
  SeqModulus = 4
  LinkRoom = 3
  TxCapacity = 3
  ReadChunk = 3
  PendingLimit = 6
  MaxCalls <- MCSomeCalls
  MaxSessions <- MCSomeSessions
  MaxNoise <- MCZero
INVARIANT ReplyMatches
PROPERTY RequestsCarriedOut
CHECK_DEADLOCK FALSE
