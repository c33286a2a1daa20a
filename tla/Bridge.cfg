SPECIFICATION Spec
CONSTANTS
  Links <- MCUsb
  Streams <- MCNone
  Depth = 2
  SeqModulus = 3
  LinkRoom = 2
  TxCapacity = 6
  ReadChunk = 3
  PendingLimit = 6
  MaxCalls <- MCSix
  MaxSessions <- MCThree
  MaxNoise <- MCOne
INVARIANTS TypeOK OwnReplies InFlightIntact
PROPERTIES CarriedOutOnce ImplementsRpc
CHECK_DEADLOCK FALSE
