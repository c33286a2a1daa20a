SPECIFICATION Spec
CONSTANTS
  RecoveryCycles = 2
  DataPhase = 2
  CycleCounts <- MCCycleCounts
  Disturbances = {"power", "claim"}
INVARIANT UartSendIsProven
