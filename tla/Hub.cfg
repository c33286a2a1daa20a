SPECIFICATION Spec
CONSTANTS
  RecoveryCycles = 2
  DataPhase = 2
  CycleCounts <- MCCycleCounts
  Disturbances = {"power", "ownReset", "claim", "noise", "reboot"}
INVARIANTS TypeOK IdlePadsReleased NoBlankRead LiveWords
PROPERTIES HoldIsDeliberate HeldLowIsHonest
