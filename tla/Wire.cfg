SPECIFICATION Spec
CONSTANTS
  Width = 4
  Words <- MCWords
  Payloads <- MCPayloads
  Padding = 7
  LineOnes = 24
  ResetOnes = 22
  RecoveryCycles = 10
INVARIANTS TypeOK NoContention Aligned WordsIntact
