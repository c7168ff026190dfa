SPECIFICATION OtaSpec
CONSTANTS
  ConfirmMinUptime = 3
  Margin = 2
  OtaChunk = 2
  MaxLen = 3
  StallLimit = 2
INVARIANTS RefusalsClose
