SPECIFICATION AuthSpec
CONSTANTS
  Size = 4
  LineMax = 4
  Caps <- MCCaps
  MaxMessage = 4
  MaxWritten = 12
  Key <- MCKey
  MaxHeader = 11
  Headers <- MCHeaders
  LogWindow = 2
  RejectMax = 3
  MaxNow = 4
INVARIANTS AuthTypeOK RingIsWindow DumpFits GarblesOldestOnly RejectsAccounted ProbingCannotScrub
