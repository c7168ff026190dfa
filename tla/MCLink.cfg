SPECIFICATION LinkSpec
CONSTANTS
  MaxFastRetries = 1
  Grace = 1
  StallLimit = 1
  DownLimit = 1
  MaxGap = 1
  QueueLen = 2
INVARIANTS LinkTypeOK RetryPending NoHastyReboot CaughtInTime
PROPERTIES Reachable
