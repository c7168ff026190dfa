SPECIFICATION PollSpec
CONSTANTS
  poller = poller
  httpd = httpd
  NoTask = NoTask
  NoReq = NoReq
  Tasks <- MCTasks
  PollTask = poller
  Requests <- MCRequests
  Spans <- MCSpans
  ForeignFrames = {}
  ExcCodes = {2}
  Env = {"late"}
  MaxVer = 1
  MaxDrains = 1
  CounterMax = 0
INVARIANTS ReadBeforeValid
