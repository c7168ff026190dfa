SPECIFICATION StatusSpec
CONSTANTS
  poller = poller
  httpd = httpd
  NoTask = NoTask
  NoReq = NoReq
  Tasks <- MCTasks
  PollTask = poller
  HttpTask = httpd
  Requests <- MCRequests
  Spans <- MCSpans
  LoopRegs <- MCLoopRegs
  Zones <- MCZones
  CfgWords <- MCCfgWords
  ForeignFrames = {}
  ExcCodes = {2}
  Env = {}
  MaxVer = 1
  MaxDrains = 1
  CounterMax = 0
INVARIANTS StatusTypeOK AgeWithinOneLoop OwnRegister SuspendDrains StatusIsComplete StatusNotStale ZonesAreReal
PROPERTIES PollerCycles ImplementsCache
