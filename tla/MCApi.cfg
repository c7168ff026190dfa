SPECIFICATION ApiSpec
CONSTANTS
  poller = poller
  httpd = httpd
  NoTask = NoTask
  NoReq = NoReq
  NoBody = NoBody
  Tasks <- MCTasks
  PollTask = poller
  HttpTask = httpd
  Requests <- MCRequests
  Spans <- MCSpans
  Queries <- MCQueries
  Setpoints <- MCSetpoints
  ModeBodies <- MCModes
  LoopRegs <- MCLoopRegs
  Zones <- MCZones
  CfgWords <- MCCfgWords
  ForeignFrames = {}
  ExcCodes = {2}
  Env = {}
  MaxVer = 0
  MaxDrains = 1
  CounterMax = 0
INVARIANTS ApiTypeOK GrantedFlagsHold WritesAreLegal
PROPERTIES WrittenMeansWritten ModeTellsTruth RefusedPostsClose RequestsAnswered
