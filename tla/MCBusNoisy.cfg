SPECIFICATION BusSpec
CONSTANTS
  poller = poller
  httpd = httpd
  NoTask = NoTask
  NoReq = NoReq
  Tasks <- MCTasks
  Requests <- NoisyRequests
  ForeignFrames <- NoisyForeign
  ExcCodes = {2}
  Env = {"late", "foreign", "txfail"}
  MaxVer = 1
  MaxDrains = 1
  CounterMax = 0
INVARIANTS BusTypeOK FreshReply ExceptionScoped
PROPERTIES CallReturns
