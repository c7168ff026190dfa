SPECIFICATION BusSpec
CONSTANTS
  poller = poller
  httpd = httpd
  NoTask = NoTask
  NoReq = NoReq
  Tasks <- MCTasks
  Requests <- QuietRequests
  ForeignFrames = {}
  ExcCodes = {2}
  Env = {"corrupt", "txfail"}
  MaxVer = 1
  MaxDrains = 1
  CounterMax = 1
INVARIANTS OwnReply
PROPERTIES ImplementsService

