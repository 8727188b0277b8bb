\* Liveness of the server session: Winsock refuses nothing.
CONSTANTS
  t1 = t1
  t2 = t2
  Threads = {t1, t2}
  NoThread = NoThread
  Role = "server"
  MaxCalls = 3
  Refusals = {}
  MayReject = TRUE
  ConnectFails = FALSE
  Torn = FALSE
SPECIFICATION FairSpec
PROPERTIES
  QueuedIsDrained
  ClosedIsReclaimed
  HandlersReturn
