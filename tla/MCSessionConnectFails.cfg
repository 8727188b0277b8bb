\* OnConnected runs for a connection that failed.
CONSTANTS
  t1 = t1
  t2 = t2
  Threads = {t1, t2}
  NoThread = NoThread
  Role = "client"
  MaxCalls = 2
  Refusals = {}
  MayReject = FALSE
  ConnectFails = TRUE
  Torn = FALSE
SPECIFICATION Spec
INVARIANTS
  AnnouncedConnected
