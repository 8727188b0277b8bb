\* DummyClient: two workers, callbacks that send on their own session, failing connects, a torn queue.
CONSTANTS
  t1 = t1
  t2 = t2
  Threads = {t1, t2}
  NoThread = NoThread
  Role = "client"
  MaxCalls = 3
  Refusals = {"Recv", "Send", "Disconnect"}
  MayReject = FALSE
  ConnectFails = TRUE
  Torn = TRUE
SYMMETRY Symmetry
SPECIFICATION Spec
INVARIANTS
  FlagHasOwner
