\* The game server's session: three workers, four messages, every fault.
CONSTANTS
  t1 = t1
  t2 = t2
  t3 = t3
  Threads = {t1, t2, t3}
  NoThread = NoThread
  Role = "server"
  MaxCalls = 4
  Refusals = {"Recv", "Send", "Disconnect"}
  MayReject = TRUE
  ConnectFails = FALSE
  Torn = FALSE
SYMMETRY Symmetry
SPECIFICATION Spec
INVARIANTS
  TypeOK
  SendEventExclusive
  RecvEventExclusive
  DisconnectExclusive
  LiveSessionListens
  OwnedWhileInFlight
  NoOwnerLeak
  ReleaseFindsSession
  TornDownLeaves
  InFlightPinned
  NothingLost
PROPERTIES
  DisconnectHasCause
  ImplementsChannel
  ImplementsLifetime
