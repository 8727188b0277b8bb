\* Two accept events, two workers, three clients, every fault.
CONSTANTS
  e1 = e1
  e2 = e2
  Events = {e1, e2}
  w1 = w1
  w2 = w2
  Workers = {w1, w2}
  Main = Main
  c1 = c1
  c2 = c2
  c3 = c3
  Clients = {c1, c2, c3}
  None = None
  Faults = {"setup", "port", "check", "recv", "disconnect"}
  MaxRefusals = 1
  MaxSessions = 6
SYMMETRY Symmetry
SPECIFICATION Spec
INVARIANTS
  EventHasOneUser
  PostedIsFresh
  ConnectedHasClient
PROPERTIES
  CountedOnce
  ImplementsService
  ImplementsLifetime
