\* Liveness: the port takes every socket and no receive is refused.
CONSTANTS
  e1 = e1
  Events = {e1}
  w1 = w1
  w2 = w2
  Workers = {w1, w2}
  Main = Main
  c1 = c1
  c2 = c2
  Clients = {c1, c2}
  None = None
  Faults = {"check"}
  MaxRefusals = 1
  MaxSessions = 4
SPECIFICATION FairSpec
PROPERTIES
  ServesEveryone
  EndedIsFreed
