SPECIFICATION Spec
SYMMETRY WorkerSymmetry
CHECK_DEADLOCK FALSE
CONSTANTS
  w1 = w1
  w2 = w2
  Workers <- TwoWorkers
  Sessions <- ThreeSessions
  None = None
  MaxSent = 2
INVARIANTS StayersGetIt SenderOrder
