SPECIFICATION Spec
CONSTANTS
  w1 = w1
  w2 = w2
  Workers <- TwoWorkers
  MaxSessionCnt = 3
INVARIANT ServesAllOrNone
PROPERTY StartIsDecided
