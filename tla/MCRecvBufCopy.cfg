\* What OnRecv hands to SendBuf::CopyData.
CONSTANTS
  BufSize = 3
  Expand = 3
  Handlers = {"echo"}
  SendCapacity = 2
  MaxBytes = 12
SPECIFICATION Spec
INVARIANTS
  CopyFits
