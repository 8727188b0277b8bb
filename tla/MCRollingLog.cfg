SPECIFICATION Spec
SYMMETRY Workers
CHECK_DEADLOCK FALSE
CONSTANTS
  a1 = a1
  a2 = a2
  b1 = b1
  Processes <- ServerAndClient
  NoThread = NoThread
  MaxFiles = 3
  MaxFileSize = 1
  Viewable = {0, 1}
  MaxWrites = 4
  MaxStarts = 3
  kMaxMessageSize = 2
  Characters <- Letters
  Logged <- FourStatements
INVARIANTS FilesInOrder WriterKnowsFile KeepsOneFull FilesReadBack
PROPERTIES SilentTouchesNothing ImplementsLog
