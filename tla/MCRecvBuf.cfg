\* Sessions that consume all, echo it, or return what they like.
CONSTANTS
  BufSize = 3
  Expand = 3
  Handlers = {"all", "echo", "any"}
  SendCapacity = 4
  MaxBytes = 14
SPECIFICATION Spec
INVARIANTS
  UnreadIsStream
  WindowIsFree
  AllConsumedStaysDefined
PROPERTIES
  DroppedAtEndOnly
