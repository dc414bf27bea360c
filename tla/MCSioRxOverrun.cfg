SPECIFICATION Spec
CONSTANTS
  NBytes = 3
  QueueSize = 1
PROPERTY OverrunRequestCleared
CHECK_DEADLOCK FALSE
