SPECIFICATION Spec
CONSTANTS
  NBytes = 4
  QueueSize = 1
INVARIANTS TypeOK BytesAccounted LossIsFlagged
PROPERTIES QueueErrorReported QueueDrains
CHECK_DEADLOCK FALSE
