SPECIFICATION Spec
CONSTANTS
  QueueLength = 1
  GraphSize = 3
  Rows = 2
  Counts = {1, 2, 3}
  MaxKeys = 3
  MaxSeconds = 4
INVARIANTS TypeOK NoKeyLost GraphIsOfOneMoment FiguresAgree
PROPERTY EveryKeyIsHandled
CHECK_DEADLOCK FALSE
