SPECIFICATION Spec
CONSTANTS
  TextLen = 2
  ReportLen = 2
  BufSize = 7
  MaxCalls = 2
INVARIANT StringIsInMemory
CHECK_DEADLOCK FALSE
