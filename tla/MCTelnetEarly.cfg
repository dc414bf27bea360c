SPECIFICATION Spec
CONSTANTS
  Conn = {1, 2}
  Task = {"server", "sender"}
  Size = 2
  MaxPrinted = 3
  MaxInput = 2
  Resets = TRUE
INVARIANTS CallsAreSynchronous
CHECK_DEADLOCK FALSE
