SPECIFICATION Spec
CONSTANTS
  Conn = {1, 2}
  Task = {"server", "sender"}
  Size = 2
  MaxPrinted = 4
  MaxInput = 1
  Resets = TRUE
INVARIANTS TypeOK TakesNoOlderByte OutputInOrder FreedIsQuiet
PROPERTIES ServerComesBack
CHECK_DEADLOCK FALSE
