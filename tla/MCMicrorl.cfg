SPECIFICATION Spec
CONSTANTS
  LineLen = 6
  TokenNmb = 3
  RingLen = 4
  Commands <- MCCommands
  PlainKeys = {65, 32, 13, 27, 127, 1, 2, 5, 6, 9, 10, 11, 14, 16, 18, 21}
  SequenceKeys = {91, 65, 66, 67, 68, 55, 56, 126, 13}
INVARIANTS TypeOK TerminalShowsLine
PROPERTIES EditsAsSpecified EnteredLineIsExecuted
