SPECIFICATION Spec
CONSTANTS
  LineLen = 6
  TokenNmb = 3
  RingLen = 4
  Commands <- MCCommands
  PlainKeys = {65, 32, 13}
  SequenceKeys = {}
PROPERTY AllowedLineIsExecuted
