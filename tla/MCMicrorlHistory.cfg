SPECIFICATION HistSpec
CONSTANTS
  RingLen = 9
  Lines <- EnteredLines
INVARIANTS SavingEnds WalkEndsAtEnd
PROPERTIES HistoryAsSpecified
