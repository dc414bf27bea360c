SPECIFICATION LinkSpec
CONSTANTS
  Plain = {"x"}
  Origin = {1, 2, 3}
  MaxSize = 3
  Alloc <- LongShort
  PoolSize = 6
  MboxSize = 1
  NFrames = 3
  Payloads <- PayloadChoices
  QueueSize = 2
  MaxLoss = 2
INVARIANTS TypeOK CursorAtRecved PbufsConserved DamageStaysInFrame DamageEndsWithNextFrame InOrderOnce PinnedPbufsBounded
PROPERTIES FramesAsSpecified FramesArrive
