SPECIFICATION Spec
CONSTANTS
  Readers = {w1}
  Lengths <- MixedLengths
  Invalid = {2}
  BufferSize = 2
INVARIANTS
  EveryMessageIsProcessed
CHECK_DEADLOCK FALSE
