SPECIFICATION FairSpec
CONSTANTS
  Readers = {w1, w2}
  Lengths <- MixedLengths
  Invalid = {2}
  BufferSize = 2
INVARIANTS
  TypeOK
  HandledOnceInOrder
  LossNeedsCrowding
PROPERTIES
  AloneIsHeard
CHECK_DEADLOCK FALSE
