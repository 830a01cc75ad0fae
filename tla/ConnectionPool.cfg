SPECIFICATION PoolSpec
CONSTANTS
  Workers = {w1, w2, w3}
  NoThread = NoThread
  poolSize_ = 3
INVARIANTS
  PoolTypeOK
  ExclusiveLoans
  PoolNoLostWakeup
  WaitsOnlyWhenShort
PROPERTIES
  ImplementsLeases
CHECK_DEADLOCK FALSE
