SPECIFICATION FairSpec
CONSTANTS
  Workers = {w1, w2}
  NoThread = NoThread
  Emails = {e1}
  MaxConnections = 2
  poolSize_ = 1
PROPERTIES
  EveryClientIsAccepted
CHECK_DEADLOCK FALSE
