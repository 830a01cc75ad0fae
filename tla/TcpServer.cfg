SPECIFICATION FairSpec
CONSTANTS
  Workers = {w1, w2}
  NoThread = NoThread
  Emails = {e1}
  MaxConnections = 3
  poolSize_ = 2
INVARIANTS
  TypeOK
  OpenSocketIsServed
PROPERTIES
  StuckForGood
  AcceptsWhenClosed
  HandlersReturn
CHECK_DEADLOCK FALSE
