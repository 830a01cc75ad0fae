SPECIFICATION DeliverySpec
CONSTANTS
  Workers = {w1, w2}
  NoThread = NoThread
  Emails = {e1, e2}
  MaxConnections = 2
  poolSize_ = 2
INVARIANTS
  SentToRecipient
CHECK_DEADLOCK FALSE
