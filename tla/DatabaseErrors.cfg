SPECIFICATION Spec
CONSTANTS
  Workers = {w1, w2}
  NoThread = NoThread
  poolSize_ = 2
  Methods = {"executeQuery", "fetchQuery"}
INVARIANTS
  ErrorsReleaseConnections
CHECK_DEADLOCK FALSE
