SPECIFICATION Spec
CONSTANTS
  Workers = {w1, w2}
  NoThread = NoThread
  poolSize_ = 2
  Methods = {"emailExists", "executeQuery"}
INVARIANTS
  ReturnedMeansStored
CHECK_DEADLOCK FALSE
