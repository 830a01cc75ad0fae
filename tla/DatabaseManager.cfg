SPECIFICATION FairSpec
CONSTANTS
  Workers = {w1, w2}
  NoThread = NoThread
  poolSize_ = 3
  Methods = {"getPasswordHash", "getRoomById", "updateFriendRequest", "registerUser"}
INVARIANTS
  TypeOK
  ResultTellsStored
  WritesStayWithHolder
PROPERTIES
  OnlyErrorsLoseConnections
  CallsEnd
  ImplementsBudget
CHECK_DEADLOCK FALSE
