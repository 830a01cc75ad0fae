SPECIFICATION FairSpec
CONSTANTS
  Workers = {w1, w2}
  Emails = {e1, e2}
  MaxRequests = 4
  UniqueEmail = FALSE
  poolSize_ = 3
INVARIANTS
  TypeOK
  AccountsAreBounded
  SignedInUsersHaveStatus
  DuplicatesAreBounded
PROPERTIES
  RequestsAreAnswered
CHECK_DEADLOCK FALSE
