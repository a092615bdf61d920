CONSTANTS
  Cap = 4
  Grace = 1
  Timeout = 2
  MaxAttempts = 2
  MaxRequest = 2
  Numbers = {0,1,2,3,4,5,6,7,8,9}
  Wide = {2}
  MaxResets = 0
  MaxDropped = 6
SPECIFICATION Spec
INVARIANTS TypeOK StrictlyIncreasing WindowExact CompleteUnlessStale StateMatchesWindow RequestIsExact
PROPERTIES HeldIsDelivered FrontIsAccounted
CHECK_DEADLOCK FALSE
