CONSTANTS
  Cap = 2
  Grace = 2
  Timeout = 2
  MaxAttempts = 2
  MaxRequest = 1
  Numbers = {0, 1, 2, 3, 4}
  Wide = {}
  MaxResets = 1
  MaxDropped = 0
SPECIFICATION FairSpec
PROPERTIES ImplementsOrderedFeed HeldIsReleased
CHECK_DEADLOCK FALSE
