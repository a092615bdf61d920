CONSTANTS
  Cap = 4
  Grace = 1
  Timeout = 1
  MaxAttempts = 2
  MaxRequest = 2
  Numbers = {1,2,3,4}
  Wide = {}
  MaxResets = 1
  MaxDropped = 0
  MaxMessages = 4
  Batch = 2
  Room = 2
  Large = {2,3}
  MaxLate = 1
  StoreSlots = 2
  IdleExit = 4
  Wait = 1
SPECIFICATION PipelineSpec
INVARIANTS SentIsStored EndComesLast HeldAtExitIsLoud
CHECK_DEADLOCK FALSE
