CONSTANTS
  Cap = 4
  Grace = 1
  Timeout = 1
  MaxAttempts = 2
  MaxRequest = 2
  Numbers = {1,2,3,4}
  Wide = {}
  MaxResets = 1
  MaxDropped = 0
  MaxMessages = 2
  Batch = 1
  Room = 2
  Large = {}
  MaxLate = 0
  StoreSlots = 2
  IdleExit = 4
  Wait = 1
SPECIFICATION PipelineSpec
INVARIANTS UnrecoveredLossIsLoud
CHECK_DEADLOCK FALSE
