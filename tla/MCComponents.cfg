CONSTANTS
  x1 = x1
  x2 = x2
  y1 = y1
  y2 = y2
  y3 = y3
  Empty = Empty
  Free = Free
  Absent = Absent
  Hash <- Clustered
  Refs = {1, 2, 3, 4}
  Locates = {1}
  Prices = {x1, x2}
  Shares = {1, 2}
  Objects = {y1, y2, y3}
  MapCapacity = 2
  ReusesLive = FALSE
  None = None
  Producers = {x1, x2}
  Consumers = {y1, y2}
  Cap = 2
  Word = 16
  Start = 15
  MaxItems = 3
  Depth = 3
  MaxBatch = 4
  Sequences = 4
  MaxCount = 2
  MaxOutstanding = 2
  InitialTimeout = 1
  MaxTimeout = 2
  MaxAttempts = 2
  Granularity = 2
  MaxBlock = 4
  ChunkBytes = 6
  Requests = {0, 2, 3, 5}
  MaxChunks = 2
  MaxLive = 4
  MaxShares = 2
  MaxWire = 2
  BufferSize = 6
  Lengths = {0, 1, 3, 5}
  MaxFrames = 3
  Base = 2
  TokenLen = 4
  CounterWord = 8
  MaxTokens = 6
  SidePrices = {1, 2, 3, 4}
  Quantities = {0, 1, 2}
  Unused = Unused
SPECIFICATION ComponentsSpec
INVARIANTS FileIsReadWhole EveryGapIsSettled BuffersHaveOneOwner BlocksAreDisjoint ClientSeesTheOrder TokensAscendUntilExhausted LayoutsAgree DecodersAgree MessagesSurvive PacketsSurvive OrdersSurvive EveryReferenceIsFound LevelsAreTheOrders FeedIsObeyed NoDataRace FifoPerProducer Conserved
SYMMETRY Interchangeable
CHECK_DEADLOCK FALSE
