CONSTANTS
  Tops <- FourTops
  TickSize = 2
  HalfSpread = 1
  QuoteSize = 2
  SkewPerShare = 1
  MaxInventory = 4
  Threshold = 1
  MaxSpread = 4
  TradeSize = 2
  MaxPosition = 8
  MaxOpen = 4
  MaxTokens = 10
SPECIFICATION Spec
INVARIANTS BothSeeThePosition
CHECK_DEADLOCK FALSE
