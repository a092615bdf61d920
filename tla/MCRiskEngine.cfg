CONSTANTS
  t1 = t1
  t2 = t2
  t3 = t3
  Tokens = {t1, t2, t3}
  Size = 4
  Home <- Collide
  Vacant = Vacant
  Buckets = 2
  BucketNs = 1
  MaxTime = 2
  Locates = {l1, l2}
  Shares = {1, 2}
  Prices = {1, 2}
  AllLimits <- TwoLimits
  StartPositions = {0}
SPECIFICATION Spec
INVARIANTS ExposureExact WorstCaseWithinLimit NoSelfCross EveryOrderIsFound WindowIsHonest
PROPERTIES KillSwitchHolds
SYMMETRY Alike
