CONSTANTS
  t1 = t1
  t2 = t2
  t3 = t3
  Tokens = {t1, t2, t3}
  Size = 4
  Home <- Collide
  Vacant = Vacant
  Buckets = 10
  BucketNs = 2
  MaxTime = 21
  Locates = {l1}
  Shares = {1}
  Prices = {1}
  AllLimits <- OneMessage
  StartPositions = {0}
SPECIFICATION Spec
INVARIANTS NeverMoreThanTheLimitPerSecond
SYMMETRY Alike
