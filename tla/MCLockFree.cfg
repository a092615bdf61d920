CONSTANTS
  Readers = {r1}
  Writer = w
  Width = 2
  MaxStores = 3
  None = None
  p1 = p1
  c1 = c1
  c2 = c2
SPECIFICATION LockFreeSpec
INVARIANTS NotTorn
PROPERTIES ReadersCatchUp EveryCallReturns NothingStranded
