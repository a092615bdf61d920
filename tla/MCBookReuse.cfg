CONSTANTS
  Hash <- Clustered
  Empty = Empty
  Refs = {1, 2, 3, 4}
  Locates = {1}
  Prices = {p1, p2}
  Shares = {1, 2}
  Objects = {m1, m2, m3}
  MapCapacity = 2
  Free = Free
  Absent = Absent
  ReusesLive = TRUE
SYMMETRY Interchangeable
SPECIFICATION BookSpec
INVARIANT LevelsAreTheOrders
