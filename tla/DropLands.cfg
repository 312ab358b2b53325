SPECIFICATION OrderingSpec
CONSTANTS
  i1 = i1
  i2 = i2
  i3 = i3
  m1 = m1
  m2 = m2
  Items <- MCItems
  Movers <- MCMovers
  Stride = 4
  Renorm = 2
  MaxBatch = 3
  MinGap = 1
  Limit = 14
  Nothing = Nothing
  Deleted = Deleted
INVARIANT DropLands
CHECK_DEADLOCK FALSE
