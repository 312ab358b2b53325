SPECIFICATION EvictSpec
CONSTANTS
  s1 = s1
  s2 = s2
  s3 = s3
  Sockets <- Two
  MaxJoins = 1
  MaxFaults = 0
  MaxLost = 0
  MaxCrashes = 0
SYMMETRY Symmetry
INVARIANTS
  NoConnectedEvicted
CHECK_DEADLOCK FALSE
