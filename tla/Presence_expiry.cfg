SPECIFICATION PresenceSpec
CONSTANTS
  s1 = s1
  s2 = s2
  s3 = s3
  n1 = n1
  n2 = n2
  p1 = p1
  Unset = Unset
  Sessions <- OneSession
  Nodes <- MCNodes
  Patches <- NoPatch
  MaxNodeCrashes = 0
INVARIANTS
  ConnectedIsListed
CHECK_DEADLOCK FALSE
