SPECIFICATION Spec
CONSTANTS
  e1 = e1
  e2 = e2
  r1 = r1
  r2 = r2
  None = None
  Events <- MCEvents
  Replicas <- MCReplicas
  Times <- MCTimes
  Batch = 1
  MaxAttempts = 2
  MaxFaults = 0
  MaxStops = 0
INVARIANT
  NoDoubleDispatch
CHECK_DEADLOCK FALSE
