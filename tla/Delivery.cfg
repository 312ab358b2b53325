SPECIFICATION DeliverySpec
CONSTANTS
  e1 = e1
  e2 = e2
  r1 = r1
  r2 = r2
  a1 = a1
  a2 = a2
  d1 = d1
  d2 = d2
  n1 = n1
  None = None
  Root = Root
  NoOwner = NoOwner
  Events <- MCEvents
  Replicas <- MCReplicas
  Times <- MCTimes
  Batch = 1
  MaxAttempts = 3
  MaxFaults = 2
  MaxStops = 1
  MaxTries = 3
  MaxSendFaults = 1
  MaxFetches = 1
  MaxEchoes = 1
  MaxSendEdits = 1
  Replies <- TwoReplies
  Broadcasts <- OneBroadcast
  Deletes <- TwoDeletes
  Cleaners <- OneCleaner
  MaxBulks = 1
  MaxAborts = 1
INVARIANTS
  DeliveryTypeOK
  DeliveredBeforeMarked
  AttemptsBoundDeliveries
  ClaimsDisjoint
  NoSpuriousDeadLetter
  SendSound
  CountExact
PROPERTIES
  EventuallyDispatched
  ImplementsAtLeastOnce
  PendingEnds
  CountHeals
CHECK_DEADLOCK FALSE
