SPECIFICATION FairSpec
CONSTANTS
  r1 = r1
  None = None
  Foreign = Foreign
  Replicas <- OneReplica
  Handshakes <- Either
  StartOnline = TRUE
  Loaded = 1
  NMsgs = 3
  Budget = 2
  MaxLen = 2
  MaxCrashes = 1
  MaxSeqFaults = 0
  MaxAppendFaults = 0
  MaxHandlerFaults = 0
  MaxLost = 0
  MaxDisconnects = 1
  PageLimit = 1
  MaxPages = 3
  MaxPending = 1
  MaxAttempts = 3
  MaxHttpFaults = 2
  MaxEvicts = 0
INVARIANTS
  NoSilentGap
PROPERTIES
  FetchSettles
  EventuallyShown
CHECK_DEADLOCK FALSE
