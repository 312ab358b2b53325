SPECIFICATION Spec
CONSTANTS
  r1 = r1
  None = None
  Foreign = Foreign
  Replicas <- OneReplica
  Handshakes <- NotInBuffer
  StartOnline = TRUE
  Loaded = 1
  NMsgs = 2
  Budget = 2
  MaxLen = 1
  MaxCrashes = 1
  MaxSeqFaults = 1
  MaxAppendFaults = 1
  MaxHandlerFaults = 1
  MaxLost = 1
  MaxDisconnects = 2
  PageLimit = 1
  MaxPages = 3
  MaxPending = 1
  MaxAttempts = 3
  MaxHttpFaults = 3
  MaxEvicts = 1
CONSTRAINT TwoFaults
INVARIANTS
  ClientTypeOK
  GapFetchingIsDriven
CHECK_DEADLOCK FALSE
