SPECIFICATION RealtimeSpec
CONSTANTS
  r1 = r1
  r2 = r2
  s1 = s1
  s2 = s2
  p1 = p1
  None = None
  Foreign = Foreign
  Unset = Unset
  Replicas <- MCReplicas
  Handshakes <- MCHandshakes
  Loaded = 1
  NMsgs = 3
  Budget = 2
  MaxLen = 2
  MaxCrashes = 1
  MaxSeqFaults = 0
  MaxAppendFaults = 1
  MaxHandlerFaults = 0
  MaxLost = 1
  MaxDisconnects = 1
  Sessions <- TwoSessions
  Nodes <- MCReplicas
  Patches <- OnePatch
  MaxNodeCrashes = 1
  Typers <- TwoTypers
  Cap = 2
  Ttl = 2
  MaxTime = 5
  MaxDrops = 1
SYMMETRY Symmetry
CONSTRAINT OneFault
ACTION_CONSTRAINT Eager
INVARIANTS
  RealtimeTypeOK
  SeqUnique
  ReplayMeetsLive
  PresenceSound
  TypingSound
CHECK_DEADLOCK FALSE
