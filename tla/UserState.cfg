SPECIFICATION Spec
CONSTANTS
  x1 = x1
  x2 = x2
  x3 = x3
  y1 = y1
  y2 = y2
  g1 = g1
  Sockets <- Three
  MaxJoins = 1
  MaxFaults = 1
  MaxLost = 1
  MaxCrashes = 1
  Chans <- OneChannel
  Calls <- Three
  MaxMsg = 2
  MaxReadFaults = 1
  NoCall = NoCall
  NoCache = NoCache
  Tabs <- Two
  MaxTokens = 3
  MaxCuts = 1
  MaxEnds = 1
  Files <- Two
  Presses <- Two
  MaxAttempts = 2
  MaxSessions = 3
  MaxNetFaults = 1
  MaxMoves = 1
SYMMETRY Symmetry
INVARIANTS
  UserStateTypeOK
  EvictionSound
  AckedStaysRead
  CachesSound
  BrowserSound
CHECK_DEADLOCK FALSE
