SPECIFICATION Spec
CONSTANTS
  x1 = x1
  x2 = x2
  x3 = x3
  y1 = y1
  y2 = y2
  y3 = y3
  y4 = y4
  z1 = z1
  z2 = z2
  Pair <- Two
  Requests <- Three
  MaxRows = 3
  PinMsgs <- Three
  Pinners <- Three
  HardCap = 2
  NoPinner = NoPinner
  NoMsg = NoMsg
  Reactors <- Two
  Emojis <- Two
  Toggles <- Three
  MaxKinds = 1
  NoToggle = NoToggle
  NoRow = NoRow
  Users <- TheThree
  Founder = y3
  Acts <- Three
  MaxUses = 1
  Persons <- Four
  DmCalls <- Three
  GroupMax = 3
  NoIcon = NoIcon
  Uploads <- OnlyOne
  Completes <- Two
  Sends <- Two
  NoSend = NoSend
  Items <- Three
  Movers <- Three
  Stride = 4
  Renorm = 2
  MaxBatch = 3
  MinGap = 1
  Limit = 14
  Nothing = Nothing
  Deleted = Deleted
  ReminderCalls <- Three
  Workers <- Two
  MaxJobTries = 2
  MaxReminderFaults = 1
  MaxStalls = 1
  Jobs <- Two
  Probes = 2
  MaxThreads = 3
  MaxDeaths = 1
  Pages <- TwoPages
  MaxEdits = 2
  HistoryCap = 1
  MaxUpsets = 1
  NoPage = NoPage
SYMMETRY Symmetry
INVARIANTS
  WorkspaceTypeOK
  FriendsCorrect
  PinsAnnounced
  SeatsAccounted
  BarredStayOut
  RolesCorrect
  GroupSound
  AttachmentsSound
  EndDropsLand
  RemindersSound
  RunnerSound
  EditsSound
PROPERTIES
  CapsImplemented
  LinkedForGood
CHECK_DEADLOCK FALSE
