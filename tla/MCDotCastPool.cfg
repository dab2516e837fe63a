CONSTANTS
  u1 = u1
  u2 = u2
  req1 = req1
  alarmPoll = alarmPoll
  Users = {u1, u2}
  Requests = {req1}
  AlarmPoll = alarmPoll
  MaxEntries = 2
  Amounts = {1, 2}
  Unit = "points"
  SeedPoints = 3
  Horizon = 2
  EntryOpensAt = 0
  EntryClosesAt = 1
  MarketCloseTime = 1
  ExpectedResolveAt = {1}
  MinLiquidity = 2
  RakeBps = 5000
  MaxGrace = 0
  Graces = {0}
  RequestVoidReasons = {"ADMIN_VOID"}
  PollInterval = 1
SPECIFICATION Spec
INVARIANTS
  TypeOK
  TotalsMatchEntries
  EntriesResolvedTogether
  MoneyConserved
PROPERTIES
  BookClosed
  TerminalLeftOnlyByLatePoll
  AlarmLostOnlyToStalePoll
SYMMETRY Symmetry
