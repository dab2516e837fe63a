CONSTANTS
  u1 = u1
  alarmPoll = alarmPoll
  Users = {u1}
  Requests = {}
  AlarmPoll = alarmPoll
  MaxEntries = 2
  Amounts = {1}
  Unit = "points"
  SeedPoints = 3
  Horizon = 3
  EntryOpensAt = 0
  EntryClosesAt = 1
  MarketCloseTime = 1
  ExpectedResolveAt = {1}
  MinLiquidity = 2
  RakeBps = 5000
  MaxGrace = 0
  Graces = {0}
  RequestVoidReasons = {"ADMIN_VOID"}
  PollInterval = 2
SPECIFICATION FairSpec
PROPERTIES
  LockedPoolIsResolvedForGood
