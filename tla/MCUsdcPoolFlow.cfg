CONSTANTS
  u1 = u1
  u2 = u2
  g1 = g1
  g2 = g2
  alarmPoll = alarmPoll
  Users = {u1, u2}
  Gateways = {g1, g2}
  Requests = {}
  AlarmPoll = alarmPoll
  MaxEntries = 2
  Amounts = {1}
  Unit = "usdc"
  SeedPoints = 0
  Horizon = 1
  EntryOpensAt = 0
  EntryClosesAt = 1
  MarketCloseTime = 1
  ExpectedResolveAt = {0}
  MinLiquidity = 1
  RakeBps = 0
  MaxGrace = 0
  Graces = {0}
  RequestVoidReasons = {"ADMIN_VOID"}
  PollInterval = 1
SPECIFICATION FlowSpec
INVARIANTS
  EveryEntryHasItsLock
  LocksPaidAsThePoolSays
SYMMETRY Symmetry
