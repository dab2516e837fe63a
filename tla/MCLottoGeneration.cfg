CONSTANTS
  g1 = g1
  w1 = w1
  w2 = w2
  Games <- OneGame
  Workers = {w1, w2}
  Counts = {1, 2}
  MaxAttempts = 2
  MaxFaults = 3
SPECIFICATION GenerationSpec
INVARIANTS
  PicksAreBacked
  TicketsReconcile
  GivingUpIsAnnounced
  LeaseExcludes
PROPERTIES
  EveryGameIsSettled
CHECK_DEADLOCK FALSE
