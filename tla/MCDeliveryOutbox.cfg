CONSTANTS
  graded = graded
  b1 = b1
  b2 = b2
  Deliveries = {graded}
  Graded = {graded}
  Bridges = {b1, b2}
  DeadAttempts = 2
  MaxLocalAttempts = 2
  MaxTokens = 2
  MaxCrashes = 1
  MaxOverruns = 1
  MaxRulings = 2
SPECIFICATION Spec
INVARIANTS
  TypeOK
  AttemptsMatchTrail
  UnsentIsTrue
PROPERTIES
  ImplementsDelivery
  QueuedIsConcluded
CHECK_DEADLOCK FALSE
