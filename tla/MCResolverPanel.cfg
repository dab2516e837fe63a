CONSTANTS
  Sizes = {1, 3}
  Votes <- SplitVotes
  Bodies <- SomeBodies
  Weight <- EqualWeights
  Bond = 1
  Deposit = 2
  FeePool = 3
  Reputation = 1
  Gain = 1
  Loss = 2
  MaxReputation = 2
  w1 = w1
  w2 = w2
  Workers = {w1, w2}
  Concurrency <- OneAtATimeOnThree
  MaxRequests = 3
  MaxGiven = 1
  MaxDeaths = 1
SPECIFICATION Spec
INVARIANTS
  LedgerExplainsBond
  JudgedOnce
  ServedIsSettled
  PaidForCorrectnessInTime
SYMMETRY Symmetry
CHECK_DEADLOCK FALSE
