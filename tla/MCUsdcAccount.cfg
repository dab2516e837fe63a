CONSTANTS
  d1 = d1
  k1 = k1
  e1 = e1
  b1 = b1
  w1 = w1
  w2 = w2
  Deposits = {d1}
  Withdrawals = {k1}
  Entries = {e1}
  Bonds = {b1}
  DepositAmount = 3
  WithdrawalAmount = 1
  EntryAmount = 2
  BondAmount = 1
  Amount <- MCAmount
  Credits = {3}
  Workers = {w1, w2}
  Contested = {d1, e1, b1}
SPECIFICATION Spec
INVARIANTS
  TypeOK
  OpenedOnce
  BalanceMatchesRecords
  ClosedOnce
SYMMETRY Symmetry
CHECK_DEADLOCK FALSE
