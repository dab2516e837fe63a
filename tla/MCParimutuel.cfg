CONSTANTS
  MaxEntries = 4
  Amounts = {1, 2, 3}
  Times = {1, 2}
  Rakes = {0, 2500, 10000}
SPECIFICATION Spec
INVARIANTS
  PayoutsConserveStakes
  WinningsAreProRata
  LargerOrEarlierStakeWinsNoLess
  PreviewIsHonoured
CHECK_DEADLOCK FALSE
