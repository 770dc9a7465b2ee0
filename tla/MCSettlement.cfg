SPECIFICATION FairSpec
CONSTANTS
  Ceiling = 4
  Actuals <- MCActuals
  RefundAttempts = 3
  OthersAmounts <- OneOrTwo
  MaxOthers = 1
  MaxFaults = 3
INVARIANTS ReturnedOnce SettledIsNet SettledReconciles TrailIsTrue
PROPERTIES DebtIsPaid
