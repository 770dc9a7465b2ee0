SPECIFICATION Spec
CONSTANTS
  Ceiling = 4
  Actuals <- HalfOnly
  RefundAttempts = 3
  OthersAmounts <- NoAmounts
  MaxOthers = 0
  MaxFaults = 3
INVARIANTS CompensationIsOwed
