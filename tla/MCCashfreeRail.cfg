SPECIFICATION FairSpec
CONSTANTS
  Ceilings <- Two
  Amounts <- OneOrTwo
  Releases <- None
  MaxCalls = 5
  MaxFaults = 3
INVARIANTS LedgerAgreesWithOrder OneAttempt
PROPERTIES DoubtIsSettled KeepsContract
CHECK_DEADLOCK FALSE
