SPECIFICATION Spec
CONSTANTS
  Ceilings <- Two
  Amounts <- OneOrTwo
  Releases <- One
  MaxCalls = 2
  MaxFaults = 0
INVARIANT LedgerAgreesWithOrder
CHECK_DEADLOCK FALSE
