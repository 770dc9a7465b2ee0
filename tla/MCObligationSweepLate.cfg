SPECIFICATION Spec
CONSTANTS
  RailIds <- ReservePay
  Policies <- MCPolicies
  Moments <- MCMoments
  Ceilings <- Two
  Amounts <- One
  EndDates <- NoEnd
  MaxCalls = 2
  MaxRestates = 1
INVARIANT OverdueIsNoGuess
CHECK_DEADLOCK FALSE
