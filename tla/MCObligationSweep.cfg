SPECIFICATION Spec
CONSTANTS
  RailIds <- EveryKind
  Policies <- MCPolicies
  Moments <- MCMoments
  Ceilings <- OneOrTwo
  Amounts <- One
  EndDates <- EndsOrNot
  MaxCalls = 2
  MaxRestates = 1
INVARIANTS OverdueIsHeld NothingIsForgotten NotedOnce RailIsNotAccusedEarly
PROPERTIES MetIsFinal
CHECK_DEADLOCK FALSE
