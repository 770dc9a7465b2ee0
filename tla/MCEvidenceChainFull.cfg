SPECIFICATION Spec
CONSTANTS
  MaxEntries = 3
  MaxFaults = 2
  FailureLeaves <- AnythingLeft
INVARIANTS AcknowledgedSurvives
