SPECIFICATION FairSpec
CONSTANTS
  MaxEntries = 4
  MaxFaults = 3
  FailureLeaves <- NothingLeft
INVARIANTS AcknowledgedSurvives CheckpointsHold CheckpointsBind
PROPERTIES StoreOpens ImplementsLog
