SPECIFICATION Spec
CONSTANTS
  p1 = p1
  p2 = p2
  Procs <- Two
  Streams <- BothStreams
  CitedRows <- TwoRows
  Edits <- NewRows
  Pages <- SomePages
  copies <- Committed
  MIN_FRAGMENT = 2
  MaxChanges = 1
  MaxFaults = 2
  MaxDeviations = 1
SYMMETRY Alike
INVARIANTS
  FindingIsTheAnswer ChainIsWhole DisagreementIsReal
  VerdictIsThePages VerifiedIsOfThisQuote ExportIsPinned
PROPERTIES BrokenIsNeverExtended ImplementsLog
CHECK_DEADLOCK FALSE
