SPECIFICATION Spec
CONSTANTS
  Payees <- OnePayee
  AllowedPayees <- OnePayee
  FirstPayee <- MCFirstPayee
  PartialDebit = TRUE
  PartialRelease = FALSE
  MaxBlockAmount = 2
  CustomerBalance = 2
  InitialCaps <- Cap3
  Amounts <- OneOrTwo
  CapChoices <- NoCaps
  MaxAsks = 4
  MaxRaises = 0
  MaxNotes = 0
  MaxFaults = 1
  Revocable = FALSE
INVARIANT NothingChargedIsTrue
CHECK_DEADLOCK FALSE
