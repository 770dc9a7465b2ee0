SPECIFICATION Spec
CONSTANTS
  Payees <- BothPayees
  AllowedPayees <- OnePayee
  FirstPayee <- MCFirstPayee
  PartialDebit = TRUE
  PartialRelease = TRUE
  MaxBlockAmount = 2
  CustomerBalance = 2
  InitialCaps <- Cap1
  Amounts <- OneOrTwo
  CapChoices <- WiderCaps
  MaxAsks = 2
  MaxRaises = 2
  MaxNotes = 1
  MaxFaults = 1
  Revocable = TRUE
INVARIANTS ConsentSpentOnce RestartLosesNothing
PROPERTIES RevocationFailsClosed ImplementsGrant
CHECK_DEADLOCK FALSE
