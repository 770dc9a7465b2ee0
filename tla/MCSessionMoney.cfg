SPECIFICATION FairSpec
CONSTANTS
  Payees <- OnePayee
  AllowedPayees <- OnePayee
  FirstPayee <- MCFirstPayee
  PartialDebit = TRUE
  PartialRelease = FALSE
  MaxBlockAmount = 2
  CustomerBalance = 4
  InitialCaps <- Cap3
  Amounts <- OneOrTwo
  CapChoices <- NoCaps
  MaxAsks = 4
  MaxRaises = 0
  MaxNotes = 0
  MaxFaults = 1
  Revocable = FALSE
INVARIANTS LedgerAgreesWithRail NoBlockOutOfReach BudgetHolds EvidenceMatchesMoney AdjudicatorFollowsEngine FindingIsTrue
PROPERTIES DoubtFreezesMoney DoubtIsSettled AskIsAnswered
CHECK_DEADLOCK FALSE
