CONSTANTS
  Settlement <- MCTwoDates
  Event <- MCTwoPayments
  UtcDate <- MCUtcDate
  Processed <- MCProcessed
  MaxAttempts = 1
  None = None
SPECIFICATION FairSpec
CHECK_DEADLOCK FALSE
INVARIANTS
  TypeOK
  ProcessedAsAUnit
  MartsWaitForEvidence
  LedgerFollowsPosted
  PostedIsLedgered
  StateIsCurrent
PROPERTIES
  ExecutionsEnd
