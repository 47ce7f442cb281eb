CONSTANTS
  Settlement <- MCTwoDates
  Event <- MCOrphans
  UtcDate <- MCUtcDate
  Processed <- MCProcessed
  MaxAttempts = 1
  None = None
SPECIFICATION Spec
CHECK_DEADLOCK FALSE
INVARIANTS
  UnauthorizedExcluded
