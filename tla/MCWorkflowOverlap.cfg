CONSTANTS
  Settlement <- MCThree
  Event <- MCInvalidated
  UtcDate <- MCUtcDate
  Processed <- MCProcessed
  MaxAttempts = 0
  None = None
SPECIFICATION Spec
CHECK_DEADLOCK FALSE
INVARIANTS
  FinanceViewsAgree
  ReconciledMeansEqual
PROPERTIES
  StateMovesForward
  ImplementsPublicationGate
