CONSTANTS
  MaxAmount = 2
  MaxEvents = 4
  Event <- MCEvent
  Arrivals <- MCArrivals
  RuleFiles <- MCRuleFiles
SPECIFICATION MCSpec
CHECK_DEADLOCK FALSE
INVARIANTS
  TypeOK
  ImplementationsAgree
  LedgerCarriesPaymentState
  SettlementMatchesLedger
  TransactionAtomic
  LoadGateSuffices
