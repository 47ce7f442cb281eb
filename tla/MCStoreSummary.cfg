CONSTANTS
  Worker = {w1, w2}
  RunId = {r1, r2}
  None = None
  RawRecord <- MCRawRecord
  Batches <- MCTwoBatches
  RuleFiles <- MCRuleFiles
  Settlements <- MCTwoSettlements
SPECIFICATION FairSummarySpec
INVARIANTS
  ComparisonCurrent
  SummaryHolds
PROPERTIES
  CallsEnd
