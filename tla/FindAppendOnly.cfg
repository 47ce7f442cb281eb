CONSTANTS
  Worker = {w1, w2}
  RunId = {r1, r2}
  None = None
  RawRecord <- MCRawRecord
  Batches <- MCBatches
  RuleFiles <- MCRuleFiles
  Settlements <- MCNoSettlements
SPECIFICATION Spec
SYMMETRY MCSymmetry
CHECK_DEADLOCK FALSE
PROPERTIES
  LedgerAppendOnly
