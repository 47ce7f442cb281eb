CONSTANTS
  Worker = {w1, w2}
  RunId = {r1, r2}
  None = None
  RawRecord <- MCRawRecord
  Batches <- MCBatches
  RuleFiles <- MCRuleFiles
  Settlements <- MCSettlements
SPECIFICATION Spec
SYMMETRY MCSymmetry
INVARIANTS
  MismatchReported
