CONSTANTS
  Worker = {w1, w2}
  RunId = {r1, r2, r3}
  None = None
  RawRecord <- MCRawRecord
  Batches <- MCBatches
  RuleFiles <- MCRuleFiles
  Settlements <- MCNoEvidence
SPECIFICATION Spec
SYMMETRY MCSymmetry
CHECK_DEADLOCK FALSE
INVARIANTS
  TypeOK
  JournalTruth
  ArrivalsReconciled
  IdentityUnique
  LedgerBalanced
PROPERTIES
  EvidenceIsPermanent
  ImplementsDerivedBook
