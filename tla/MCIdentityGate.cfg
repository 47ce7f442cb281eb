CONSTANTS
  Worker = {w1, w2}
  new = new
  replay = replay
  reuse = reuse
  sensitive = sensitive
  enveloped = enveloped
  Record = {new, replay, reuse, sensitive}
  Raw <- MCRaw
  MaxAttempts = 2
  None = None
SPECIFICATION FairSpec
CHECK_DEADLOCK FALSE
INVARIANTS
  TypeOK
  PublishedHasObject
  HandledIsDurable
  ArchivedFirst
PROPERTIES
  ImplementsAcceptOnce
  PendingResolved
  RecordsLeave
