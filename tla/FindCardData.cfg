CONSTANTS
  Worker = {w1, w2}
  new = new
  replay = replay
  reuse = reuse
  sensitive = sensitive
  enveloped = enveloped
  Record = {new, sensitive, enveloped}
  Raw <- MCRaw
  MaxAttempts = 2
  None = None
SPECIFICATION Spec
CHECK_DEADLOCK FALSE
INVARIANTS
  CardDataStaysOut
