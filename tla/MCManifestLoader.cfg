CONSTANTS
  Invocation = {w1, w2}
  first = first
  correction = correction
  rival = rival
  fileA = fileA
  fileB = fileB
  Delivery = {first, correction, rival}
  Placed <- MCPlaced
  BusinessDate <- MCBusinessDate
  Control <- MCControl
  Settlement <- MCSettlement
  MaxAttempts = 2
  None = None
SPECIFICATION Spec
SYMMETRY MCSymmetry
CHECK_DEADLOCK FALSE
INVARIANTS
  TypeOK
  ProcessesVerifiedBytes
  OneContentPerRevision
PROPERTIES
  DecidedOnce
  ImplementsPublicationGate
