CONSTANTS
  Invocation = {w1, w2}
  first = first
  correction = correction
  rival = rival
  fileA = fileA
  fileB = fileB
  Delivery = {first, correction}
  Placed <- MCPlaced
  BusinessDate <- MCBusinessDate
  Control <- MCControl
  Settlement <- MCSettlement
  MaxAttempts = 2
  None = None
SPECIFICATION FairSpec
CHECK_DEADLOCK FALSE
PROPERTIES
  RegisteredIsStarted
