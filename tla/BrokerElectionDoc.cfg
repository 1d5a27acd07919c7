SPECIFICATION Spec
CONSTANTS
  Brokers = {b1, b2, b3}
  Ghost = ghost
  None = none
  MayStop = {}
  MaxCrashes = 0
  AtomicListen = TRUE
INVARIANTS OnlyOneServes
CHECK_DEADLOCK FALSE
