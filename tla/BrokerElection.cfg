SPECIFICATION FairSpec
CONSTANTS
  Brokers = {b1, b2, b3}
  Ghost = ghost
  None = none
  MayStop = {b1, b2, b3}
  MaxCrashes = 1
  AtomicListen = FALSE
INVARIANTS UncontendedIsSole RaceLeavesServer
PROPERTIES SpawnLeadsToService
CHECK_DEADLOCK FALSE
