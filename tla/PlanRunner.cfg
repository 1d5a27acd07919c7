SPECIFICATION FairSpec
CONSTANTS
  NodeCount = 4
  Plans <- AllPlans
  Modes = {"keep-going", "fail-fast"}
  BaseConcurrency = 3
  PlanConcurrency = 2
INVARIANTS RunnerIsExact PoisonIsExact
PROPERTIES ImplementsSchedule Terminates
CHECK_DEADLOCK FALSE
