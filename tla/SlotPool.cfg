SPECIFICATION FairSpec
CONSTANTS
  Clients = {c1, c2, c3, c4}
  Wants = {0, 1, 4, 9}
  RawBudget = 5
INVARIANTS PoolIsExact
PROPERTIES GrantsAreFair NoStarvation
