SPECIFICATION Spec
CONSTANTS
  Commands = {c1, c2, c3}
  Wants = {1, 4}
  RawBudget = 2
  MaxCrashes = 1
INVARIANTS TotalWithinBudget
CHECK_DEADLOCK FALSE
