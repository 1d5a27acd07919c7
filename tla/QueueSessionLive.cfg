SPECIFICATION FairSpec
CONSTANTS
  Commands = {c1, c2, c3}
  Wants = {4}
  RawBudget = 1
  MaxCrashes = 1
PROPERTIES SessionsEnd
CHECK_DEADLOCK FALSE
