SPECIFICATION Spec
CONSTANTS
  a = a
  b = b
  Own = Own
  Same = Same
  NoUses = NoUses
  NoDir = NoDir
INVARIANTS PlansAreOrdered TargetsAreComplete CommandLineIsRead
CHECK_DEADLOCK FALSE
