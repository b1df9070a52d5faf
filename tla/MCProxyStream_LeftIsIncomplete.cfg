SPECIFICATION Spec
CONSTANTS
  Requests = 2
  Cap = 3
  Traffics <- Split
CHECK_DEADLOCK FALSE
INVARIANTS
  LeftIsIncomplete
