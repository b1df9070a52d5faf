SPECIFICATION FairSpec
CONSTANTS
  Requests = 4
  Cap = 5
  Traffics <- All
CHECK_DEADLOCK FALSE
INVARIANTS
  NothingLost
  
  
  Defined

  
