SPECIFICATION Spec
CONSTANTS
  MaxConn = 3
  MaxFd = 5
  MaxBacklog = 1
  NeedDns = TRUE
  DnsMayLose = TRUE
CHECK_DEADLOCK FALSE
INVARIANTS
  ListOK
  NeverExits
  CountdownExact
  IInv
PROPERTY
  ImplementsRounds
