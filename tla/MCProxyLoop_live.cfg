SPECIFICATION FairSpec
CONSTANTS
  MaxConn = 2
  MaxFd = 5
  MaxBacklog = 1
  NeedDns = TRUE
  DnsMayLose = TRUE
CHECK_DEADLOCK FALSE
PROPERTIES
  Reaped
  Served
  Admitted
