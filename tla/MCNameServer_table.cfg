SPECIFICATION FairSpec
CONSTANTS
  Clients = {c1, c2}
  c1 = c1
  c2 = c2
  s1 = s1
  s2 = s2
  s3 = s3
  Servers <- TwoServers
  Table <- TwoClients
  IsRoundRobin = FALSE
  FilesReadable = FALSE
  Losing = TRUE
  Duplicating = FALSE
  MalformedSent = TRUE
  MaxQueries = 2
  MaxAnswers = 5
CHECK_DEADLOCK FALSE
INVARIANTS
  OwnServer
  FreshAnswer
  Survives
PROPERTIES
  Resolved
