SPECIFICATION Spec
CONSTANTS
  Clients = {c1, c2}
  c1 = c1
  c2 = c2
  s1 = s1
  s2 = s2
  s3 = s3
  Servers <- ThreeServers
  Table <- TwoClients
  IsRoundRobin = TRUE
  FilesReadable = FALSE
  Losing = FALSE
  Duplicating = TRUE
  MalformedSent = TRUE
  MaxQueries = 1
  MaxAnswers = 5
CHECK_DEADLOCK FALSE
PROPERTIES
  ImplementsRoundRobin
