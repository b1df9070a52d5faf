SPECIFICATION FairSpec
CONSTANTS
  Nodes = {c1, c2, r1, r2, s1, s2}
  c1 = c1
  c2 = c2
  r1 = r1
  r2 = r2
  s1 = s1
  s2 = s2
  Routers = {r1, r2}
  ServerFile <- TwoServers
  Topologies <- Networks
  MaxSeq = 1
  MaxLines = 3
  FreshHeap = FALSE
INVARIANTS
  LinksRecovered
  NearestServer
  TableComplete
  NewestCounts
PROPERTIES
  Terminates
