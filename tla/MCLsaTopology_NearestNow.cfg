SPECIFICATION Spec
CONSTANTS
  Nodes = {c1, c2, r1, r2, s1, s2}
  c1 = c1
  c2 = c2
  r1 = r1
  r2 = r2
  s1 = s1
  s2 = s2
  Routers = {r1, r2}
  ServerFile <- TwoServers
  Topologies <- ClientMoves
  MaxSeq = 1
  MaxLines = 4
  FreshHeap = TRUE
INVARIANTS
  NearestNow
