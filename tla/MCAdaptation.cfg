SPECIFICATION Spec
CONSTANTS
  c1 = c1
  c2 = c2
  ip1 = ip1
  ip2 = ip2
  v1 = v1
  Conns = {c1, c2}
  Ips = {ip1, ip2}
  PartOf <- Unrelated
  Videos = {v1}
  Manifest <- Manifests
  Chunks <- FastOrInstant
  Undefined = 0
  AlphaNum = 3
  AlphaDen = 10
INVARIANTS
  BestBitrate
  EstimateMeasured
PROPERTIES
  Approaches
SYMMETRY Swaps
