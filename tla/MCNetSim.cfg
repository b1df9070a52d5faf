SPECIFICATION MCSpec
CONSTANTS
  Ips = {1, 2, 3, 4}
  Topologies = {"a", "b"}
  TopoFile <- MCTopoFile
  HashClass <- MCHashClass
  Suite <- MCSuite
  NoTopology = "none"
  MaxUpsets = 4
  GraderUpsets = 2
INVARIANTS OriginalKept StartedComplete StoppedClean LinkAsLogged FreshTest WrongGivesNothing
CHECK_DEADLOCK FALSE
