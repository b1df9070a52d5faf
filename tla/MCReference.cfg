SPECIFICATION MCFairSpec
CONSTANTS
  Clients = {1, 2}
  NodeOf <- MCNodeOf
  TransId <- MCTransId
  Servers <- MCServers
  AddressOf <- MCAddressOf
  Names <- MCNames
  Links <- MCLinks
  SinkNode = 5
  Rounds = 1
  MaxQueries <- MCMaxQueries
  MaxAnswers = 3
  VideoName <- MCVideoName
  Bitrates <- MCBitrates
  MaxConnections <- MCMaxConnections
  Scale = 64
  AlphaNum = 1
  AlphaDen = 4
  Rates = {10, 700}
  WebAnswers <- MCWebAnswers
INVARIANTS Understood NearestKnown EstimateBounded WholeAnswer AloneLogged
PROPERTIES ImplementsRoundRobin QueryEnds ThreadsEnd
CHECK_DEADLOCK FALSE
