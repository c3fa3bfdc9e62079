SPECIFICATION ManagerSpec
CONSTANTS
  n1 = n1
  n2 = n2
  n3 = n3
  Nodes = {n1, n2, n3}
  NumVNodes <- VNodeCounts
  VNodes <- AllVNodes
  HashSpace = 5
  MaxStats = 2
SYMMETRY Alternates
CHECK_DEADLOCK FALSE
INVARIANTS ListIsNearestNodes CoordinatorsAgree
PROPERTIES JoinKeepsOrder StatsCountAgain
