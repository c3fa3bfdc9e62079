SPECIFICATION FairSpec
CONSTANTS
  n1 = n1
  n2 = n2
  k1 = k1
  Mgr = Mgr
  Nobody = Nobody
  None = None
  Nodes = {n1, n2}
  Clients = {c1}
  NodeList <- PairList
  Keys = {k1}
  Owner <- OwnerN2
  Replicas <- ReplicasRest
  LongNames = {n1, n2}
  Alike <- LongAlike
  Quorum = 1
  ListenQueue = 1
  MaxSessions = 2
  MaxCalls = 2
  MaxKills = 2
CHECK_DEADLOCK FALSE
INVARIANTS StartupInv AnsweredOnce ContactsCoordinator StartupComplete
PROPERTIES InitReturns CallEnds
