SPECIFICATION Spec
CONSTANTS
  n1 = n1
  n2 = n2
  n3 = n3
  n4 = n4
  c1 = c1
  c2 = c2
  k1 = k1
  k2 = k2
  short = short
  long = long
  EmptyValue = EmptyValue
  Garbled = Garbled
  None = None
  Nodes = {n1, n2, n3, n4}
  Clients = {c1, c2}
  Keys = {k1, k2}
  Values = {EmptyValue, short, long}
  Length <- Lengths
  PutValues = {short}
  Stack = {EmptyValue}
  PrefList <- CrossingLists
  NumVNodes <- OneVNode
  MaxVNodes = 1
  LastNode = n4
  VersionLimit = 3
  ListenQueue = 10
  MaxCalls = 1
  MaxKills = 0
CHECK_DEADLOCK FALSE
INVARIANT NoDeadlock
