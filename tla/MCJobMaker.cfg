SPECIFICATION Spec
CONSTANTS
  None = None
  AuxLife = 1
  Configs <- MCConfigs
  n1 = n1
  n2 = n2
  Nodes = {n1, n2}
  MaxHeight = 2
  MaxAux = 2
  MaxQueue = 1
  MaxLag = 1
  MaxAge = 4
  HashSuffix <- MCHashSuffix
  RpcInterval = 1
  JobInterval = 1
  MaxDelay = 1
  GbtLife = 2
  EmptyGbtLife = 1
  WorkLife = 2
  RskLife = 2
  VcashLife = 3
INVARIANTS
  BestIsOut
  JobsReadBack
PROPERTIES
  HeightFallsLate
  JobsKeepComing
CHECK_DEADLOCK FALSE
