\* Scale-down: is a live Miner deleted only while the set has a surplus?
CONSTANTS
  n1 = n1  n2 = n2  n3 = n3  f1 = f1  o1 = o1  msA = msA  msB = msB
  None = None
  ChainOwner = ChainOwner
  NoReplicas = NoReplicas
  CacheLag = FALSE
  ConfirmFails = FALSE
  Names <- MCNames
  MinerSets <- MCSets
  InitOrphans <- MCNoOrphans
  InitForeign <- MCForeign
  InitReplicas = 2
  MaxReplicas = 2
  ScaleDown = TRUE
  UserDeletes = FALSE
  ZeroTimeout <- MCNoZero
  MaxEvents = 2
SPECIFICATION Spec
PROPERTY DeletesOnlySurplus
