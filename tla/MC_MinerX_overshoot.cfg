\* Scale-up with a lagging cache and a confirmation poll that may fail.
CONSTANTS
  n1 = n1  n2 = n2  n3 = n3  f1 = f1  o1 = o1  msA = msA  msB = msB
  None = None
  ChainOwner = ChainOwner
  NoReplicas = NoReplicas
  CacheLag = TRUE
  ConfirmFails = TRUE
  Names <- MCNamesUp
  MinerSets <- MCSets
  InitOrphans <- MCNoOrphans
  InitForeign <- MCForeign
  InitReplicas = 1
  MaxReplicas = 2
  ScaleDown = FALSE
  UserDeletes = FALSE
  ZeroTimeout <- MCNoZero
  MaxEvents = 3
SPECIFICATION Spec
PROPERTY CreatesOnlyBelowDesired
