\* Two MinerSets with overlapping selectors and one orphan Miner.
CONSTANTS
  n1 = n1  n2 = n2  n3 = n3  f1 = f1  o1 = o1  msA = msA  msB = msB
  None = None
  ChainOwner = ChainOwner
  NoReplicas = NoReplicas
  CacheLag = FALSE
  ConfirmFails = FALSE
  Names <- MCNames3
  MinerSets <- MCSets2
  InitOrphans <- MCOrphans
  InitForeign <- MCNoForeign
  InitReplicas = 1
  MaxReplicas = 1
  ScaleDown = FALSE
  UserDeletes = FALSE
  ZeroTimeout <- MCNoZero
  MaxEvents = 0
SPECIFICATION Spec
PROPERTY NoForeignTouch
