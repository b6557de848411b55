\* Scale up and down, user deletions, one orphan and one Chain-owned Miner
\* matching the selector; generated names are interchangeable.
CONSTANTS
  n1 = n1  n2 = n2  n3 = n3  f1 = f1  o1 = o1  msA = msA  msB = msB
  None = None
  ChainOwner = ChainOwner
  NoReplicas = NoReplicas
  CacheLag = FALSE
  ConfirmFails = TRUE
  Names <- MCNames
  MinerSets <- MCSets
  InitOrphans <- MCOrphans
  InitForeign <- MCForeign
  InitReplicas = 1
  MaxReplicas = 1
  ScaleDown = TRUE
  UserDeletes = TRUE
  ZeroTimeout <- MCNoZero
  MaxEvents = 2
SPECIFICATION Spec
SYMMETRY MCSymmetry

INVARIANT LivePodHasGuardedMiner
PROPERTY NoForeignTouch
\* Once the user has deleted the MinerSet and every Miner has left the
\* store there is nothing left to reconcile: the system really stops.
CHECK_DEADLOCK FALSE
