\* Deletion by the user of a Chain-owned Miner whose spec.podDeletionTimeout is 0s.
CONSTANTS
  n1 = n1  n2 = n2  n3 = n3  f1 = f1  o1 = o1  msA = msA  msB = msB
  None = None
  ChainOwner = ChainOwner
  NoReplicas = NoReplicas
  CacheLag = FALSE
  ConfirmFails = FALSE
  Names <- MCNames2
  MinerSets <- MCSets
  InitOrphans <- MCNoOrphans
  InitForeign <- MCForeign
  InitReplicas = 1
  MaxReplicas = 1
  ScaleDown = FALSE
  UserDeletes = TRUE
  ZeroTimeout <- MCZero
  MaxEvents = 2
SPECIFICATION Spec
PROPERTY MinerDeletionCompletes
\* Once the user has deleted the MinerSet and every Miner has left the
\* store there is nothing left to reconcile: the system really stops.
CHECK_DEADLOCK FALSE
