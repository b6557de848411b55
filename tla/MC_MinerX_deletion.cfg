\* Miner deletion by the user and by garbage collection; the MinerSet starts without spec.replicas until the user sets it.
CONSTANTS
  n1 = n1  n2 = n2  n3 = n3  f1 = f1  o1 = o1  msA = msA  msB = msB
  None = None
  ChainOwner = ChainOwner
  NoReplicas = NoReplicas
  CacheLag = FALSE
  ConfirmFails = FALSE
  Names <- MCNames2
  MinerSets <- MCSets
  InitOrphans <- MCOrphans
  InitForeign <- MCForeign
  InitReplicas = NoReplicas
  MaxReplicas = 1
  ScaleDown = TRUE
  UserDeletes = TRUE
  ZeroTimeout <- MCNoZero
  MaxEvents = 2
SPECIFICATION Spec



PROPERTY MinerDeletionCompletes
PROPERTY ImplementsLifecycle
\* Once the user has deleted the MinerSet and every Miner has left the
\* store there is nothing left to reconcile: the system really stops.
CHECK_DEADLOCK FALSE
