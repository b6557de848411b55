\* Scale-up only, a Chain-owned Miner matching the selector, no orphans; the
\* List reads an informer cache that lags the store.
CONSTANTS
  n1 = n1  n2 = n2  n3 = n3  f1 = f1  o1 = o1  msA = msA  msB = msB
  None = None
  ChainOwner = ChainOwner
  NoReplicas = NoReplicas
  CacheLag = TRUE
  ConfirmFails = FALSE
  Names <- MCNamesUp
  MinerSets <- MCSets
  InitOrphans <- MCNoOrphans
  InitForeign <- MCForeign
  InitReplicas = 1
  MaxReplicas = 2
  ScaleDown = FALSE
  UserDeletes = FALSE
  ZeroTimeout <- MCNoZero
  MaxEvents = 3
SPECIFICATION Spec
INVARIANT TypeOK
PROPERTY Converges CreatesOnlyBelowDesired
