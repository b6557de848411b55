\* One Chain, with or without its ConfigMap and Miner in the store: is
\* every spec edit eventually observed?
CONSTANTS
  MaxGen = 2
  InitChildren = {0, 1}
SPECIFICATION Spec
PROPERTY ObservesGeneration
\* The user deletes the Chain and it leaves the store: nothing is left to do.
CHECK_DEADLOCK FALSE
