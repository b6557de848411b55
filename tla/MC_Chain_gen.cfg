\* Spec edits, failing Lists and deletion of one Chain whose ConfigMap and
\* Miner already exist.
CONSTANTS
  MaxGen = 8
  InitChildren = {1}
SPECIFICATION Spec
INVARIANT TypeOK
PROPERTY ObservesGeneration Quiesces
\* The user deletes the Chain and it leaves the store: nothing is left to do.
CHECK_DEADLOCK FALSE
