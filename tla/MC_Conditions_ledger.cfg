\* Any sequence of setter calls on the conditions of one object.
CONSTANTS
  PodHealthy = PodHealthy
  Resized = Resized
  Types <- MCTypes
  Reasons <- MCReasons
  Messages <- MCMessages
  MaxTime = 2
SPECIFICATION Spec
INVARIANT TypeOK
INVARIANT NoDuplicateTypes
INVARIANT SetThenGet
PROPERTY TimeMovesOnlyWithChange
