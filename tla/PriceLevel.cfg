SPECIFICATION Spec
CONSTANTS
  PoolCapacity = 5
  Levels = {l1, l2, l3}
SYMMETRY Symmetry
INVARIANTS
  TypeOK
  LevelsReadBothWays
  EveryOrderInOnePlace
PROPERTY ImplementsOrderQueues
