SPECIFICATION RingSpec
CONSTANTS
  Capacity = 4
  IndexLimit = 12
  Records = {r1, r2}
  Blank = blank
INVARIANTS
  IndicesInOrder
  NoSharedCell
PROPERTY ImplementsBoundedFifo
