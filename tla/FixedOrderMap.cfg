SPECIFICATION Spec
CONSTANTS
  Capacity = 4
  Keys = {k1, k2, k3, k4, k5}
  Values = {v1, v2}
SYMMETRY Symmetry
INVARIANTS
  TypeOK
  ProbePathsUnbroken
  KeysOnce
PROPERTY ImplementsLookupMap
