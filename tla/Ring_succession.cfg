SPECIFICATION RingSpec
CONSTANTS
  Node = {1, 2, 3}
  VNodes = 2
  Size = 4
INVARIANTS OwnerIsNearest SuccessionStable
