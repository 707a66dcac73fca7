SPECIFICATION Spec
CONSTANTS
  MaxAddress = 11
  Alignment = 2
  Sizes = {0, 1, 2, 3, 4, 5}
  SegmentSizes = {4, 6}
  Block = {b1, b2, b3, b4, b5}
  Null = Null
SYMMETRY Symmetry
INVARIANTS TypeOK IInv NoByteLost Coalesced IndexesExact
PROPERTIES PoolSpec
