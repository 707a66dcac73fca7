SPECIFICATION Spec
CONSTANTS
  Shapes <- MCShapes
  FirstValue <- MCFirstValue
  SecondValue <- MCSecondValue
  LMP_MAX_DIMS = 3
  WarpBits = 2
  Threads = 2
  MaxBlocks = 2
  kElemwiseMaxBlocks = 1
  kVecWidth = 3
  WarpsPerBlock = 1
  VectorWidth = 2
  MinVectorized = 4
  MaxSteps = 2
INVARIANTS TypeOK RowMajor
PROPERTIES ImplementsAlgebra
