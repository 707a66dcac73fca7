SPECIFICATION Spec
CONSTANTS
  Leaves <- MatrixAndRow
  MaxImpls = 5
INVARIANTS TypeOK ValuesAsEager KernelInBounds KernelWellFormed
PROPERTIES StoragePermanent
