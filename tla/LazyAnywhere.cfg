SPECIFICATION Spec
CONSTANTS
  Leaves <- MatrixAndRow
  MaxImpls = 5
INVARIANTS RealizableAnywhere
