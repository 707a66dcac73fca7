SPECIFICATION Spec
CONSTANTS
  Starts <- Matrices
  FillValues = {1}
  min_val <- Lowest
  max_val = 2
  Compared = {"gt"}
  MaxVariables = 4
  MaxWrites = 1
INVARIANTS TypeOK DerivativeExact
