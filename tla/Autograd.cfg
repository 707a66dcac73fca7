SPECIFICATION Spec
CONSTANTS
  Leaves <- Starts
  MaxVariables = 4
  MaxGrad = 2
INVARIANTS TypeOK OutcomeOfGraph
PROPERTIES BackwardExact
