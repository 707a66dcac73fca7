SPECIFICATION Spec
SYMMETRY Names
CONSTANTS
  a = a
  b = b
  Model = Model
  Layer = Layer
  None = None
  Module = {Model, Layer}
  Root = Model
  Name = {a, b}
  MaxVariables = 3
  MaxPasses = 1
INVARIANT SameObject
