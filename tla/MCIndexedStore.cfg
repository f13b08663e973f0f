SPECIFICATION Spec
CONSTANTS
  Objects = {x, y}
  NoObject = NoObject
  Indices <- MCIndices
INVARIANTS FreeListComplete
PROPERTIES AbstractSpec
