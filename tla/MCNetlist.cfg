SPECIFICATION Spec
CONSTANTS
  Cells = {c, d}
  PortNames = {p, q}
  Nets = {m, n}
  Indices = {i, j}
  None = None
  Retype = FALSE
  MoveWithin = FALSE
SYMMETRY Symmetry
INVARIANTS NetlistTypeOK PortsAreKnown NetsRefer
CHECK_DEADLOCK FALSE
