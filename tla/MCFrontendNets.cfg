SPECIFICATION Spec
CONSTANTS
  s = s
  t = t
  Top = Top
  Insts = {Top, s, t}
  Parent <- ParentTwo
  Bits = {b1, b2, b3}
  Ports = {p, q}
  Labels = {x, y}
  NoName = NoName
  MaxUnique = 1
  MaxNets = 3
  Loops = FALSE
  Pads = TRUE
CONSTRAINT Cases
SYMMETRY Symmetry
INVARIANTS FrontendTypeOK FlatIndexLive NetsAreTheJoinedSignals AliasesResolve
CHECK_DEADLOCK FALSE
