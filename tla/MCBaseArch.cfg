SPECIFICATION Spec
CONSTANTS
  w1 = w1
  w2 = w2
  w3 = w3
  p1 = p1
  p2 = p2
  p3 = p3
  Wires = {w1, w2, w3}
  Pips = {p1, p2, p3}
  Nets = {n1, n2}
  PipDst <- MCPipDst
  Strengths = {1, 6}
  UserStrength = 6
  NoPip = NoPip
  NoNet = NoNet
  Unbound = Unbound
  Free = Free
INVARIANTS TypeOK RecordedIsBound BoundIsRecorded
PROPERTIES AbstractSpec
