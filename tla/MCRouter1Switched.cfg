SPECIFICATION Spec
CONSTANTS
  A = A
  B = B
  C = C
  sA = sA
  sB = sB
  y = y
  z = z
  dA = dA
  dB = dB
  eA = eA
  One = One
  Nets = {A, B}
  Wires = {sA, sB, y, z, dA, dB, eA}
  Pips <- SwitchedPips
  PipSrc <- Src
  PipDst <- Dst
  Switches <- SwitchedPips
  Switch <- SharedSwitch
  HardUnavail <- Closed
  Strengths = {1, 5}
  UserStrength = 6
  Allowed <- OwnSource
  SourceWire <- Sources
  NetConst <- ConstNets
  WireConst <- ConstWires
  Skipped = {}
  Arcs <- SwitchedArcs
  ArcNet <- NetOf
  ArcSink <- SinkOf
  Designs <- SwitchedDesigns
  UseEstimate = TRUE
  MaxTimingRipups = 1
  NoPip = NoPip
  NoNet = NoNet
  NoWire = NoWire
  NoValue = NoValue
  NoArc = NoArc
  Unbound = Unbound
  Free = Free
INVARIANTS RoutedArcsAreConnected TablesConsistent
