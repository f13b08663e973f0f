SPECIFICATION FairSpec
CONSTANTS
  A = A
  B = B
  C = C
  sA = sA
  sB = sB
  y = y
  z = z
  dA = dA
  dB = dB
  eA = eA
  One = One
  Nets = {A, B, C}
  Wires = {sA, sB, y, z, dA, dB, eA}
  Pips <- CrossPips
  PipSrc <- Src
  PipDst <- Dst
  Switches <- CrossPips
  Switch <- OwnSwitch
  HardUnavail = {}
  Strengths = {1, 5}
  UserStrength = 6
  Allowed <- OwnSource
  SourceWire <- Sources
  NetConst <- ConstNets
  WireConst <- ConstWires
  Skipped = {}
  Arcs <- AllArcs
  ArcNet <- NetOf
  ArcSink <- SinkOf
  Designs <- CrossDesigns
  UseEstimate = TRUE
  MaxTimingRipups = 0
  NoPip = NoPip
  NoNet = NoNet
  NoWire = NoWire
  NoValue = NoValue
  NoArc = NoArc
  Unbound = Unbound
  Free = Free
INVARIANTS TypeOK CheckHolds MapsAgree NoAssertionFails DoneMeansRouted
PROPERTIES LockedWiresOfOthersStay EveryArcReturns
