SPECIFICATION FairSpec
CONSTANTS
  A = A
  B = B
  C = C
  sA = sA
  sB = sB
  sC = sC
  y = y
  z = z
  dA = dA
  dB = dB
  eA = eA
  One = One
  Both = Both
  Nets = {A, B, C}
  Wires = {sA, sB, sC, y, z, dA, dB, eA}
  Pips <- CrossPips
  PipSrc <- Src
  PipDst <- Dst
  Switches <- MuxSwitches
  Switch <- MuxOf
  HardUnavail = {}
  Strengths = {1, 3, 5}
  UserStrength = 6
  SourceWire <- Sources
  DriverWires <- Outputs
  NetConst <- ConstNets
  WireConst <- ConstWires
  Resources = {"r"}
  Resource <- ResourceR
  Values = {1, 2}
  Value <- ValueOf
  Arcs <- AllArcs
  ArcNet <- NetOf
  ArcSink <- SinkOf
  Designs <- CrossDesigns
  LateNets = {A}
  MTThreshold = 3
  WireLoc <- Place
  PipLoc <- PipPlace
  Grid <- MCGrid
  Mid <- MCMid
  NetBox <- Boxes
  NoResource = NoResource
  Unavailable = Unavailable
  NoPip = NoPip
  NoNet = NoNet
  NoWire = NoWire
  NoValue = NoValue
  Unbound = Unbound
  Free = Free
INVARIANTS TypeOK CongestionCounts BooksAreTheRoutes ResourcesAreCounted NoAssertionFails DoneMeansRouted ReservedWiresAreForced
PROPERTIES StronglyBoundStay EveryRoundEnds
