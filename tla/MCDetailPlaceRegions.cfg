CONSTANTS
    Cells = {"a", "b", "p", "q", "r", "s", "k"}
    Bels <- MCBels
    Nets = {"n", "m", "g"}
    Locked = {"k"}
    CanHold <- MCCanHold
    Region <- MiddleColumn
    Children <- MCChildren
    Offset <- MCOffset
    LegalTiles <- MCLegalTiles
    Unavailable <- MCUnavailable
    Pins <- MCPins
    Skipped = {"g"}
    Placements <- MCPlacements
    ThreadCounts = {1, 2}
    InnerIters = 1
    None = None
SPECIFICATION Spec
INVARIANTS RegionsKept
