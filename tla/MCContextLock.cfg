SPECIFICATION LockSpec
CONSTANTS
  Worker = w
  Guis = {main, render}
  Main = main
  None = None
  MaxStages = 3
  Unguarded = FALSE
INVARIANTS NoChangeWhileDrawing YieldServesTheGui
PROPERTIES OnlyAPauseKeepsTheGuiWaiting
CHECK_DEADLOCK FALSE
