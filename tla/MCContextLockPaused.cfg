SPECIFICATION LockSpec
CONSTANTS
  Worker = w
  Guis = {main, render}
  Main = main
  None = None
  MaxStages = 3
  Unguarded = FALSE
PROPERTIES GuiGetsTheLock
CHECK_DEADLOCK FALSE
