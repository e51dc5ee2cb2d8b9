SPECIFICATION FairSpec
CONSTANTS
  Buttons = {"left"}
  Modifiers = {"shift"}
  Keys = {"w"}
  ReleaseOrder <- MCReleaseOrder
  MaxPending = 2
  Sizes = {2, 3}
  PipeSize = 1
  Scenarios <- MCScenarios
INVARIANTS AwtInv
PROPERTIES MotionCostsNoPress StopReturns NothingStaysPressed
CHECK_DEADLOCK FALSE
