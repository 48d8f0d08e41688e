SPECIFICATION Spec
CONSTANTS
  Runs = {r1, r2}
  NoRun = NoRun
  TileGroups = 1
  MaxCrashes = 0
INVARIANT FailedLeavesNoMarker
