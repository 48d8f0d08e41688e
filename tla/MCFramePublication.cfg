SPECIFICATION Spec
CONSTANTS
  Frames <- AllFrames
  Settings <- AllSettings
  NoPoint = NoPoint
  NoTarget = NoTarget
INVARIANTS
  OneDatum
  PublishedIsOneComponent
  RefusedHasNoReference
CHECK_DEADLOCK FALSE
