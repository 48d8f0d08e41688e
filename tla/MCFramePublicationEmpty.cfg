SPECIFICATION Spec
CONSTANTS
  Frames <- TwoDates
  Settings <- Plainly
  NoPoint = NoPoint
  NoTarget = NoTarget
INVARIANTS
  NothingLeftIsPublished
CHECK_DEADLOCK FALSE
