SPECIFICATION Spec
CONSTANTS
  MinistackSize = 2
  MaxNumCompressed = 1
  OutputReferenceIdx = 0
  CompressedSlcPlan = "AlwaysFirst"
  Layouts <- SeamlessLayouts
  MaskContents <- Contents
  MinSeamSupport = 1
  MaxAcquisitions = 3
  MaxReplacements = 1
INVARIANTS
  TilesAreSeamless
  ModesAgree
CHECK_DEADLOCK FALSE
