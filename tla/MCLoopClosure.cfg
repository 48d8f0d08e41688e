SPECIFICATION Spec
CONSTANTS
  Unset = Unset
  Runs <- AllRuns
  MinRootPixels = 2
  Reach = 2
INVARIANTS
  JudgedAsWithout
  FanNetworksAccepted
PROPERTIES
  NeverGuesses
  CancellingPays
CHECK_DEADLOCK FALSE
