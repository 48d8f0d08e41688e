SPECIFICATION Spec
CONSTANTS
  A = A
  B = B
  Unwritten = Unwritten
  Clash = Clash
  Bursts = {A}
  Tiles <- UpdateTiles
  LastGen = 2
  Forms = {"f"}
  OddCells <- Origin
  DiskCaps = {7, 60}
  Registered = TRUE
  CarriedGens = {0, 1}
INVARIANTS
  CarriedBlocksUnchanged
PROPERTY
  SealedForEver
CHECK_DEADLOCK FALSE
