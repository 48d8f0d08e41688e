SPECIFICATION Spec
CONSTANTS
  A = A
  B = B
  Unwritten = Unwritten
  Clash = Clash
  Bursts = {A, B}
  Tiles <- BatchTiles
  LastGen = 1
  Forms = {"f", "g"}
  OddCells <- Corner
  DiskCaps = {60, 200}
  Registered = FALSE
  CarriedGens = {}
INVARIANTS
  CompleteFileHoldsThePlan
  SharedSourcesAgree
  NodesUnique
  IndexListsTheFile
  HonestBlockAccepted
CHECK_DEADLOCK FALSE
