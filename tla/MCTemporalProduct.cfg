SPECIFICATION Spec
CONSTANTS
  Transactions = {t1, t2}
  Layers <- TwoLayers
  None = None
  Bare = Bare
  Owned = Owned
  Foreign = Foreign
  Exposed = {"sigma"}
  MaxFaults = 2
SYMMETRY Interchangeable
INVARIANTS
  AllOrNothing
PROPERTIES
  ForeignKept
  OnlyUnownedCollides
  PublishesOnce
