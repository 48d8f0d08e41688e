SPECIFICATION FairSpec
CONSTANTS
  MinistackSize = 2
  MaxNumCompressed = 1
  OutputReferenceIdx = 1
  CompressedSlcPlan = "FirstPerMinistack"
  Slcs = {s1, s2}
  NoMask = NoMask
  AllValid = AllValid
  Masks = {AllValid, m1}
  MaxAcquisitions = 6
  MaxArrivals = 2
  Phase <- PhaseTerm
  Compress <- CompressTerm
  Quality <- QualityTerm
INVARIANTS
  TypeOK
  SealedBoundary
  CarryAligned
  PlansAgree
PROPERTIES
  ImplementsSeries
  CallsReturn
