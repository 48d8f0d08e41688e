SPECIFICATION Spec
CONSTANTS
  MinistackSize = 2
  MaxNumCompressed = 2
  OutputReferenceIdx = 0
  CompressedSlcPlan = "AlwaysFirst"
  Slcs = {s1, s2}
  NoMask = NoMask
  AllValid = AllValid
  Masks = {AllValid}
  Phase <- PhaseTerm
  Compress <- CompressTerm
  Quality <- QualityTerm
  Frames = {f1, f2}
  Models = {m1, m2}
  Configs = {c1, c2}
  Tolerances = {t1, t2}
  LargestOnCpu = 3
  None = None
  MaxAcquisitions = 5
  MaxArrivals = 3
  MaxRevisions = 3
SYMMETRY Interchangeable
INVARIANTS
  RevisionIsRecapture
  RegistriesMeet
  ExtendsLikeACapture
CHECK_DEADLOCK FALSE
