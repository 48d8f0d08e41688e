SPECIFICATION Spec
CONSTANTS
  Runs = {r1, r2, r3}
  NoRun = NoRun
  Consumers = {c}
  Slots = 2
  MaxEvidence = 1
  MaxCrashes = 1
SYMMETRY Interchangeable
INVARIANTS
  
  
  ProductOfOneFactor
PROPERTY ValidPairIsImmutable
