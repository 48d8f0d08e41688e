SPECIFICATION FairSpec
CONSTANTS
  Runs = {r1, r2}
  NoRun = NoRun
  TileGroups = 2
  MaxCrashes = 2
INVARIANTS
  TypeOK
  MarkerNamesItsBytes
  ScratchIsPrivate
  ReplayIsStable
  FactorFromOwnOperator
PROPERTIES
  CommitsSurvive
  RunsEnd
